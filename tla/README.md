# FlintOS: TLA+ models, checks and proofs

FlintOS is a small real-time operating system in Rust for two dual-core
microcontrollers: the ESP32 (Xtensa) and the RP2040 (two Cortex-M0+ cores).
This directory models its kernel (the scheduler, what tasks block on, the locks
underneath, the life of a task, time, the heap, DMA) and the parts around it
that keep state under concurrency or failure: flash storage and the two flash
drivers, USB serial, the SPI and I2C controllers, the ownership of units and pins,
the WPA2 station and the glue to the ESP32's Wi-Fi library, isolated tasks and
the start of both cores. TLC checks each module on a small instance; for the
kernel's core and for the parts with a protocol of their own (section 4) TLAPS
proves the main invariants for every value of the constants.

Paths below are relative to the repository. `PROJECT.json` maps every
definition to the lines it models, and lists runs, mutants, hazards and
theorems.

## 1. Inventory

| Component | State | Operations | Talks to |
|---|---|---|---|
| Scheduler (`kernel/src/scheduler.rs`, `switch.rs`, `armv6m.rs`) | TCB table, ready mask, one rotor per level, current task per core, a pending-switch flag per core | `block_current`, `unblock`, `yield_current`, `on_tick`, `schedule`, `request_switch`, the trap handler of each machine | every blocking primitive; the other core by inter-core interrupt |
| Priority-inheritance mutex (`kernel/src/mutex.rs`, `api/src/mutex.rs`) | table of owner and waiter list, `blocked_on_mutex` in the TCB | `lock`, `unlock`, `boost_chain`, `recompute_owner_priority` | changes priorities in the scheduler |
| Lock-free queue (`api/src/queue.rs`) | slots with a state byte, two free-running positions | `try_send`, `try_recv` | tasks and interrupt handlers |
| Waiter lists (`kernel/src/queue.rs`) | table keyed by address, two bounded lists per entry | `block_send`, `block_recv`, `wake_one_*`, `test_or_enrol`, `produce_and_wake`, `forget_task` | scheduler; queue and runtime objects |
| Runtime objects (`kernel/src/dynobj.rs`) | semaphore count, byte-queue length, recursive owner and depth, event bits | `give`/`take`, `send`/`recv`/`send_from_isr`, `lock`/`unlock`, `set`/`clear`/`wait` | waiter lists |
| Task life cycle (`kernel/src/spawn.rs`, `dynobj.rs`) | task slots, stacks in the heap | `spawn`, `flint_task_exit`, `delete_task`, `delete_self`, `reap_deleted` | scheduler, waiter lists, heap, trap handlers |
| Spinlock and critical sections (`kernel/src/smp.rs`, `arch/*/critical_section.rs`) | holder, nesting depth, interrupt masks, hardware spinlock 14 | `with`, `try_with`, `cs_enter`, `cs_exit` | everything that is "one step" elsewhere |
| `Once`, `CsCell` (`api/src/sync.rs`) | a three-valued state word; a cell | `get_or_try_init`, `get`, `with` | drivers, statics |
| DMA broker (`kernel/src/dma_broker.rs`) | bump offset, transfer ids, one completion queue | `alloc`, `begin_pair`, `signal_complete`, `await_transfer` | drivers, the lock-free queue |
| DMA channels and the UART's exchange (`soc/rp2040/src/dma.rs`, `drivers/physical/rp2040/uart/src/dma.rs`) | claimed channels with a completion token each, interrupt enables | `claim`, `configure`, `start_mask`, `release`, `exchange_dma`, `await_done`, the top half | the broker; the engine |
| Time and software timers (`kernel/src/timer.rs`, `arch/*/tick.rs`) | a tick counter of two words, timer slots, sleep deadlines | `now`, `sleep_ms`, `once`, `every`, `cancel`, `process_timers` | scheduler tick on both cores |
| Heap (`lib/heap`, `kernel/src/heap.rs`) | address-ordered free list, headers | `alloc`, `free`, `realloc`, `init` | everything that allocates |
| Key-value store (`lib/kvstore`, `kernel/src/nvs.rs`) | a log of entries in flash, its tail | `open`, `get`, `set`, `compact` | flash drivers |
| Its users (`radio/esp32/src/nvs.rs`, `calibration.rs`) | handles; the calibration record | `nvs_open` to `nvs_erase_key`, `register_with`, `save` | the store |
| ESP32 flash driver (`drivers/physical/esp32/flash`), interrupt table (`kernel/src/interrupt.rs`) | caches, interrupt enables, the stalled core, SPI1; handlers and their IRAM marks | read, write, erase; `connect`, dispatch | both cores, all handlers |
| RP2040 flash lockout (`soc/rp2040/src/xip.rs`, `watchdog.rs`, `drivers/physical/rp2040/flash`) | request, acknowledgement and generation words, a hardware lock, the watchdog | `Guard::acquire`, drop, `service_request`, `begin` | the other core |
| USB serial (`drivers/bus/usb-device`, `drivers/physical/rp2040/usb`) | control-transfer state, two rings, endpoint buffers and toggles | `service`, `poll`, `write`, `read`, `set_stall` | a host |
| WPA2 station (`lib/wpa`, `radio/esp32/src/supplicant.rs`) | handshake state, keys awaiting installation | message 1 and 3, connect, disconnect, transmit done | the Wi-Fi library, an access point |
| Wi-Fi library glue (`radio/esp32/src/tasks.rs`, `ets_timer.rs`, `events.rs`, `net.rs`) | task and semaphore tables, timers, event ring, frame ring | create and delete, arm and disarm, post and dispatch, push and pop | kernel tasks, the one alarm |
| SPI (`drivers/bus/spi-bus`, `drivers/physical/esp32/spi`, `soc/esp32/src/dma.rs`) | hosts, the shared DMA channels with their owners, descriptor chains, one asynchronous call | `open`, `transfer`, `transfer_dma`, `exchange_async`, `await_done`, the top half | bus users, the broker |
| I2C (`drivers/bus/i2c-bus`, `drivers/physical/esp32/i2c`, `drivers/physical/rp2040/i2c`) | command list or command FIFO, flags | `transfer`, `transact`, `wait_done`, `recover`, `serve_once` | devices on the wire, or a foreign master |
| RP2040 ownership (`soc/rp2040/src/ctrl.rs`, `drivers/physical/rp2040/*`) | claim bits behind hardware lock 31, retired PIO leases, edge enables | `open` and drop of I2C, SPI, PWM, ADC, UART, PIO and pins | both cores, handlers |
| RP2040 PIO (`drivers/physical/rp2040/pio`) | instruction memory, four machines, FIFOs | `configure`, `start`, `exchange`, `cancel`, `reset` | the block |
| Radio objects (`radio/esp32/src/adapter.rs`) | allocation trace, object names, a semaphore per task | the allocation, queue, semaphore and mutex entries of the library's table | heap, runtime objects |
| Radio PHY and station (`phy.rs`, `station.rs`, `wifi.rs`, `scan.rs`) | reference counts, clock bits, saved masks; connection state and channel | `enable`, `disable`, clock callbacks, enter and exit; `connect`, `disconnect`, `status`, `scan`, `bridge` | the library |
| Isolation (`kernel/src/isolation.rs`, `hal/src/isolation.rs`, `arch/armv6m/src/mpu.rs`) | private memory, the active domain and MPU bank of each core | `spawn`, `activate`, `validate_psp`, suspend, fault | scheduler, PendSV |
| Boot and core join (`kernel/src/boot*.rs`, `soc/rp2040/src/multicore.rs`, `soc/esp32/src/appcpu.rs`) | per core: what is set up, the idle task, the joined mask; the mailbox protocol | the two boot sequences, launch, join | scheduler, the boot ROM |
| System calls, power | tables and registers | forwarding | kernel |
| Other drivers, rest of the radio adapter, chip support, board files | registers, descriptors | per device | hardware or a binary library outside the repository |

What is hard here, and would hardly be met by a test:

* a task that has decided to block runs on, with interrupts enabled, until its
  software interrupt is taken; it may be woken or migrated in between;
* two cores pick from one ready set while priorities change under inheritance;
* a deadline, a wake and a delisting race for the same waiter entry;
* "try, then enrol" against a producer that publishes in between;
* identifiers are slot numbers and are reused while lists still name them;
* a trap on Xtensa runs on the stack of the task it is leaving;
* power fails inside a flash write, and the next boot continues the log;
* the code of a handler is in the memory that is being programmed;
* a request is withdrawn while the other core is answering it;
* frames, completions and SETUP packets arrive late, again or not at all;
* "look, then sleep" against a wake in between, with a time-out as backstop;
* an open that claims a unit and then its pins, refused half-way, on two cores;
* a flag and the condition it stands for are read in two accesses;
* a core that joins is asked to reschedule before it can take the interrupt;
* positions, sizes and tables at their limits.

## 2. Modules

    Scheduler  <-extends-  Mutex  <-  Mutex_proofs
    Waiters    <-extends-  ApiQueue <- Tasks_proofs
               <-extends-  DynObj
               <-extends-  TaskLife <- Tasks_proofs
    Fifo       <-instance- SlotQueue <- SlotQueue_proofs
    KvStore      <-extends-  Nvs <- Store_proofs
    RadioTasks, EtsTimer     <-extends-  RadioInput
    EspSpi       <-extends-  I2c
    PicoClaims   <-extends-  PicoPio
    RadioObjects, RadioPhy   <-extends-  Station
    Sync, DmaBroker, XipLockout, Timers, Heap, DmaChannels
                 <-extends-  Platform_proofs;  MCPlatform
    FlashWindow, Wpa, Boot, RadioInput, PicoPio  <-extends-  Devices_proofs
    Isolation, DynObj, I2c   <-extends-  Drivers_proofs
    Station      <-extends-  Radio_proofs
    Nvs, FlashWindow, Wpa, UsbSerial, RadioInput <-extends-  MCDevices
    DynObj, I2c, PicoPio, Station, Isolation, Boot  <-extends-  MCDrivers

One module extends another also where the two only belong to one combined
statement (RadioInput and the tables before it, I2c and EspSpi, PicoPio and
PicoClaims, Station and the rest of the radio): a theorem about the combination
then needs one module. The values TLC gives to the constants of Scheduler, Mutex,
SlotQueue and TaskLife are definitions at the end of those modules; the
compositions have MC modules.

**Scheduler.** Everything inside `scheduler::with` is one step, because it runs
under the scheduler spinlock (Sync.tla shows that this is exclusive). What
the code does after unlocking is not one step: `pc` follows a task through
`request_switch` (`run`, `req`: owes it, `store`: has read its core number,
`wait`: interrupt raised). `raised` is an interrupt that is due; `Trap(c)` is
`_flint_trap` or `_flint_armv6m_switch`. `ready` is the ready mask as a set of
levels. Which sleepers a tick finds expired is a choice, so tick values do not
appear. `XTENSA` selects the handlers: on the RP2040 only the boot core runs
`on_tick`. `Executes` does not look at the task's state, as the processor does
not: that a blocked task does not execute is a theorem, not a guard.

**Mutex** adds the table. An entry exists exactly while the mutex is held.
`BoostChain` is the closure of "blocked on a mutex owned by"; `Walk` is the
code's loop, which stops after `MAX_MUTEXES` boosts or where a link is missing,
and `WalkCoversChain` compares the two. A refused lock (the owner
itself, a full list or table) changes nothing and is therefore not an action.

**SlotQueue** has one action per atomic access of `try_send` and `try_recv`;
positions wrap at `POS_MOD`, which need not be a multiple of the capacity.
**Fifo** is what the queue promises. The refinement mapping takes effect at the
position compare-exchange; a reserved but unwritten position stands for the
message its producer is about to store.

**Waiters** is the waiter table with its two locks as one step.
**ApiQueue** puts the blocking calls on top of it, over a ring in which the
claim of slot and position is one step (SlotQueue covers the difference).
Other queues may have used up the table before it starts.
**DynObj** has the four runtime objects; every blocking call is the loop test
or enrol, resume, look at the deadline. `Timed` are the objects whose callers
may give a finite timeout. `send_from_isr` takes no lock and is three steps;
`ISR_REMOTE` lets it run on another core than the tasks.
**TaskLife** has slots, stacks, `current_per_core` and, separately, the stack
each core's stack pointer is in (`onStack`). `delete_task` is three steps
(clear the slot, `forget_task`, `heap::free`), as in the code.

**Sync** has `Once`, step by step, and the spinlock: a task and a handler context
per core, the interrupt mask, the saved masks of nested sections and both forms
of the lock. `Paths` are the lock nests the kernel takes. **DmaBroker** follows
its source step by step; its words wrap at `MAX_WORD`.

**DmaChannels** lists, for the task in a UART exchange and for another owner of
a channel, the register accesses and lock sections each has still to do, and
runs the top half between or beside them, depending on the core it was connected
on. The engine, its late completion after an abort (erratum E13) and the fact
that writing `CTRL_TRIG` triggers a channel are the chip's.

**Timers** keeps the counter as the two words the code writes one after the
other; on the RP2040 the critical section excludes the other core, on the ESP32
it does not. Due callbacks are a snapshot that a core runs after unlocking.
**Heap** has addresses, headers and the free list, with the code's rounding,
alignment gap and merge rules; `init` adds the regions one after another as
`add_region` does. Regions are disjoint and small alignments divide the heap's
own (`CallersAssumption`): they come from the linker script and from `Layout`. The
sums of `alloc` and `align_up` wrap at `USIZE`, as the release build's do; the
state after a request was met through a sum that wrapped is undefined behaviour
and not followed further (`wrapped`). **XipLockout** has one action per access to the
request, acknowledgement and lock words, the watchdog's registers, and a reset
at any point of the ROM call.

**KvStore** has flash as words that can only lose bits: programming a word that
is not erased gives neither value. A crash or a failed operation strikes before,
inside or after any word, during a set, an erase or the copy back of compaction;
`Open` finds the tail as `scan_tail` does. **Nvs** is what uses it: handles,
compaction and erasure when full, and the calibration record, valid only when
its checksum, written last, is there. **FlashWindow** walks a flash operation
through `with_cache_off` and SPI1 while interrupts arrive, handlers are
connected on either core and any wait times out. The chip is external: it may be
in continuous reading when an operation starts, and then takes what is sent for
an address (`Hears`), so that a command is not carried out and a status read is
anything (`Reads`); `ignored` records that a program or an erase was not carried
out, `blind` that an erase has spoken to a chip in that mode.

**Wpa** has keys as terms and an access point and an air that keep, repeat and
lose frames. `esp_wifi_internal_tx` may refuse a frame, which the supplicant does
not notice; `fourLost` records that this befell a message 4. **UsbSerial** has
both layers of the device and a host that moves between any two polls, whatever
completions are still latched; `host.ahead` records that it went on while a
status stage that resets an endpoint was acknowledged and not yet applied
(`Unapplied`). **RadioTasks**, **EtsTimer** and **RadioInput** are the
tables and queues between the Wi-Fi library and the kernel, one lock section to
a step; **EtsTimer** includes the kernel's alarm.

**EspSpi** opens hosts and claims one of the DMA channels for each, and walks a
transfer of the bus through the FIFO or a chain of descriptors; the engine takes
outgoing chunks and lands incoming ones on its own. A buffer is the set of its
byte positions, so "moved" is a set. `spiResidue` is what earlier transfers left
in the engine: a FIFO count that makes the next DMA receive land short
(`LandsShort`), and a FIFO transaction given up that still shifts, whose end the
next one takes for its own; `short` are the bytes a call lost by it. **I2c** has both controllers under one bus:
the ESP32's command list with its recovery, the RP2040's command FIFO with abort
and STOP as separate reads, and the RP2040 as a slave. **PicoClaims** has the
claim lock, the bits, and each driver's order of claims with its roll-back, for
a task and a handler on one core and a task on the other. **PicoPio** is one
block: memory from the top, machines, FIFOs and the time-out of an exchange.

**RadioObjects** is the library's operating-system table where it makes things:
each entry is the list of lock sections it goes through. **RadioPhy** has the
counts, the clock register and the registration as separate steps, and the
critical section entered and left by two calls. **Station** has the
application's calls, the library's events on their ring, and `bridge`.

**Isolation** has the pool, the tasks with their saved stack pointers, and per
core the active domain, the MPU's bank and the privilege; an isolated task may
leave any task's stack pointer behind. **Boot** is a list of steps per core for
either machine, with the mailbox, the ROM that may lose its place, and
reschedule requests from the moment a core is in the joined mask.

**MCPlatform**, **MCDevices** and **MCDrivers** hold the parts that share no
state: `unit` (`part` in MCDrivers) is the part that runs in a behaviour and the others keep their initial state, so
that the state spaces add up. Where a part chooses something in its initial
state (the machine, the core of the handler) only that part's own behaviours
choose. Sync, TaskLife and Timers choose the machine there (`machine`,
`timeOn`), so one run covers both.

## 3. Runs

| Run | Instance | Distinct states | What it shows |
|---|---|---|---|
| `sched_uni` | one core, idle and two peers, quantum 3 | 23 574 | round robin and preemption eventually happen |
| `mutex_smp` | RP2040, two cores, two migrating tasks, one mutex | 159 828 | ready mask, core assignment, pending-switch protocol, guards; `schedule()` never answers with a blocked task |
| `mutex_uni` | one Xtensa core, three tasks, two mutexes | 575 642 | lists match TCBs, every priority is the base or what the chain of waiters calls for (`InheritanceExact`), the bounded walk suffices |
| `slot_queue` | capacity 2, words modulo 3, two producers, two consumers, two messages | 1 844 090 | the ring implements Fifo; one caller per slot |
| `api_queue` | one slot, one sender, two receivers, timeouts 0 and finite | 106 958 | the lists tell the outcome of every call (`ListTellsOutcome`), finite calls return |
| `task_life` | two cores, two idle tasks, a resident, two slots, two stacks, both machines | 1 078 032 | `StacksSafe`: stacks have one owner; no slot is cleared under a core; on the RP2040 no core is on a freed or shared stack |
| `platform` | see below | 2 577 952 | `OnceExclusive`; `SectionsExclude` (locks exclude, no re-entry, cells); `BuffersDisjoint`, `ReleasedWhenDone`; `TransferOver`; `XipExclusion`, `DeadlineKept`; `TimersKept`; `HeapTiles` |
| `devices` | see below | 2 020 074 | `AckedSurvives`; `FlashSafe` (`CacheWindow`, `ChipNeverMisused`); `KeysAgree`, `KeysAfterFour`; `UsbInStep` (`StreamsKept`, `ControlAgrees`); `GlueRight` (`BlobTasksOwn`, `LateByBackstop`, `InputInOrder`, `EventNotStuck`) |
| `drivers` | see below | 1 188 298 | `ObjectsRight` (`NothingLost`, `CountsAgree`); `BusRight` (`SpiMoved`, `I2cRight`); `PicoRight` (`ClaimsExact`, `PioRight`); `RadioRight` (`RadioObjectsRight`, `PhyRight`, `StatusAgrees`); `IsolationKept`; `BootRight` |
| `api_queue_strand` | one receiver, one handler | violation | a receiver sleeps for good beside its message |
| `dyn_timeout` | three tasks, one semaphore | violation | a take with a finite timeout does not return |
| `store_torn` | the store of `devices`, one crash | violation | after a torn write, a set returns Ok and its value cannot be read |

The parts of `platform`:

| Part | Instance | Properties |
|---|---|---|
| Once | three callers | one writer at a time; every reference ever handed out sees the one value |
| the spinlock | two cores, a task and a handler each, two locks nested, one cell, both machines | exclusion, no re-entry of a section by a handler, cells |
| DmaBroker | two tasks, pool of 12 bytes, words modulo 16, queue of 2, three transfers | buffers are disjoint and in the pool; a wait that succeeds ends after its own transfer |
| DmaChannels | three channels, one of them perhaps taken for good, one other owner, two exchanges, the handler on either core | after an exchange the engine is off the buffers whatever the outcome; where the handler shares the task's core, Ok means this exchange has been received |
| XipLockout | three requests, jobs of two pages | with XIP off the other core is parked by this very request; the watchdog bounds every ROM call and is restored on every way out |
| Timers | one sleeper, or a one-shot and a periodic callback in two slots; words of two values, three ticks | no registration lost or run twice; on the RP2040 nothing is early |
| Heap | three regions (unaligned, too small, apart), sizes 0, 3, 6, 50, 63, alignments 1, 8, 32, three live blocks, `usize` of 64 values | until a sum wraps, the live blocks and the free list are exactly the bytes of the regions, each byte once; the accounts agree, free neighbours are merged, pointers aligned and large enough |

The parts of `devices`:

| Part | Instance | Properties |
|---|---|---|
| KvStore, Nvs | two sectors of five words, scratch of eight, two users of one handle, a blob of two words, a calibration of four records, one fault | a value whose set returned Ok is read back through any crash outside a rewrite of the log, while every set met erased space |
| FlashWindow | two interrupts, pages of two words, two-word transfers | no fetch from flash while a cache is off; the machine is restored however the operation ends; every program reaches a chip that listens, is idle, enabled and unlocked, and stays in its page; programs and erases are carried out unless an erase has spoken to a chip in continuous reading |
| Wpa | right and wrong passphrase, two associations, three nonces, two resends, any frame refused | no key installed that the access point does not have, none twice, and, unless the radio refused message 4, only once message 4 is out |
| UsbSerial | packets of 2, rings of 3, four bytes, two requests, one bus event, one direction of traffic or none to a behaviour | no byte lost, repeated or reordered until the host runs ahead of a status stage that resets an endpoint; the class driver is never refused; host and device agree on the stage of a control transfer |
| RadioTasks | two slots, three ids, four creations by one creator | a task runs its own entry under its own id with its own semaphore |
| EtsTimer | two timers, one slot, delays 0, 1, 3, wait of 2 | no timer later than the wait's time-out |
| RadioInput | rings of 2 and 3, two posters, four inputs | order and number are kept; no event waits longer than the sleep's time-out |

The parts of `drivers`:

| Part | Instance | Properties |
|---|---|---|
| DynObj | three tasks; a semaphore with a queue, a recursive mutex without or with timeouts, or an event group | nothing available is left to sleepers only; depths and lengths are exact |
| EspSpi | two hosts, one free channel, pieces of two bytes, two descriptors of two, lengths 0, 1, 3, 5 | a polled transfer that returns Ok accounted for every byte, and moved them all unless it met what an earlier one left in the engine; the engine is off its memory; no channel has two hosts |
| I2c | an ESP32 master, an RP2040 master, an RP2040 slave; lists of one and two ops, some refused | an Ok transfer read what the device answered and its bytes were acknowledged; the controller is still afterwards; a slave reports bytes in order, none twice |
| PicoClaims | a task and a handler on core 0, a task on core 1; every kind of unit, two pins | a bit is set exactly for what is owned or retired; no unit or pin has two owners; a pad is routed to its owner |
| PicoPio | two machines, four instructions, FIFOs of one, two words | memory in use is the programs configured; an exchange returns the answer to its own word |
| RadioObjects | two task ids used again, three heap blocks, trace of two, one semaphore slot, three entries called | the trace names what is outstanding; a task has its own life's semaphore; nothing held is free |
| RadioPhy | two users one after another, six calls; two users in the critical section on two cores | whoever holds the PHY has clocks and RF; interrupts are masked exactly where a user is inside |
| Station | ring of two, two channels, six calls | when all events have arrived and none was dropped, status is the link's state and channel |
| Isolation | three ids, two cores, pool of two stacks, three spawns, refused sizes | unprivileged code reaches its own stack and data only; a resumed stack is the task's own; faults are put down to the task that ran |
| Boot | both machines, three exchanges in which the ROM loses its place, three tasks made ready | a core is joined only when its idle task runs; unmasked only with its traps; no request to a core that did not join; the wait for core 1 can end |

Why the bounds are enough. Two cores are all the hardware has. A third task is
what a two-party protocol needs to show starvation, a chain, or a wake taken by
the wrong party. A capacity of 1 or 2 makes full and empty meet and makes the
ring wrap within a few calls; `POS_MOD` is the smallest word out of step with
the capacity. Lists of two show skipping of timed-out entries; a table of one
entry shows refusal. The DMA sizes include ones that need rounding and ones
whose rounding overflows the word; the heap's include one that rounds to nothing
and ones whose end wraps behind a block's start. Words of two values make the tick counter
carry after two ticks. A store of ten words fills within three sets, so that
compaction, erasure and giving up all happen. Two associations and three nonces
let a frame of each earlier round meet each later one. Replies of one packet and
of one packet and a byte stand on both sides of the packet boundary, and four
bytes are more than a ring holds, so that a ring fills and a write is cut. Transfer
lengths below, at and above one piece and one descriptor meet every branch of
the splitting. Three spawns from a pool of two stacks show refusal and a reused
id; nine exchanges are the most the launch with three stumbles needs.

Symmetry is used only where members are interchangeable and no formula chooses
among them: callers of a kind and messages in `slot_queue`, heap blocks in
`task_life`, interrupts and users of the store in `devices`; all of them check
safety only.

Named bounds that the code does not have: `DEPTH_MAX` (nested locks of one
owner), `MAX_TRANSFERS`, `MAX_EXCHANGES`, `MAX_PEER_USES`, `MAX_TICKS`,
`MAX_REGS`, `MAX_GEN`, `MAX_JOB`, `MAX_LIVE`, `MAX_FAULTS`, `MAX_WORDS`,
`MAX_ASSOC`, `MAX_SNONCE`, `MAX_RESENDS`, `MAX_SETUPS`, `MAX_BYTES`, `MAX_BUS`,
`MAX_MADE`, `MAX_NOW`, `MAX_ARMS`, `MAX_INPUT`, `MAX_SPI_CALLS`,
`MAX_I2C_CALLS`, `MAX_OPENS`, `MAX_PIO_CALLS`, `MAX_OSI_CALLS`, `MAX_PHY_CALLS`,
`MAX_PHY_NEST`, `MAX_STA_CALLS`, `MAX_SPAWNS`, `MAX_STUMBLES`, `MAX_READY`.
`MAX_EXCHANGES` is such a bound in DmaChannels; in Boot it is the code's
`MAX_LAUNCH_EXCHANGES`.

Deadlock is checked except in `task_life` (only idle tasks may remain), and
`platform`, `devices`, `drivers` and `store_torn` (a part is done when its bounds
are used up, and all tasks of DynObj may wait for something nobody provides).

Every property of a passing run has a mutant in `PROJECT.json`: a named
operator that changes a definition the way a plausible bug would, under which
TLC finds the property violated.

### Fairness

* Scheduler: the timer keeps ticking on every core, a raised interrupt is
  taken, and a core inside `request_switch` finishes it. The first two are the
  hardware's, the last is straight-line code that no lower-priority work can
  hold up for ever. Tasks owe nothing: they may compute for good.
* ApiQueue and DynObj: a caller the scheduler may run takes its next step, and
  time passes (deadlines, ticks). Nobody has to call anything.

All are weak fairness; strong fairness is not needed. `platform`, `devices` and
`drivers` check safety: "eventually" appears there as a bound on lateness
(the parts `LateByBackstop` and `EventNotStuck` of `GlueRight`), which needs no fairness because time passes
only while nobody has a step to take.

## 4. Proofs

The prover's leaves are SMT, Zenon and, for temporal steps, LS4. All theorems
hold for every value of the constants that meets the named ASSUMEs of the module
proved about, and TLC evaluates those on every run. Where two modules of a
combination share a constant (`Tasks`, `Cores`, `Callers`), the theorem is for
every value of it.

* **Mutex_proofs** (1820 obligations): any number of tasks, cores, levels and
  mutexes, either machine, any affinity; cores are finite, each with an idle task
  pinned to it alone at the last level.
  - `TypeCorrect`, `ReadyMask`, `CoresExclusive` (one core per task, affinities
    respected), `BlockedDoNotRun`, `NeverABlockedChoice`, from `IInv`: `TypeOK`
    with `SchedInv`, none of whose parts is inductive alone. `BlockedDoNotRun`
    rests on `Switching`: a task that is blocked and still current has yet to
    read its core number, or has read that of the core it is on and owes the
    store, or waits with the flag of that core up. `NeverABlockedChoice` rests on
    `IdleRunnable`: the core's own idle task is always eligible there, so some
    level is ready, which in turn needs the ready mask to be exact. Exactness
    survives inheritance by `MoveConsistent`, which handles any number of
    priorities changed at once.
  - `GuardsOwned`, `WaitersMatch`, `InheritanceIsExact`, from `MutexInv`. A
    waiter list names each of its tasks once, or the hand-over would leave the
    new owner listed; a guard is for a mutex its task owns or is still queued for,
    so a lock that is refused or withdrawn leaves none behind. A boost
    reaches everyone the caller comes to wait for and nobody without a reason
    (each boosted task keeps the caller or another boosted one waiting), and
    `recompute_owner_priority` answers one of the base priority and the priorities
    of the waiters of what is still held.
  - `WalkIsComplete`: the bounded walk reaches exactly the closure. A walk that
    stops early stopped at a missing link; one that does not has taken
    `MAX_MUTEXES` links, each from a table entry to the next, and the table has at
    most `MAX_MUTEXES` entries (`TableFits`, an invariant of its own), so it has met
    one of its owners twice (`LongPathsRepeat`) and goes round in a circle already
    covered.
* **SlotQueue_proofs** (1564): any capacity, any word size above it, any callers.
  - `SlotsExclusive`: typing needs `Budget`, that a call in progress has retries
    left, so the counter never goes below zero.
  - `RingIsFifo`: the ring implements Fifo. `WindowInv` says that the slots
    occupied (ready, in the hands of a producer that won the tail, or of a
    consumer that has not won the head) are exactly those of the positions from
    head to tail, one position each; this is where word sizes that are no
    multiple of the capacity could have gone wrong. From it, a tail
    compare-exchange that succeeds finds the queue not full, a head one finds the
    oldest message in the slot, and every other step leaves the contents alone.
* **Platform_proofs** (6434).
  - `OnceSafe`, for any callers. `Progress` says what the state word is when a
    caller writes, reads or holds.
  - `PoolSafe`, for any pool and word size. `BelowOffset`: every buffer ends at or
    below the aligned offset, the offset is inside the pool.
  - `OkIsDone`, an action property, for any tasks, transfers and queue depth.
    `QueuedHaveFinished`: whatever waits in the completion queue has had its
    interrupt, so an `Ok` taken from it is of a transfer that is over.
  - `TimersAreKept`, for any sleepers, callbacks, table size, word size and
    number of ticks. `TimersInv`: a callback has one entry in the table or one
    caller about to make it one, never both; the entries and the callers in
    between add up to the registrations still owed; and where the counter is read
    whole, what a call has read is not ahead of the counter and no deadline lies
    before the tick asked for. Where it is read in two halves the last part is
    false, which is the early wake-up of section 5.
  - `TransfersAreOver`, for any number of channels, exchanges and claims of the
    other core. `ChannelsInv` is about the lists of accesses: what an owner has
    still to do is on channels of its own; a release comes after an abort of the
    channel and nothing after it; a set-up configures before it publishes and asks
    for data only then; a channel held by an exchange that is given up has its
    release to come. From this a receive channel begins its exchange unreported,
    and while the handler shares the task's core what it takes from that channel
    was reported by this exchange (`Fresh`). With the handler on the other core a
    late acknowledgement can meet the next exchange, and this last part is false.
  - `XipExclusive`, `DeadlineHolds`, for any number of requests and length of a
    job. `XipInv`: one core has the lock; a request is posted exactly while that
    core wants one and carries the latest generation; whoever is answering answers
    that one or an older one; an acknowledgement is of what its core has read. So
    an acknowledgement equal to the request was given for it, by a core that
    parks until it is withdrawn.
  - `SectionsAreExclusive`, either machine, any number of cores, locks and cells
    and nests of any depth, as long as no nest takes one `Spinlock` twice
    (`kernel/src/smp.rs:31` calls that a bug). `LocksInv`: each lock a context is inside has
    a critical section of its own around it; leaving a section unmasks the core
    only at a task's outermost one; on the RP2040 the depth counts the sections of
    both contexts of a core, and is positive exactly on the core with the hardware
    lock.
  - `HeapIsTiled`, for any regions, sizes, alignments, word size and number of
    live blocks, until a sum of a request that is met wraps (`wrapped`); section 5
    has what happens then.
    `HeapInv` is stated on bytes: the cells of the free list and of the live
    blocks are the cells of the regions, no cell in two of them (`Tiled`), the
    list is in address order, with a gap between neighbours, and its counts are
    the sizes of those sets. `InsertFree` (the new block alone, or joined to the
    one before, the one after, or both) and `TakeBlock` (a front piece, a block, a
    tail) say what either does to the cells; `free`, `alloc`, each of the three
    ways through `realloc`, and `init` (`RegionsAdded`) are made of these.
* **Devices_proofs** (5653).
  - `FlashIsSafe`, for any interrupt table, page, register and write sizes.
    `FlashInv` says for every position of the operation what it has taken away
    and has still to give back, and what the chip has been told between write
    enable and the program it is for. The part about commands that are carried out
    is conditional on `blind`, and the proof shows that nothing else needs to be: a
    read, an SFDP read and a write hear the chip because each leaves continuous
    reading first, and the chip does not fall back into it between.
  - `KeysOfBothSides`, `KeysWaitForFour`, for any credentials, associations,
    nonces, resends, and any loss, repetition or reordering of frames. Two facts
    are needed beyond who has derived which key: while message 2 waits in the
    queue nobody else has its key (`TwoNotSeen`), so a message 3 that verifies
    shows that message 2 has left and the queue is empty; hence message 4 is alone
    in it (`FourIsNext`) and the next transmission reported is its own, unless the
    radio refused a message 4 (`fourLost`). `KeysOfBothSides` needs no such
    condition: a key that is installed at the wrong time is still the right key.
  - `CoresStart`, either machine, any number of mailbox exchanges, ROM stumbles
    and tasks made ready. `BootInv`: what a core has still to do is an end of its
    list of steps, and `Done` says what the steps before it have set; core 1 is
    entered only from its ROM after the drain, and only the ROM that enters it
    echoes the entry point, so the wait for core 1 begins with core 1 on its way.
  - `GlueIsRight`, any task table, timers, rings and posters, where one task makes
    tasks (`OneMaker`; section 5 has what two do). `BlobInv`: a live task's slot is
    its own and holds its entry, a slot being prepared is nobody's yet, and while
    `create` has still to record an id, the slot is that task's or no one's.
    `EtsInv`: until the service task sleeps nothing is overdue, and while it sleeps
    nothing was armed for a time before it did. `EvInv`: an event ages only while
    the task sleeps, and no more than the sleep does; the ring holds the events
    accepted and not taken, in order. `RxInv` says the same of the frames between
    the two indices, a push and a pop being half-way.
  - `PicoIsRight`. Claims: any openers on the two cores, any plans whose units and
    pins exist and are named once (`PlansAssumption`). `ClaimInv`: what is set
    is what openers own and what is retired; an opener that is claiming owns the
    first items of its order, one that is releasing owns exactly what it has still
    to release, and nothing owned is retired. PIO: any machines, programs and
    words. `PioMemory`: the words in use are the programs', each with the code of
    its machine. `PioWords`: between exchanges the FIFOs are empty, and in
    one its word or the answer to it is all there is.
* **Tasks_proofs** (956).
  - `StacksAreSafe`, any tasks, cores and heap blocks, either machine. `LifeInv`: a
    heap block is free, a live task's, or on its way from a cleared slot to
    `heap::free`, and in one of these places only.
  - `ListsTell`, any senders, receivers, handlers, slots, table entries and
    timeouts. `WaitInv`: a list names no task twice and only tasks of its side
    inside the blocking call; whoever sleeps is listed; whoever timed out is still
    listed until it has looked. Being off the list on return then means woken.
* **Store_proofs** (2969): `StoreKeepsAcked`, any partition, sector and scratch
  size, any keys, values, users and calibrations, any number of crashes and failed
  flash operations. The lemmas about flash alone say what moves the log: the scan
  ends within `ROUNDS` because an entry has three words at least (`ScanEnds`);
  words beyond its end do not matter while none begins an entry there
  (`LogFramed`); an incomplete image on erased words begins none (`TornIsEnd`,
  which needs that no two checksums are equal); a complete one is one entry more
  (`LogGrows`). The scratch of compaction answers `get` as the log does and is no
  longer (`ScratchIs`), so it fits where the log did. `KvInv` then relates the
  log, the words still to go down and the scratch to what was acknowledged: they
  are equal between writes and while an entry goes onto erased words
  (`KvSettled`, `KvSetting`); while the log is rewritten, what is down again and
  what the scratch still holds make it up (`KvErasing`, `KvRestoring`,
  `KvCopying`). Whether a set met the storage's contract is a variable of the
  model (`trusted`); section 5 has what happens to one that did not.
* **Drivers_proofs** (7980).
  - `TasksAreIsolated`, any pool, sizes, tasks, two or more cores; stacks are at
    least one guard and some (`MIN_STACK > 0`, `kernel/src/spawn.rs:24`). `IsoInv`: what was
    handed out lies below the cursor and apart; an isolated task was given what its
    record names; the active domain of a core is its current task's, and the bank
    and the privilege are that domain's although the bank is written only when
    the domain changes.
  - `ObjectsAreRight`, any tasks, objects, capacities and list lengths, where
    `send_from_isr` runs on the tasks' core (the hypothesis `~ISR_REMOTE`; without
    it `LenCountsItems` fails, see section 5). `DynInv`: a list names its
    sleepers, each once, and nobody else, since the kernel's own timeout never
    strikes here; while somebody sleeps for what an object has n of, at least n
    callers are on their way to it (`Enough`); a sleeper whose bits are set is no
    further back in its list than wakes are owed to the group (`EventsReach`). A
    producer adds one unit and wakes one sleeper; a consumer takes one unit and is
    one caller less; one that enrols found none. For event groups the wakes of one
    `set` reach the whole list because `MAX_WAKE >= MAX_WAITERS`: both are 16
    (`dynobj.rs:610`, `kernel/src/queue.rs:16`), which the proof needs.
  - `BusIsRight`, from `SpiIsMoved` and `I2cIsRight`. SPI: any hosts, channels,
    descriptors and lengths. `SpiInv`: what has been moved and what the lists of
    the job and the engine still hold make up the buffer, and an engine that has
    raised a flag has nothing left of that direction. `ResInv` is about the residue:
    a call that has not met any (`mixed`) has lost nothing, waits on no transaction
    but its own, and starts no DMA with a FIFO count left (`Clean`). I2C: any controllers, transfers and op
    lists that `transact` admits (`I2cAssumption`). `I2cInv` has a part for each
    driver: on the ESP32 the list still to run is as long as the part of the op
    that is not done (`EspOk`); on the RP2040 the commands done, those in the
    FIFO and those not pushed yet make up the exchange, and a byte is read before
    the next is asked for (`PicoOk`, with `BytesOk`, `PushedOk`); what a slave has
    been given is in order and of the transaction in progress or an earlier one
    (`GivenOk`).
* **Radio_proofs** (6100): `RadioIsRight`, from three results about parts that
  share nothing.
  - `RadioObjectsAreRight`, any library tasks, ids, blocks and entries. `OsiInv`:
    an address in use is one thing (the library's memory, a box, a boxed queue's
    storage, or what one entry holds at that step), a box is referred to by one
    entry, one wrapper or one slot, and an address has an open record exactly while
    the library holds it or is giving it back.
  - `PhyIsRight`, with one task at a time in `enable` and `disable`
    (`PHY_CONCURRENT = FALSE`) and none moved between the read of its core and the
    mask (`PHY_RACE = FALSE`); section 5 has both. `PhyStateInv`: the counts
    are the references held, and what the call in progress has taken or has still
    to give back (`Phase`, by its next step). `CsInv` says this of the nesting depth
    and the saved mask of each core.
  - `StatusIsLink`, for an application that connects only when it knows that it is
    disconnected (`STA_POLITE`). `LinkFits` lists the ways in which the link, the
    reports still on the ring and the state shown can fit together.

The library's induction theorems cannot be used here (their parameter is an
operator). Where an argument is by induction it is done with a least element:
`SetInduction` (a set of naturals that has 0 and every successor has them all), a
lemma about a set, to which each use gives a set of its own.

Five models changed for the proofs. An entry of the radio's table
ended without giving up its handle (RadioObjects; the entry now ends like the
call). A PIO open that was refused gave its claims back in another order than the
drop of the driver does (PicoClaims). The bytes pushed to the RP2040's I2C
FIFO were counted from two variables (I2c; same states). The heap's regions were
laid out in one step, which would have hidden that a later region is merged with
an earlier one (Heap). The log's scan, and the scratch that compaction builds
entry by entry, were folds over sequences; they are recursive functions now, with
the same states (KvStore).

Only model-checked:

* liveness under fairness (`RoundRobin`, `Preemption`, `FiniteCallsReturn`) and
  anything with ENABLED, which the provers do not handle;
* `UsbInStep`: the control transfer, both rings and the host's toggles are one
  state machine of several hundred cases;
* `TypePlatform`, `TypeDevices`, `TypeDrivers`, which restate the types of the
  parts; those that the other theorems need are proved with them.

## 5. Disagreements between code and text

Three have a run.

* `api_queue_strand`: `api/src/queue.rs:186-189` describes as fixed that a task
  blocked in `recv` stays blocked "forever with its data sitting in the queue".
  `recv` tries and then enrols without testing again (`queue.rs:301`,
  `kernel/src/queue.rs:322-350`); a message published, with its wake, in between
  finds nobody listed. The same holds for senders. `test_or_enrol` closes this
  window for the runtime objects.
* `dyn_timeout`: `dynobj.rs:320` says `take` blocks "up to `timeout_ms`".
  `take` passes `u32::MAX` to `consume_or_block` (`dynobj.rs:333`) and reads its
  own deadline only after a wake. The other blocking calls of the file do so too.
* `store_torn`: a test says "A torn write must not strand the space after it
  either — the next boot has to be able to keep writing"
  (`lib/kvstore/src/lib.rs:656-657`) and tears the write inside the header only.
  A write torn later leaves programmed bits behind a tail that the next boot
  puts in front of them; `set` programs there without looking (`:280`), returns
  Ok, and the entry and all after it are unreadable.

The others were found with the same modules; change the cfg as stated and TLC
shows the behaviour.

| What | Change |
|---|---|
| `dynobj.rs:340`: a taker woken after its deadline returns without the permit and without passing the wake on, where `kernel/src/queue.rs:532-534` says "There is no third case" | `Timed = {sem}` in MCDrivers.cfg, and `NoLostPermit` over all semaphores |
| `dynobj.rs:258`: `send_from_isr` updates the length without a lock; an update from the other core is lost, where `dynobj.rs:60` says every field "is behind the scheduler's critical section" | `ISR_REMOTE = TRUE`: `LenCountsItems` |
| `switch.rs:186`: on Xtensa `current_per_core` names the next task before the core leaves the old stack, so the other core may free it (`dynobj.rs:1505-1510` says it "skips it for now") or resume the old task on it (`switch.rs:182-184`) | drop `~XTENSA =>` from `StackNotFreed`, `OneCorePerStack` |
| `dynobj.rs:1181`: `forget_task` runs after the slot was cleared, so a reused id is woken through an old entry, or delisted while it sleeps | `Objects = {q1, q2}` in MCTaskLife.cfg: `NoForeignWake`, `SleepersAreListed` |
| `api/src/sync.rs:190-192`: "no two contexts ever hold a reference at the same time"; an Xtensa critical section masks one core | drop `XTENSA => CoreOf(x) = CoreOf(y)` from `CellExclusive` |
| `dma_broker.rs:188`: with two transfers in flight a waiter discards the other's completion, where lines 176-179 say a discarded id's waiter "has already given up" | `DEPTH = 4` in MCPlatform.cfg: `DiscardsOnlyStale` |
| `api/src/queue.rs:118-121`: the lost tail compare-exchange is called "Provably unreachable"; with two producers it is reached, and handled correctly | MCSlotQueue.cfg: `TailCasNeverLost` |
| `armv6m.rs:113-120`: core 1 of the RP2040 never runs `on_tick`, so compute-bound peers pinned to it do not rotate (`scheduler.rs:6`), and a boost of a task pinned there is not noticed (`scheduler.rs:377`) | two cores, `XTENSA = FALSE`, two peers pinned to core 1: `RoundRobin`; the same with a mutex: `Preemption` |
| `scheduler.rs:467`: one rotor per level serves both cores, and a pinned peer can be passed over for good | two Xtensa cores, one level, one task pinned to core 1 and two to core 0: `RoundRobin` |
| `flash/src/lib.rs:480-483` (ESP32): freezing core 1, "even holding the scheduler lock — cannot deadlock core 0, which asks for nothing in this window"; the alarm's handler stays enabled (`kernel/src/alarm.rs:98`) and wakes a waiter under that lock (`:145-147`) | MCDevices.cfg: `WindowAsksNoLock` |
| `arch/xtensa/src/tick.rs:41-43`: `now()` reads under a critical section "to avoid torn reads"; the section masks core 1, and core 0 writes the two words | MCPlatform.cfg: `NotEarly` |
| `usb-device/src/lib.rs`, `usb/src/hardware.rs:262-269`: a SETUP is reported before the completions latched ahead of it, and `reset_control` drops an acknowledged status stage with the endpoint reset it was to apply; the toggles of host and device part, and a bulk packet is dropped as a repetition or sent twice | drop `~host.ahead =>` from `StreamsKept`: MCDevices.cfg, `UsbInStep` |
| `lib/heap/src/lib.rs:194`: "the usable span is at least the request"; the sums of `align_up` (`:73-75`) and of the fit (`:139`) wrap in `usize`, so a request just below its top rounds to nothing, or ends before the block does, and is met by a small block; `osi_malloc` and its like (`adapter.rs:408-444`) pass every size on | MCPlatform.cfg: `AskedIsUsable` |
| `spi1.rs:1033` (ESP32 flash): `erase_sector` erases the sector; `read`, `sfdp_read` and `write` leave continuous reading first (`:884`, `:960`, `:995`), `erase_sector` (`:1039-1060`) does not, and a chip in that mode "treats the first bits of every transaction as an address" (`:573-575`): the erase returns Ok and erases nothing, and `unlock`, reading anything for a status, may record a protected chip as unlocked, so that a later write is not carried out | MCDevices.cfg: `CommandsCarriedOut` |
| `supplicant.rs:292-294`: "only after message 4 is there anything to do, and that is exactly when `pending` is set"; the result of `esp_wifi_internal_tx` is ignored (`:275-277`), so after a message 4 that was refused the keys stay pending, and the message 2 of the next round, when it is reported, installs them | MCDevices.cfg: `PendingMeansFour` |
| `spi-bus/src/lib.rs:9`: "No length is ever silently cut short"; `fifo_exchange` gives up with `SPI_USR` set (`esp32/spi/src/lib.rs:397-407`) and the next call returns Ok when the old transaction ends; and `exchange` sends what DMA cannot reach through the FIFO, after which the DMA receive of the next call "lands short by the FIFO transfer's byte count" (`:578-583`; `selftest_spi.rs:98-100` keeps away from that order) | MCDrivers.cfg: `NeverCutShort` |
| `ets_timer.rs:230-238`: every arm pulls the alarm in to now; a kick between the read of the next deadline (`:200`) and the wait (`:208`) is lost and the timer waits for the time-out | MCDevices.cfg: `OnTime` |
| `soc/rp2040/src/dma.rs:489`: a top half on another core than the task, delayed between `INTS0` and the token, takes the token of the next exchange, which returns Ok with nothing received | drop `handlerOn = "task"` from `TransferOver` |
| `uart/src/dma.rs:120-121` (RP2040): `configure` writes `CTRL_TRIG` with the enable bit and so triggers the channel already; a task preempted between the `DMACR` write and `start_mask` for the length of the transfer triggers it again, behind the buffer, until `stop` | MCPlatform.cfg: `WithinBuffer` |
| `esp32/spi/src/dma.rs`: after `exchange_async`, `await_done` should block until the transfer is done; its top half completes the call on the first of three flags, which may be the transmit side's, and a later flag completes the next call early; after a time-out the next chain is built over the one the engine is in | MCDrivers.cfg: `AsyncMoved`, `ChainAlone` |
| `rp2040/i2c/src/lib.rs:298-305`: the abort is looked at, then `STOP_DET`; an abort of the last byte with its STOP in between is reported as Ok | `WritesAcked` |
| `rp2040/i2c/src/lib.rs:313`: `serve_once` serves one transaction; bytes of the next one that arrive between the read of the flags and the drain are added to it | `ServedOne` |
| `soc/rp2040/src/ctrl.rs:77`: "claim callers can spin on this shared lock from an interrupt" (77-78); `with_claims` does not mask, so a handler that claims over a holder on its own core spins for good | `NoSelfSpin` |
| `rp2040/uart/src/lib.rs:62-72`: a UART routes its pads without claiming them | `UartPads` |
| `rp2040/gpio/src/lib.rs:108-129`: edge enables of eight pins share a register that is read and written back without a lock; an enable is lost | `EdgesKept` |
| `adapter.rs:495-503`: an object that fell off the table "is reported as unknown rather than silently mislabelled"; an address used again is described as the object that was there | `DescribesHandle` |
| `adapter.rs:540-550`: a queue whose box cannot be allocated leaves its storage behind | `NothingLeaks` |
| `phy.rs:116-120`: "two cores enabling at once must produce exactly one `register_chipv7_phy`"; the flag is read under the lock before the registration and set under it after, and the second may use the PHY before the first has registered it | `PHY_CONCURRENT = TRUE`: `RegisteredOnce`, `RadioRight` |
| `phy.rs:420-430`: every clock enable "must be paired"; `disable` of one of several users keeps the clock reference its `enable` took | `ClocksBalanced` |
| `adapter.rs:1659-1660`: `phy_enter_critical` reads the core number before it masks; a task moved in between uses the other core's depth | `PHY_RACE = TRUE`: `RadioRight` |
| `station.rs:424-427`: an application that connects again before it was told of an outcome is left with the state of the earlier attempt | `STA_POLITE = FALSE`: `RadioRight` |
| `station.rs:289-290`: the state is stored before the channel, so a first `status` may be connected without one | `StatusWhole` |
| `boot_rp2040.rs`, `startup.S`: the launch is `cpsie i; svc 0`; where the processor takes a pending exception before the instruction after `cpsie`, a `PendSV` left by `flint_app_main` comes first, on a process stack nobody has set | `CPS_TAKES_PENDING = TRUE`: `LaunchedBySvc` |

Read in the same code, and not shown by a model:

* The RP2040 UART's `await_done` waits for the receive side and cuts off a
  transmission that is behind it.
* `i2c-bus/src/lib.rs:70-75`: `scan` probes with an empty write, which the RP2040's
  `transact` refuses (`rp2040/i2c/src/lib.rs:259-265`), so it finds nothing there.
  The bus admits 64 bytes; the ESP32's command list holds 13.
* `tasks.rs:302-304`: create and trampoline "both write the same value"; with two
  creators a late record (`:432-436`) can name a dead task in a slot claimed
  again. `BlobTasksOwn` is checked with one creator.
* `timer.rs:28-30`: a deadline of 0 means none, so `sleep_ms(0)` at tick 0 sleeps
  for ever; `every(0)` fires once.
* `usb/src/hardware.rs:262-286`: a suspend latched before a bus reset is applied
  after it.
* `supplicant.rs:292-300`: the pending key and the peer's address are read in two
  lock sections, and the library must report transmissions in order. A station that is done ignores a
  repeated message 3, so a lost message 4 is not answered again.
* `nvs_close` frees a handle that other users still hold; a failed erase of the
  whole store leaves `tail` where it was; `save_or_reset` erases the keys of
  every other user of the partition.

## 6. Not modelled, and why

* Boot before the first core has its vectors: clearing memory, clocks and
  reporting are straight-line.
* Register programming, HAL traits, chip support, board files, device drivers:
  sequences of accesses to hardware the repository does not contain. These, the
  tools and the applications are most of the repository's lines. Of the 71 739
  lines counted as implementation about 33 000 are code outside comments and
  tests; the map's 11 200 (15.6 %) are the parts in which several actors, failures
  or long sequences meet. The rest would add lines and no question to ask.
* Cryptography: pure functions on 32-bit words, checked by test vectors.
* The rest of the radio adapter: each entry forwards to a kernel object that is
  modelled here, or to a library the repository does not contain.
* System calls forward to operations modelled here. Logging, formatting, build
  tools, examples and self tests carry no state of the kernel.
* Creation and deletion of runtime objects: the C-style handle tables.

Abstractions inside the modules:

* Scheduler: sleep deadlines are "expired at some tick" (Timers has the ticks).
  `compare_exchange_weak` does not fail spuriously. Memory is sequentially
  consistent, which the acquire/release orderings and the interrupt-masked
  sections of the modelled code are written to provide.
* TaskLife ignores priorities (a switch may choose any runnable task) and has
  only waits without a timeout.
* KvStore: checksums do not collide. Nvs opens and closes handles only between
  jobs, because a job under way does not look at the table again.
* EtsTimer and RadioInput: time passes only when nobody has a step to take.
* Wpa: the radio reports a transmission before any answer to it is received; a
  frame it refuses is not reported.
* RadioTasks: a task is deleted by handle only while it is in the library, by
  the one creator.
* UsbSerial: descriptors, statistics, endpoint 0x81, the erratum-5 work-round and
  the abort time-out are left out; the two streams run one to a behaviour. Between
  a SETUP and the poll that sees it endpoint 0 answers NAK, and the host lets the
  device finish a bus reset.
* EspSpi: a host has one caller, because the bus holds its mutex for a transfer.
  I2c likewise; a byte is its call, direction and place.
* PicoClaims: a handler runs to its end before the task below it goes on; each
  opener opens once, of a plan chosen at the start.
* RadioObjects: the library frees what it was given, once. RadioPhy: a user
  enables before it disables. Station: the library reports by events only.
* Isolation: memory is counted in units of 128 bytes, so `exception_frame`, which
  asks for 64 aligned bytes around the stack pointer (`hal/src/isolation.rs:151-156`),
  asks here that the pointer's unit is usable: the edges of a stack, where less than a
  frame is left, are not told apart. The memory protection unit is what its
  registers say.
* DmaChannels: a transfer is one word; a channel that met a bus error stays
  halted; the broker's queue is a set (DmaBroker has the queue).

## 7. Plan

Models next: TaskLife with Mutex (deletion of a task that owns or waits for a
mutex); the handle tables of the runtime objects; the ESP32's RMT and I2S
drivers where a refill handler races the engine; sleep and its wake sources; the
interrupt matrix.

Theorems next: `UsbInStep`, the two streams first.
