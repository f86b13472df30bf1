-------------------------------- MODULE Boot --------------------------------
(***************************************************************************)
(* Starting both cores (kernel/src/boot.rs and boot_rp2040.rs,             *)
(* soc/rp2040/src/multicore.rs, soc/esp32/src/appcpu.rs, kernel/src/smp.rs *)
(* and xtensa.rs): what each core does in which order, the mailbox         *)
(* handshake with the boot ROM of the RP2040's core 1, and reschedule      *)
(* requests to a core that is on its way in.                               *)
(*                                                                         *)
(* A core is a list of steps; it can be interrupted where its interrupts   *)
(* are unmasked.  The boot ROM and how long it takes are external.         *)
(***************************************************************************)
EXTENDS Naturals, Sequences

CONSTANTS
  BootMachines,       \* of "rp2040", "esp32"
  MAX_EXCHANGES,      \* MAX_LAUNCH_EXCHANGES
  MAX_STUMBLES,       \* bound: exchanges in which the ROM may lose its place
  CPS_TAKES_PENDING,  \* an exception that is pending at cpsie is taken before the next instruction
  MAX_READY           \* bound: tasks made ready

ASSUME BootAssumption ==
  BootMachines \subseteq {"rp2040", "esp32"} /\ {MAX_EXCHANGES, MAX_STUMBLES, MAX_READY} \subseteq Nat /\ CPS_TAKES_PENDING \in BOOLEAN

VARIABLES
  machine,
  todo,         \* per core: the steps before it
  bootHeld,         \* RP2040: the boot-wide critical section is held by core 0
  idle,         \* per core: its idle task, "none", "ready" or "running"
  cur,          \* per core: current_per_core is set
  joined,       \* JOINED_CORES
  traps,        \* per core: what its traps need: "vector", "tick", "switch", "remote"
  unmasked,     \* per core
  pending,      \* PENDING_SWITCH
  raised,       \* per core: the remote signal is up (a word in its mailbox)
  mail,         \* RP2040: words from core 1 to core 0, and back, during the launch
  rom,          \* core 1 until it is entered, and the commands its ROM has taken
  proto,        \* LaunchProtocol::next, and the exchanges made
  readied,      \* tasks made ready
  stopped       \* an assertion or a panic: which

bootVars == <<machine, todo, bootHeld, idle, cur, joined, traps, unmasked, pending, raised,
              mail, rom, proto, readied, stopped>>

Commands == <<"0", "0", "1", "table", "stack", "entry">>
Junk == "junk"

(* Mutant: the boot-wide section is released after the launch.             *)
PicoStepsLate == <<"lock", "idle", "idle1", "reset", "drain", "hello", "exchange", "remote",
                   "await", "unlock", "app", "launch">>

(* _flint_armv6m_boot and the reset handler behind it; core 1's entry.     *)
PicoSteps == <<"lock", "idle", "idle1", "unlock", "reset", "drain", "hello", "exchange",
               "remote", "await", "app", "launch">>
PicoCoreOne == <<"vector", "running", "current", "join", "remote", "launch">>
(* FlintMain; join_scheduler.                                              *)
EspSteps == <<"tick", "switch", "remote", "idle", "app", "unmask">>
EspCoreOne == <<"vector", "idle", "current", "join", "tick", "switch", "park", "remote", "unmask">>

TypeBoot ==
  /\ machine \in BootMachines /\ bootHeld \in BOOLEAN
  /\ idle \in [0 .. 1 -> {"none", "ready", "running"}] /\ cur \in [0 .. 1 -> BOOLEAN]
  /\ joined \subseteq {0, 1} /\ unmasked \in [0 .. 1 -> BOOLEAN]
  /\ \A c \in 0 .. 1 : traps[c] \subseteq {"vector", "tick", "switch", "remote", "park"}
  /\ pending \in [0 .. 1 -> BOOLEAN] /\ raised \in [0 .. 1 -> BOOLEAN]
  /\ proto.next \in 0 .. 6 /\ proto.exchanges \in 0 .. MAX_EXCHANGES

(* A warm reset leaves words for core 0 behind.                            *)
BootInit ==
  /\ machine \in BootMachines
  /\ todo = [c \in 0 .. 1 |-> IF c = 1 THEN <<>> ELSE IF machine = "esp32" THEN EspSteps ELSE PicoSteps]
  /\ bootHeld = FALSE /\ idle = [c \in 0 .. 1 |-> "none"] /\ cur = [c \in 0 .. 1 |-> FALSE]
  /\ joined = {0}
  /\ traps = [c \in 0 .. 1 |-> IF c = 1 THEN {} ELSE IF machine = "esp32" THEN {"vector"} ELSE {"vector", "switch"}]
  /\ unmasked = [c \in 0 .. 1 |-> FALSE]
  /\ pending = [c \in 0 .. 1 |-> FALSE] /\ raised = [c \in 0 .. 1 |-> FALSE]
  /\ mail \in {[in |-> w, out |-> <<>>] : w \in {<<>>, <<"0">>, <<Junk, "0">>}}
  /\ (machine = "esp32" => mail.in = <<>>)
  /\ rom = [at |-> "running", taken |-> 0] /\ proto = [next |-> 0, exchanges |-> 0, sent |-> FALSE]
  /\ readied = 0 /\ stopped = "no"

Before(c, s) == stopped = "no" /\ todo[c] # <<>> /\ Head(todo[c]) = s
Goes(c) == todo' = [todo EXCEPT ![c] = Tail(@)]
Stops(why) == stopped' = why
(* The scheduler's lock; on the RP2040 it is the boot section's.           *)
LockFree(c) == ~bootHeld \/ c = 0

----------------------------------------------------------------------------
(* Steps that set one thing.  On the RP2040 a switch needs no setting up,  *)
(* and the tick starts with the launch.                                    *)
Section(on) ==
  /\ Before(0, IF on THEN "lock" ELSE "unlock") /\ bootHeld' = on /\ Goes(0)
  /\ UNCHANGED <<machine, idle, cur, joined, traps, unmasked, pending, raised, mail, rom, proto, readied, stopped>>

(* "remote" is refused when the signal cannot be routed or registered      *)
(* (ESP32): requests then wait for the tick; so is "park".                 *)
SetsUp(c, s) ==
  /\ Before(c, s) /\ s \in {"vector", "tick", "switch", "remote", "park"} /\ Goes(c)
  /\ \/ traps' = [traps EXCEPT ![c] = @ \cup (IF s = "vector" /\ machine = "rp2040" THEN {"vector", "switch"}
                                              ELSE {s})]
     \/ /\ machine = "esp32" /\ (s = "park" \/ (s = "remote" /\ (c = 1 => "remote" \notin traps[0])))
        /\ UNCHANGED traps
  /\ UNCHANGED <<machine, bootHeld, idle, cur, joined, unmasked, pending, raised, mail, rom, proto, readied, stopped>>

(* The idle tasks.  On the ESP32 each core makes its own, running; on the  *)
(* RP2040 core 0 makes both, ready.                                        *)
InstallIdle(c, s) ==
  LET who == IF s = "idle1" THEN 1 ELSE c
  IN  /\ Before(c, s) /\ s \in {"idle", "idle1"} /\ LockFree(c) /\ Goes(c)
      /\ idle' = [idle EXCEPT ![who] = IF machine = "esp32" THEN "running" ELSE "ready"]
      /\ cur' = IF machine = "esp32" /\ c = 0 THEN [cur EXCEPT ![0] = TRUE] ELSE cur
      /\ UNCHANGED <<machine, bootHeld, joined, traps, unmasked, pending, raised, mail, rom, proto, readied, stopped>>

(* core1_boot: CORE1_IDLE must have been stored; its task is running.      *)
IdleRuns ==
  /\ Before(1, "running") /\ LockFree(1) /\ Goes(1)
  /\ IF idle[1] = "none" THEN Stops("idle") /\ UNCHANGED idle
     ELSE idle' = [idle EXCEPT ![1] = "running"] /\ UNCHANGED stopped
  /\ UNCHANGED <<machine, bootHeld, cur, joined, traps, unmasked, pending, raised, mail, rom, proto, readied>>

(* join_current_core: current under the lock ...                           *)
SetCurrent ==
  /\ Before(1, "current") /\ LockFree(1) /\ Goes(1)
  /\ IF idle[1] # "running" THEN Stops("idle") /\ UNCHANGED cur
     ELSE cur' = [cur EXCEPT ![1] = TRUE] /\ UNCHANGED stopped
  /\ UNCHANGED <<machine, bootHeld, idle, joined, traps, unmasked, pending, raised, mail, rom, proto, readied>>
(* ... then mark_joined.                                                   *)
MarkJoined ==
  /\ Before(1, "join") /\ Goes(1) /\ joined' = joined \cup {1}
  /\ UNCHANGED <<machine, bootHeld, idle, cur, traps, unmasked, pending, raised, mail, rom, proto, readied, stopped>>

----------------------------------------------------------------------------
(* launch_core1: reset, drain while core 1 cannot write, let it go.  Any   *)
(* wait may run out of polls: the launch fails, and boot panics.           *)
ResetCoreOne ==
  /\ Before(0, "reset")
  /\ \/ /\ rom' = [at |-> "reset", taken |-> 0] /\ mail' = [mail EXCEPT !.out = <<>>]
        /\ Goes(0) /\ UNCHANGED stopped
     \/ Stops("launch") /\ UNCHANGED <<rom, mail, todo>>
  /\ UNCHANGED <<machine, bootHeld, idle, cur, joined, traps, unmasked, pending, raised, proto, readied>>
DrainAndRelease ==
  /\ Before(0, "drain") /\ mail' = [mail EXCEPT !.in = <<>>] /\ rom' = [rom EXCEPT !.at = "hello"] /\ Goes(0)
  /\ UNCHANGED <<machine, bootHeld, idle, cur, joined, traps, unmasked, pending, raised, proto, readied, stopped>>

(* The acknowledgement of the reset.                                       *)
Hello ==
  /\ Before(0, "hello")
  /\ \/ /\ mail.in # <<>> /\ mail' = [mail EXCEPT !.in = Tail(@)]
        /\ IF Head(mail.in) = "0" THEN Goes(0) /\ UNCHANGED stopped ELSE Stops("launch") /\ UNCHANGED todo
     \/ mail.in = <<>> /\ Stops("launch") /\ UNCHANGED <<mail, todo>>
  /\ UNCHANGED <<machine, bootHeld, idle, cur, joined, traps, unmasked, pending, raised, rom, proto, readied>>

(* accept_echo. *)
AcceptEcho(echo) == IF echo = Commands[proto.next + 1] THEN proto.next + 1 ELSE 0

(* One exchange: a command 0 drains first; the command goes out ...        *)
SendCommand ==
  LET cmd == Commands[proto.next + 1]
  IN  /\ Before(0, "exchange") /\ mail.out = <<>> /\ proto.exchanges < MAX_EXCHANGES /\ ~proto.sent
      /\ mail' = [in |-> IF cmd = "0" THEN <<>> ELSE mail.in, out |-> <<cmd>>]
      /\ proto' = [proto EXCEPT !.sent = TRUE, !.exchanges = @ + 1]
      /\ UNCHANGED <<machine, todo, bootHeld, idle, cur, joined, traps, unmasked, pending, raised, rom, readied, stopped>>
(* ... and its echo comes back, or does not.                               *)
TakeEcho ==
  /\ Before(0, "exchange") /\ proto.sent
  /\ \/ /\ mail.in # <<>>
        /\ mail' = [mail EXCEPT !.in = Tail(@)]
        /\ proto' = [proto EXCEPT !.next = AcceptEcho(Head(mail.in)), !.sent = FALSE]
        /\ IF proto'.next = 6 THEN Goes(0) /\ UNCHANGED stopped
           ELSE IF proto.exchanges = MAX_EXCHANGES THEN Stops("launch") /\ UNCHANGED todo
           ELSE UNCHANGED <<todo, stopped>>
     \/ mail.in = <<>> /\ Stops("launch") /\ UNCHANGED <<mail, proto, todo>>
  /\ UNCHANGED <<machine, bootHeld, idle, cur, joined, traps, unmasked, pending, raised, rom, readied>>

(* The boot ROM on core 1: an acknowledgement of the reset, then each      *)
(* command in order; what does not fit, or a stumble of its own, is        *)
(* answered by another word and starts over.                               *)
RomSays ==
  /\ stopped = "no"
  /\ \/ rom.at = "hello" /\ rom' = [rom EXCEPT !.at = "listens"] /\ mail' = [mail EXCEPT !.in = Append(@, "0")] /\ UNCHANGED todo
     \/ /\ rom.at = "listens" /\ mail.out # <<>>
        /\ \/ /\ Head(mail.out) = Commands[rom.taken + 1]
              /\ mail' = [in |-> Append(mail.in, Head(mail.out)), out |-> <<>>]
              /\ rom' = [at |-> IF rom.taken = 5 THEN "entered" ELSE "listens", taken |-> rom.taken + 1]
              /\ todo' = IF rom.taken = 5 THEN [todo EXCEPT ![1] = PicoCoreOne] ELSE todo
           \/ /\ Head(mail.out) # Commands[rom.taken + 1] \/ proto.exchanges <= MAX_STUMBLES
              /\ mail' = [in |-> Append(mail.in, Junk), out |-> <<>>] /\ rom' = [rom EXCEPT !.taken = 0]
              /\ UNCHANGED todo
  /\ UNCHANGED <<machine, bootHeld, idle, cur, joined, traps, unmasked, pending, raised, proto, readied, stopped>>

(* launch_core1 of the kernel: wait for the join, with an end.             *)
AwaitJoin ==
  /\ Before(0, "await")
  /\ IF 1 \in joined THEN Goes(0) /\ UNCHANGED stopped
     ELSE Stops("join") /\ UNCHANGED todo
  /\ UNCHANGED <<machine, bootHeld, idle, cur, joined, traps, unmasked, pending, raised, mail, rom, proto, readied>>

----------------------------------------------------------------------------
(* flint_app_main, and later the tasks: a task is made ready, and every    *)
(* joined core is asked to look (dispatch_ready_reschedules, with the      *)
(* joined mask read once).                                                 *)
MakeReady(c) ==
  /\ stopped = "no" /\ readied < MAX_READY /\ LockFree(c)
  /\ Before(c, "app") \/ (unmasked[c] /\ todo[c] = <<>>)
  /\ readied' = readied + 1
  /\ pending' = [d \in 0 .. 1 |-> pending[d] \/ d \in joined]
  /\ raised' = [d \in 0 .. 1 |-> raised[d] \/ (d \in joined /\ d # c /\ (machine = "esp32" => "remote" \in traps[0]))]
  /\ UNCHANGED <<machine, todo, bootHeld, idle, cur, joined, traps, unmasked, mail, rom, proto, stopped>>

(* The application of an ESP32 lets core 1 go (appcpu::start): it enters   *)
(* join_scheduler on its own.                                              *)
AppCpuStart ==
  /\ stopped = "no" /\ machine = "esp32" /\ rom.at = "running"
  /\ Before(0, "app") \/ (unmasked[0] /\ todo[0] = <<>>)
  /\ rom' = [rom EXCEPT !.at = "entered"] /\ todo' = [todo EXCEPT ![1] = EspCoreOne]
  /\ UNCHANGED <<machine, bootHeld, idle, cur, joined, traps, unmasked, pending, raised, mail, proto, readied, stopped>>

AppReturns ==
  /\ Before(0, "app") /\ Goes(0)
  /\ UNCHANGED <<machine, bootHeld, idle, cur, joined, traps, unmasked, pending, raised, mail, rom, proto, readied, stopped>>

(* set_intlevel_0; or svc 0 and first_stack, which launches the current    *)
(* task or the scheduler's choice.  A PendSV before the svc would save     *)
(* registers below a process stack pointer that nobody has set.            *)
Unmask(c) ==
  /\ Before(c, "unmask") \/ (Before(c, "launch") /\ LockFree(c))
  /\ unmasked' = [unmasked EXCEPT ![c] = TRUE]
  /\ cur' = IF machine = "rp2040" THEN [cur EXCEPT ![c] = TRUE] ELSE cur
  /\ traps' = IF machine = "rp2040" THEN [traps EXCEPT ![c] = @ \cup {"tick"}] ELSE traps
  /\ Goes(c)
  /\ stopped' = IF Before(c, "launch") /\ pending[c] /\ CPS_TAKES_PENDING THEN "psp" ELSE stopped
  /\ UNCHANGED <<machine, bootHeld, idle, joined, pending, raised, mail, rom, proto, readied>>

(* A trap on a core that takes them: the remote signal, or the tick, which *)
(* finds the pending flag as well.                                         *)
BootTrap(c) ==
  /\ stopped = "no" /\ unmasked[c] /\ pending[c]
  /\ \/ raised[c] /\ "remote" \in traps[c]
     \/ "tick" \in traps[c]
  /\ pending' = [pending EXCEPT ![c] = FALSE]
  /\ raised' = [raised EXCEPT ![c] = FALSE]
  /\ UNCHANGED <<machine, todo, bootHeld, idle, cur, joined, traps, unmasked, mail, rom, proto, readied, stopped>>

BootNext ==
  \/ \E on \in BOOLEAN : Section(on)
  \/ \E c \in 0 .. 1 :
       \/ \E s \in {"vector", "tick", "switch", "remote", "park"} : SetsUp(c, s)
       \/ \E s \in {"idle", "idle1"} : InstallIdle(c, s)
       \/ MakeReady(c) \/ Unmask(c) \/ BootTrap(c)
  \/ IdleRuns \/ SetCurrent \/ MarkJoined
  \/ ResetCoreOne \/ DrainAndRelease \/ Hello \/ SendCommand \/ TakeEcho \/ RomSays \/ AwaitJoin
  \/ AppCpuStart \/ AppReturns

BootSpec == BootInit /\ [][BootNext]_bootVars

----------------------------------------------------------------------------
(* "Until the task is both Running and installed as this core's current,   *)
(* affinity requests must continue to reject the core"; "Each step makes   *)
(* the next one survivable"; "or the two cores deadlock here".             *)
BootRight ==
  /\ 1 \in joined => idle[1] = "running" /\ cur[1]
  /\ \A c \in 0 .. 1 : unmasked[c] => {"vector", "tick", "switch"} \subseteq traps[c] /\ cur[c]
  /\ \A c \in 0 .. 1 : pending[c] => c \in joined
  /\ stopped # "idle"
  /\ proto.next = 6 => rom.at = "entered"
  /\ Before(0, "await") /\ 1 \notin joined => todo[1] # <<>> /\ LockFree(1)

(* Reset: "cpsie i; svc 0".  The launch is the first exception taken.  Not *)
(* so where a pending exception precedes the instruction after cpsie,      *)
(* which ARMv6-M leaves to the implementation: a task spawned in           *)
(* flint_app_main has already made PendSV pending.                         *)
LaunchedBySvc == stopped # "psp"
=============================================================================
