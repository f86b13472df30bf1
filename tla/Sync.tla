-------------------------------- MODULE Sync --------------------------------
(***************************************************************************)
(* What code shares data through below the scheduler: critical sections,   *)
(* kernel/src/smp.rs's Spinlock and api::sync's CsCell, on both machines,  *)
(* and, from OnceInit on, api::sync's Once.                                *)
(*                                                                         *)
(* On each core a task runs, and an interrupt handler may preempt it while *)
(* interrupts are unmasked.  Either enters a nest of critical sections:    *)
(* its path is the sequence of locks it takes, outermost first.  A Cell on *)
(* the path is an api::sync::CsCell, whose with is a critical section and  *)
(* nothing more.                                                           *)
(*                                                                         *)
(* Xtensa: cs_enter is rsil, which masks the calling core only, and the    *)
(* lock is a compare-exchange loop.  RP2040: cs_enter also takes hardware  *)
(* spinlock 14 at the outermost level, and the lock byte is then stored    *)
(* without a loop.                                                         *)
(***************************************************************************)
EXTENDS Naturals, Sequences

CONSTANTS
  Cores, NoCore,
  Spinlocks, Cells,  \* what a critical section guards
  Paths,             \* nests of them that the kernel's code takes
  Machines           \* the machines considered: "xtensa", "rp2040"

Locks == Spinlocks \cup Cells

ASSUME SpinlockAssumption ==
  /\ NoCore \notin Cores
  /\ Spinlocks \cap Cells = {}
  /\ Paths \subseteq Seq(Locks) \ {<<>>}
  /\ Machines \subseteq {"xtensa", "rp2040"}
  \* smp.rs: "Reentrancy is a bug rather than a feature"
  /\ \A p \in Paths : \A i, j \in DOMAIN p : p[i] \in Spinlocks /\ p[i] = p[j] => i = j

VARIABLES
  machine,  \* the machine this system runs on, fixed at the start
  lockHolder,   \* Spinlock.holder
  hw,       \* the core that has hardware spinlock 14
  depth,    \* LOCAL[core].depth
  masked,   \* interrupts are masked on the core
  inIsr,    \* the core is in an interrupt handler
  path,     \* path[x]: what context x is taking
  tries,    \* x uses try_with
  got,      \* how many of them it is inside
  lockSaved,    \* the interrupt states its cs_enters saved
  lockPc

lockVars == <<machine, lockHolder, hw, depth, masked, inIsr, path, tries, got, lockSaved, lockPc>>

XTENSA == machine = "xtensa"
Contexts == Cores \X {"task", "isr"}
CoreOf(x) == x[1]
Active(x) == inIsr[CoreOf(x)] = (x[2] = "isr")
Target(x) == path[x][got[x] + 1]     \* the lock it is about to take

TypeLocks ==
  /\ machine \in Machines
  /\ lockHolder \in [Spinlocks -> Cores \cup {NoCore}]
  /\ hw \in Cores \cup {NoCore}
  /\ depth \in [Cores -> Nat]
  /\ masked \in [Cores -> BOOLEAN]
  /\ inIsr \in [Cores -> BOOLEAN]
  /\ path \in [Contexts -> Paths \cup {<<>>}]
  /\ tries \in [Contexts -> BOOLEAN]
  /\ got \in [Contexts -> Nat]
  /\ lockSaved \in [Contexts -> Seq(BOOLEAN)]
  /\ lockPc \in [Contexts -> {"idle", "enter", "hw", "check", "acquire", "in",
                          "release", "exit", "panic"}]

LocksInit ==
  /\ machine \in Machines
  /\ lockHolder = [l \in Spinlocks |-> NoCore]
  /\ hw = NoCore
  /\ depth = [c \in Cores |-> 0]
  /\ masked = [c \in Cores |-> FALSE]
  /\ inIsr = [c \in Cores |-> FALSE]
  /\ path = [x \in Contexts |-> <<>>]
  /\ tries = [x \in Contexts |-> FALSE]
  /\ got = [x \in Contexts |-> 0]
  /\ lockSaved = [x \in Contexts |-> <<>>]
  /\ lockPc = [x \in Contexts |-> "idle"]

LockGoto(x, l) == lockPc' = [lockPc EXCEPT ![x] = l]
At(x, l) == Active(x) /\ lockPc[x] = l

----------------------------------------------------------------------------
(* An interrupt is taken: hardware masks the core until it returns.        *)
Interrupt(c) ==
  /\ ~masked[c]
  /\ ~inIsr[c]
  /\ inIsr' = [inIsr EXCEPT ![c] = TRUE]
  /\ masked' = [masked EXCEPT ![c] = TRUE]
  /\ UNCHANGED <<lockHolder, hw, depth, path, tries, got, lockSaved, lockPc>>

ReturnFromInterrupt(c) ==
  /\ inIsr[c]
  /\ lockPc[<<c, "isr">>] = "idle"
  /\ inIsr' = [inIsr EXCEPT ![c] = FALSE]
  /\ masked' = [masked EXCEPT ![c] = FALSE]
  /\ UNCHANGED <<lockHolder, hw, depth, path, tries, got, lockSaved, lockPc>>

(* with or try_with is called on the first lock of a path.                 *)
Start(x, p, try) ==
  /\ At(x, "idle")
  /\ try => Len(p) = 1 /\ p[1] \in Spinlocks
  /\ path' = [path EXCEPT ![x] = p]
  /\ tries' = [tries EXCEPT ![x] = try]
  /\ LockGoto(x, "enter")
  /\ UNCHANGED <<lockHolder, hw, depth, masked, inIsr, got, lockSaved>>

(* cs_enter: save the interrupt state and mask.                            *)
CsEnter(x) ==
  /\ At(x, "enter")
  /\ lockSaved' = [lockSaved EXCEPT ![x] = Append(@, masked[CoreOf(x)])]
  /\ masked' = [masked EXCEPT ![CoreOf(x)] = TRUE]
  /\ LockGoto(x, IF XTENSA THEN "check" ELSE "hw")
  /\ UNCHANGED <<lockHolder, hw, depth, inIsr, path, tries, got>>

(* Mutant: go on without the hardware lock.                                *)
HwAcquireNoWait(x) ==
  /\ At(x, "hw")
  /\ hw' = CoreOf(x)
  /\ depth' = [depth EXCEPT ![CoreOf(x)] = @ + 1]
  /\ LockGoto(x, "check")
  /\ UNCHANGED <<lockHolder, masked, inIsr, path, tries, got, lockSaved>>

(* RP2040: the hardware lock, at the outermost level.                      *)
HwAcquire(x) ==
  /\ At(x, "hw")
  /\ depth[CoreOf(x)] > 0 \/ hw = NoCore
  /\ hw' = CoreOf(x)
  /\ depth' = [depth EXCEPT ![CoreOf(x)] = @ + 1]
  /\ LockGoto(x, "check")
  /\ UNCHANGED <<lockHolder, masked, inIsr, path, tries, got, lockSaved>>

Unmask(x) ==
  /\ masked' = [masked EXCEPT ![CoreOf(x)] = lockSaved[x][Len(lockSaved[x])]]
  /\ lockSaved' = [lockSaved EXCEPT ![x] = SubSeq(@, 1, Len(@) - 1)]

(* Mutant: a failed try leaves through cs_exit, which it never entered.    *)
HwGiveUpExits(x) ==
  /\ At(x, "hw")
  /\ tries[x]
  /\ depth[CoreOf(x)] = 0 /\ hw # NoCore
  /\ LockGoto(x, "exit")
  /\ UNCHANGED <<lockHolder, hw, depth, masked, inIsr, path, tries, got, lockSaved>>

(* ... which try_with does not wait for.                                   *)
HwGiveUp(x) ==
  /\ At(x, "hw")
  /\ tries[x]
  /\ depth[CoreOf(x)] = 0 /\ hw # NoCore
  /\ Unmask(x)
  /\ path' = [path EXCEPT ![x] = <<>>]
  /\ LockGoto(x, "idle")
  /\ UNCHANGED <<lockHolder, hw, depth, inIsr, tries, got>>

Inside(x) ==
  /\ got' = [got EXCEPT ![x] = @ + 1]
  /\ LockGoto(x, "in")

(* A CsCell is entered at once.  A Spinlock first looks whether this core  *)
(* already holds it: with panics, try_with declines.                       *)
Check(x) ==
  /\ At(x, "check")
  /\ \/ Target(x) \in Cells /\ Inside(x)
     \/ /\ Target(x) \in Spinlocks
        /\ LockGoto(x, IF lockHolder[Target(x)] # CoreOf(x) THEN "acquire"
                   ELSE IF tries[x] THEN "exit" ELSE "panic")
        /\ UNCHANGED got
  /\ UNCHANGED <<lockHolder, hw, depth, masked, inIsr, path, tries, lockSaved>>

(* The acquisition: a compare-exchange on Xtensa, a plain store on RP2040. *)
Acquire(x) ==
  /\ At(x, "acquire")
  /\ XTENSA => lockHolder[Target(x)] = NoCore
  /\ lockHolder' = [lockHolder EXCEPT ![Target(x)] = CoreOf(x)]
  /\ Inside(x)
  /\ UNCHANGED <<hw, depth, masked, inIsr, path, tries, lockSaved>>

(* try_with: the compare-exchange fails once and that is it.               *)
AcquireGiveUp(x) ==
  /\ At(x, "acquire")
  /\ XTENSA /\ tries[x]
  /\ lockHolder[Target(x)] # NoCore
  /\ LockGoto(x, "exit")
  /\ UNCHANGED <<lockHolder, hw, depth, masked, inIsr, path, tries, got, lockSaved>>

(* The closure takes the next lock of the path, or returns ...             *)
Deeper(x) ==
  /\ At(x, "in")
  /\ LockGoto(x, IF got[x] < Len(path[x]) THEN "enter" ELSE "release")
  /\ UNCHANGED <<lockHolder, hw, depth, masked, inIsr, path, tries, got, lockSaved>>

(* ... and Release stores UNLOCKED.                                        *)
Release(x) ==
  LET l == path[x][got[x]] IN
  /\ At(x, "release")
  /\ lockHolder' = IF l \in Spinlocks THEN [lockHolder EXCEPT ![l] = NoCore] ELSE lockHolder
  /\ got' = [got EXCEPT ![x] = @ - 1]
  /\ LockGoto(x, "exit")
  /\ UNCHANGED <<hw, depth, masked, inIsr, path, tries, lockSaved>>

(* cs_exit: give the hardware lock back at the outermost level, restore    *)
(* the saved interrupt state.                                              *)
CsExit(x) ==
  LET c == CoreOf(x) IN
  /\ At(x, "exit")
  /\ depth' = IF XTENSA THEN depth ELSE [depth EXCEPT ![c] = @ - 1]
  /\ hw' = IF ~XTENSA /\ depth[c] = 1 THEN NoCore ELSE hw
  /\ Unmask(x)
  /\ path' = IF got[x] = 0 THEN [path EXCEPT ![x] = <<>>] ELSE path
  /\ LockGoto(x, IF got[x] = 0 THEN "idle" ELSE "release")
  /\ UNCHANGED <<lockHolder, inIsr, tries, got>>

LocksNext ==
  /\ \/ \E c \in Cores : Interrupt(c) \/ ReturnFromInterrupt(c)
     \/ \E x \in Contexts, p \in Paths, try \in BOOLEAN : Start(x, p, try)
     \/ \E x \in Contexts :
          \/ CsEnter(x) \/ HwAcquire(x) \/ HwGiveUp(x) \/ Check(x)
          \/ Acquire(x) \/ AcquireGiveUp(x) \/ Deeper(x) \/ Release(x) \/ CsExit(x)
  /\ UNCHANGED machine

LocksSpec == LocksInit /\ [][LocksNext]_lockVars

----------------------------------------------------------------------------
(* x has the &mut to what l guards.                                        *)
InData(x, l) ==
  /\ \E i \in 1 .. got[x] : path[x][i] = l
  /\ lockPc[x] # "panic"

(* "Run `f` with exclusive access, on this core and every other": no two   *)
(* contexts are inside one Spinlock, nested or not, preempted or not.      *)
LockExclusive ==
  \A l \in Spinlocks, x, y \in Contexts : InData(x, l) /\ InData(y, l) => x = y

(* "Masking first makes step 2 impossible": no legal path ends in the      *)
(* reentrancy panic, in particular not a handler that takes the lock of    *)
(* the task it interrupted.                                                *)
NoReentry == \A x \in Contexts : lockPc[x] # "panic"

(* CsCell: "no two contexts ever hold a reference at the same time".  The  *)
(* RP2040's critical section excludes the other core; Xtensa's masks the   *)
(* calling core only and promises this within one core.                    *)
CellExclusive ==
  \A l \in Cells, x, y \in Contexts :
    /\ InData(x, l) /\ InData(y, l)
    /\ XTENSA => CoreOf(x) = CoreOf(y)
    => x = y

(* Spinlocks and CsCells keep their promise of exclusion, and no legal     *)
(* path to one ends in the reentrancy panic.                               *)
SectionsExclude == LockExclusive /\ NoReentry /\ CellExclusive

----------------------------------------------------------------------------
(* api::sync::Once: a cell written at most once and then read without a    *)
(* lock.  The state word goes EMPTY -> INITIALIZING -> READY, or back to   *)
(* EMPTY when the initialiser fails.  Each caller is a task or an          *)
(* interrupt handler; every atomic access is a step of its own, so the     *)
(* steps of two callers interleave as they do on two cores.                *)
CONSTANTS Callers,   \* contexts that call init, get_or_try_init or get
          NoValue    \* the content of the cell before it is written

ASSUME NoValueAssumption == NoValue \notin Callers

VARIABLES onceState,     \* Once::state, the AtomicU8
          onceValue,     \* Once::value: NoValue, or the caller that wrote it
          oncePc,        \* where each caller is in its call
          onceRef        \* the content seen through the reference it was given

onceVars == <<onceState, onceValue, oncePc, onceRef>>

OnceStates == {"EMPTY", "INITIALIZING", "READY"}
OncePcs == {"idle", "running_f", "writing", "publishing", "failing",
        "reading", "holding", "panicked"}

TypeOnce ==
  /\ onceState \in OnceStates
  /\ onceValue \in Callers \cup {NoValue}
  /\ oncePc \in [Callers -> OncePcs]
  /\ onceRef \in [Callers -> Callers \cup {NoValue}]

OnceInit ==
  /\ onceState = "EMPTY"
  /\ onceValue = NoValue
  /\ oncePc = [c \in Callers |-> "idle"]
  /\ onceRef = [c \in Callers |-> NoValue]

OnceGoto(c, l) == oncePc' = [oncePc EXCEPT ![c] = l]

(* Mutant: a compare-exchange that only refuses READY.                     *)
ClaimUnlessReady(c) ==
  /\ oncePc[c] = "idle"
  /\ IF onceState # "READY"
       THEN onceState' = "INITIALIZING" /\ OnceGoto(c, "running_f")
       ELSE onceState' = onceState /\ OnceGoto(c, "panicked")
  /\ UNCHANGED <<onceValue, onceRef>>

(* get_or_try_init: the compare-exchange that decides the one writer.      *)
Claim(c) ==
  /\ oncePc[c] = "idle"
  /\ IF onceState = "EMPTY"
       THEN onceState' = "INITIALIZING" /\ OnceGoto(c, "running_f")
       ELSE onceState' = onceState /\ OnceGoto(c, "panicked")
  /\ UNCHANGED <<onceValue, onceRef>>

(* f() returns: Ok(v) goes on to write, Err gives the cell back.           *)
RunF(c) ==
  /\ oncePc[c] = "running_f"
  /\ \E l \in {"writing", "failing"} : OnceGoto(c, l)
  /\ UNCHANGED <<onceState, onceValue, onceRef>>

Write(c) ==
  /\ oncePc[c] = "writing"
  /\ onceValue' = c
  /\ OnceGoto(c, "publishing")
  /\ UNCHANGED <<onceState, onceRef>>

Publish(c) ==
  /\ oncePc[c] = "publishing"
  /\ onceState' = "READY"
  /\ onceRef' = [onceRef EXCEPT ![c] = onceValue]
  /\ OnceGoto(c, "holding")
  /\ UNCHANGED onceValue

GiveBack(c) ==
  /\ oncePc[c] = "failing"
  /\ onceState' = "EMPTY"
  /\ OnceGoto(c, "idle")
  /\ UNCHANGED <<onceValue, onceRef>>

(* get: a reference only after READY was observed.                         *)
GetLoad(c) ==
  /\ oncePc[c] = "idle"
  /\ OnceGoto(c, IF onceState = "READY" THEN "reading" ELSE "idle")
  /\ UNCHANGED <<onceState, onceValue, onceRef>>

GetRef(c) ==
  /\ oncePc[c] = "reading"
  /\ onceRef' = [onceRef EXCEPT ![c] = onceValue]
  /\ OnceGoto(c, "holding")
  /\ UNCHANGED <<onceState, onceValue>>

OnceNext ==
  \E c \in Callers :
    \/ Claim(c) \/ RunF(c) \/ Write(c) \/ Publish(c) \/ GiveBack(c)
    \/ GetLoad(c) \/ GetRef(c)

OnceSpec == OnceInit /\ [][OnceNext]_onceVars

(* The safety argument on the type: whoever holds a reference sees the     *)
(* value that is in the cell, initialised, and it never changes under it.  *)
HeldRefsAgree ==
  \A c \in Callers : oncePc[c] = "holding" => onceRef[c] # NoValue /\ onceRef[c] = onceValue

(* Exactly one writer for the life of the program: the caller between      *)
(* winning the compare-exchange and publishing or giving back is unique,   *)
(* and while it is there the state word says INITIALIZING.                 *)
InCell(c) == oncePc[c] \in {"running_f", "writing", "publishing", "failing"}

OneWriter ==
  /\ \A c, d \in Callers : InCell(c) /\ InCell(d) => c = d
  /\ (\E c \in Callers : InCell(c)) <=> onceState = "INITIALIZING"

(* Once keeps its promise: one writer, and readers that agree with it.     *)
OnceExclusive == HeldRefsAgree /\ OneWriter
=============================================================================
