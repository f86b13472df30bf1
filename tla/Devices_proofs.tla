-------------------------- MODULE Devices_proofs --------------------------
(***************************************************************************)
(* Proofs about the devices and the boot.  The flash window of the ESP32,  *)
(* for any interrupt table, page size, register size and write length: an  *)
(* operation that ends, however it ends, leaves the machine as it found    *)
(* it, and the chip never refuses or wraps a program.  The WPA2 station,   *)
(* for any credentials and any number of associations, of answered message *)
(* 1 frames and of resends: which keys it installs, and when.  Starting    *)
(* both cores, for either machine and any launch: no core is asked for     *)
(* what it has not set up.  The radio's glue, for any blob, timers and     *)
(* frames: its tasks, timers and received frames are handed over once and  *)
(* in order.  The RP2040's pins, units and PIO blocks, for any openers,    *)
(* plans and programs: each has one owner, and all of it comes back.       *)
(***************************************************************************)
EXTENDS FlashWindow, Wpa, Boot, RadioInput, PicoPio, Integers, SequenceTheorems, FiniteSetTheorems,
        WellFoundedInduction, TLAPS

(***************************************************************************)
(* The flash window.                                                       *)
(***************************************************************************)

(* Where the operation has raised the interrupt level, and where the chip  *)
(* is driven with the level down.                                          *)
Raised == {"level", "mask", "stall", "prooff", "open", "proon", "appon", "restore"}
Driving == InSpi \cup {"spidone"}
Uncached == Driving \cup {"open", "close"}

(* The operation's position says what it has taken away, and what it must  *)
(* give back: the level, the mask, the caches, the second core and SPI1.   *)
LevelKept ==
  /\ intlevel = IF wpc \in Raised THEN 5 ELSE 0
  /\ wpc \in Raised => isr = {}
MaskKept ==
  /\ CACHE_OFF <=> wpc \notin {"idle", "level"}
  /\ IF CACHE_OFF THEN savedMask = wanted ELSE intenable = wanted
  /\ CACHE_OFF => \A h \in isr : h.iram_safe
CachesKept ==
  /\ ~cache[0] <=> wpc \in Uncached
  /\ ~cache[1] <=> app = "stalled" /\ wpc \in Uncached \cup {"prooff", "proon"}
  /\ wpc \in {"stall", "proon", "appon"} => app = "stalled"
  /\ wpc \in {"idle", "level", "mask", "restore"} => app # "stalled"
  /\ wpc \notin {"idle", "level", "mask", "restore"} => app # "run"
  /\ spi1 = IF wpc \in Driving THEN "driver" ELSE "cache"

(* The chip between WREN and the program it is for.  A write has left      *)
(* continuous reading, so the chip hears it; an erase is heard unless it   *)
(* has spoken to a chip in that mode.                                      *)
Programs == op.kind \in {"write", "erase"}
Heard == op.kind = "write" \/ ~blind
ChipKept ==
  /\ UNLOCKED /\ ~blind => ~chip.prot
  /\ wpc # "idle" => op.kind # "none"
  /\ wpc = "exitcr" => op.kind \in {"read", "sfdp", "write"}
  /\ wpc = "ready" => op.kind # "jedec"
  /\ wpc \in {"unlock", "wrsr", "wrdi", "wren", "pp"} => Programs
  /\ wpc \in {"ready", "wren", "pp"} /\ Programs => UNLOCKED
  /\ wpc = "wrsr" /\ Heard => chip.wel
  /\ wpc = "wrdi" /\ Heard => ~chip.prot
  /\ wpc \in {"wren", "pp"} /\ Heard => ~chip.wip
  /\ wpc = "pp" /\ Heard => chip.wel
  /\ op.kind = "write" /\ wpc \in InSpi \ {"exitcr", "xfer"} => ~chip.cont
  /\ wpc \in {"wrsr", "wrdi", "wren", "pp"} /\ ~blind => ~chip.cont

FlashInv ==
  /\ TypeFlash
  /\ LevelKept /\ MaskKept /\ CachesKept
  /\ ChipKept /\ ~misuse /\ (ignored => blind)

----------------------------------------------------------------------------
(* The length of the next program: some words, no more than are left, and  *)
(* none past the end of the page.                                          *)
LEMMA RoundFits ==
  ASSUME TypeFlash
  PROVE  /\ Round \in Nat /\ Round <= op.left
         /\ (op.at % PAGE_SIZE) + Round <= PAGE_SIZE
<1>1. PICK a \in Nat, l \in Nat : a = op.at % PAGE_SIZE /\ a < PAGE_SIZE /\ l = op.left
  BY FlashAssumption DEF TypeFlash
<1>2. PICK r \in {l, CHUNK, PAGE_SIZE - a} : \A x \in {l, CHUNK, PAGE_SIZE - a} : r <= x
  BY <1>1, FlashAssumption
<1>3. Round = CHOOSE x \in {l, CHUNK, PAGE_SIZE - a} : \A y \in {l, CHUNK, PAGE_SIZE - a} : x <= y
  BY <1>1 DEF Round, Min
<1>4. Round \in {l, CHUNK, PAGE_SIZE - a} /\ \A x \in {l, CHUNK, PAGE_SIZE - a} : Round <= x
  BY <1>2, <1>3
<1> QED
  BY <1>1, <1>4, FlashAssumption

LEMMA InitFlashInv == FlashInit => FlashInv
<1> SUFFICES ASSUME FlashInit PROVE FlashInv
  OBVIOUS
<1>1. PICK p \in BOOLEAN : chip = [wel |-> FALSE, wip |-> FALSE, prot |-> p, cont |-> TRUE]
  BY DEF FlashInit
<1>2. TypeFlash
  BY <1>1 DEF FlashInit, TypeFlash, WpcStates, NoOp
<1>3. LevelKept /\ MaskKept /\ CachesKept
  BY DEF FlashInit, LevelKept, MaskKept, CachesKept, Raised, Driving, Uncached, InSpi
<1>4. ChipKept /\ ~misuse /\ ~ignored
  BY DEF FlashInit, NoOp, ChipKept, Programs, Heard, InSpi
<1> QED
  BY <1>2, <1>3, <1>4 DEF FlashInv

(* Interrupts and the second core.                                         *)
LEMMA CpuStep ==
  ASSUME FlashInv,
         \/ \E i \in Irqs, safe \in BOOLEAN : \E wakes \in {FALSE, safe} :
              connect(i, safe, wakes) \/ RegisterOnApp(i, safe, wakes)
         \/ \E h \in handlers : Trap(h)
         \/ TrapReturn \/ StartStopApp \/ AppTakesScheduler
  PROVE  FlashInv'
<1> USE DEF FlashInv, TypeFlash, LevelKept, MaskKept, CachesKept, ChipKept, Raised, Driving, Uncached,
            InSpi, Programs, Heard, chipPast, spiVars
<1>1. ASSUME NEW i \in Irqs, NEW safe \in BOOLEAN, NEW wakes \in {FALSE, safe}, connect(i, safe, wakes)
      PROVE  FlashInv'
  <2>1. /\ handlers' \subseteq [irq : Irqs, iram_safe : BOOLEAN, wakes : BOOLEAN]
        /\ intenable' \subseteq Irqs /\ wanted' \subseteq Irqs
    <3>1. [irq |-> i, iram_safe |-> safe, wakes |-> wakes]
            \in [irq : Irqs, iram_safe : BOOLEAN, wakes : BOOLEAN]
      OBVIOUS
    <3> QED
      BY <1>1, <3>1 DEF connect, register_inner
  <2> QED
    BY <1>1, <2>1 DEF connect
<1>2. ASSUME NEW i \in Irqs, NEW safe \in BOOLEAN, NEW wakes \in {FALSE, safe},
             RegisterOnApp(i, safe, wakes)
      PROVE  FlashInv'
  <2>1. /\ handlers' \subseteq [irq : Irqs, iram_safe : BOOLEAN, wakes : BOOLEAN]
        /\ handlers \subseteq handlers'
    <3>1. [irq |-> i, iram_safe |-> safe, wakes |-> wakes]
            \in [irq : Irqs, iram_safe : BOOLEAN, wakes : BOOLEAN]
      OBVIOUS
    <3> QED
      BY <1>2, <3>1 DEF RegisterOnApp, register_inner
  <2> QED
    BY <1>2, <2>1 DEF RegisterOnApp
<1>3. ASSUME NEW h \in handlers, Trap(h) PROVE FlashInv'
  BY <1>3 DEF Trap
<1>4. CASE TrapReturn
  BY <1>4 DEF TrapReturn
<1>5. CASE StartStopApp
  BY <1>5 DEF StartStopApp
<1>6. CASE AppTakesScheduler
  BY <1>6 DEF AppTakesScheduler
<1> HIDE DEF FlashInv
<1> QED
  BY <1>1, <1>2, <1>3, <1>4, <1>5, <1>6

(* The way into the window and out of it.                                  *)
LEMMA WindowStep == ASSUME FlashInv, WindowNext PROVE FlashInv'
<1> USE DEF FlashInv, TypeFlash, LevelKept, MaskKept, CachesKept, ChipKept, Raised, Driving, Uncached,
            InSpi, Programs, Heard, WpcStates, chipPast, spiVars, Step
<1>1. CASE mask_non_iram_safe
  BY <1>1 DEF mask_non_iram_safe
<1>2. CASE CacheBusy
  <2> DEFINE Ops == [kind : {"none", "read", "write", "erase", "sfdp", "jedec"},
                     at : Nat, left : Nat, failed : BOOLEAN]
  <2>0. op' \in Ops /\ wpc' = "restore" /\ UNCHANGED <<cpuVars, spiVars>>
    <3>1. op \in Ops /\ op' = [op EXCEPT !.failed = TRUE]
      BY <1>2 DEF CacheBusy
    <3> QED
      BY <1>2, <3>1 DEF CacheBusy
  <2>1. TypeFlash'
    BY <2>0 DEF cpuVars
  <2>2. LevelKept' /\ MaskKept' /\ CachesKept'
    BY <1>2 DEF CacheBusy, cpuVars
  <2>3. ChipKept' /\ ~misuse' /\ (ignored' => blind')
    BY <1>2 DEF CacheBusy, cpuVars
  <2> QED
    BY <2>1, <2>2, <2>3
<1>3. CASE StallApp
  BY <1>3 DEF StallApp
<1>4. CASE CacheOff("stall", 1, "prooff")
  BY <1>4 DEF CacheOff
<1>5. CASE CacheOff("prooff", 0, "open")
  BY <1>5 DEF CacheOff
<1>6. CASE OpenWindow
  BY <1>6 DEF OpenWindow
<1>7. CASE RestoreSpi
  BY <1>7 DEF RestoreSpi, cpuVars
<1>8. CASE CloseWindow
  BY <1>8 DEF CloseWindow
<1>9. CASE CacheOnApp
  BY <1>9 DEF CacheOnApp
<1>10. CASE UnstallApp
  BY <1>10 DEF UnstallApp
<1>11. CASE RestoreInterrupts
  <2>1. TypeFlash'
    BY <1>11, ZenonT(60) DEF RestoreInterrupts, NoOp
  <2>2. LevelKept' /\ MaskKept' /\ CachesKept'
    BY <1>11 DEF RestoreInterrupts
  <2>3. ChipKept' /\ ~misuse' /\ (ignored' => blind')
    BY <1>11 DEF RestoreInterrupts, NoOp
  <2> QED
    BY <2>1, <2>2, <2>3
<1> QED
  BY <1>1, <1>2, <1>3, <1>4, <1>5, <1>6, <1>7, <1>8, <1>9, <1>10, <1>11 DEF WindowNext

(* A step of the chip or of the driver with the window open.               *)
LEMMA DriverStep ==
  ASSUME FlashInv, UNCHANGED cpuVars, spi1' = spi1,
         (wpc \in Driving /\ wpc' \in Driving) \/ wpc' = wpc
  PROVE  LevelKept' /\ MaskKept' /\ CachesKept'
  BY DEF FlashInv, cpuVars, LevelKept, MaskKept, CachesKept, Raised, Driving, Uncached, InSpi

LEMMA DriverTypes ==
  ASSUME FlashInv, UNCHANGED cpuVars, spi1' = spi1, qer' = qer, wpc' \in WpcStates,
         op' \in [kind : {"none", "read", "write", "erase", "sfdp", "jedec"},
                  at : Nat, left : Nat, failed : BOOLEAN],
         chip' \in [wel : BOOLEAN, wip : BOOLEAN, prot : BOOLEAN, cont : BOOLEAN],
         UNLOCKED' \in BOOLEAN, misuse' \in BOOLEAN, ignored' \in BOOLEAN, blind' \in BOOLEAN
  PROVE  TypeFlash'
  BY DEF FlashInv, TypeFlash, cpuVars

(* A command is heard, or leaves the chip as it was except for its mode.   *)
LEMMA HearsStep ==
  ASSUME NEW c, Hears(c), chip \in [wel : BOOLEAN, wip : BOOLEAN, prot : BOOLEAN, cont : BOOLEAN],
         blind \in BOOLEAN,
         c \in [wel : BOOLEAN, wip : BOOLEAN, prot : BOOLEAN, cont : BOOLEAN], c.cont = chip.cont
  PROVE  /\ chip' \in [wel : BOOLEAN, wip : BOOLEAN, prot : BOOLEAN, cont : BOOLEAN]
         /\ ~chip.cont => chip' = c
         /\ chip.cont => chip'.wel = chip.wel /\ chip'.wip = chip.wip /\ chip'.prot = chip.prot
         /\ blind' \in BOOLEAN /\ (blind => blind')
         /\ ~blind' => ~blind /\ ~(chip.cont /\ op.kind = "erase")
         /\ op.kind # "erase" => blind' = blind
<1> DEFINE Chips == [wel : BOOLEAN, wip : BOOLEAN, prot : BOOLEAN, cont : BOOLEAN]
<1>1. CASE chip.cont
  <2>1. PICK m \in BOOLEAN : chip' = [chip EXCEPT !.cont = m]
    BY <1>1 DEF Hears
  <2>2. chip' \in Chips /\ chip'.wel = chip.wel /\ chip'.wip = chip.wip /\ chip'.prot = chip.prot
    BY <2>1
  <2> QED
    BY <1>1, <2>2 DEF Hears
<1>2. CASE ~chip.cont
  BY <1>2 DEF Hears
<1> QED
  BY <1>1, <1>2

LEMMA SpiStep == ASSUME FlashInv, SpiNext PROVE FlashInv'
<1> DEFINE Ops == [kind : {"none", "read", "write", "erase", "sfdp", "jedec"},
                   at : Nat, left : Nat, failed : BOOLEAN]
           Chips == [wel : BOOLEAN, wip : BOOLEAN, prot : BOOLEAN, cont : BOOLEAN]
<1>0. /\ wpc \in WpcStates /\ op \in Ops /\ chip \in Chips /\ UNLOCKED \in BOOLEAN
      /\ misuse \in BOOLEAN /\ ~misuse /\ ChipKept
      /\ ignored \in BOOLEAN /\ blind \in BOOLEAN /\ (ignored => blind)
  BY DEF FlashInv, TypeFlash
<1>a. SUFFICES /\ UNCHANGED cpuVars /\ spi1' = spi1 /\ qer' = qer
               /\ (wpc \in Driving /\ wpc' \in Driving) \/ wpc' = wpc
               /\ wpc' \in WpcStates /\ op' \in Ops /\ chip' \in Chips
               /\ UNLOCKED' \in BOOLEAN /\ misuse' \in BOOLEAN /\ ~misuse' /\ ChipKept'
               /\ ignored' \in BOOLEAN /\ blind' \in BOOLEAN /\ (ignored' => blind')
  BY DriverStep, DriverTypes DEF FlashInv
<1> USE DEF ChipKept, Driving, InSpi, Programs, Heard, WpcStates, Step, Chip
<1>1. CASE SpiFails
  <2>1. op' \in Ops /\ op'.kind = op.kind
    BY <1>0, <1>1 DEF SpiFails
  <2> QED
    BY <1>0, <1>1, <2>1 DEF SpiFails, spiVars, chipPast
<1>2. CASE exit_continuous_read
  BY <1>0, <1>2 DEF exit_continuous_read, chipPast
<1>3. CASE UnlockDone
  <2>1. Hears(chip)
    BY <1>3 DEF UnlockDone
  <2> QED
    BY <1>0, <1>3, <2>1, HearsStep DEF UnlockDone, Reads
<1>13. CASE UnlockKnown
  BY <1>0, <1>13 DEF UnlockKnown, spiVars, chipPast
<1>4. CASE UnlockWren
  <2> DEFINE c == [chip EXCEPT !.wel = TRUE]
  <2>1. c \in Chips /\ c.cont = chip.cont /\ c.wel /\ c.prot = chip.prot
    BY <1>0
  <2>2. Hears(c)
    BY <1>4, <2>1 DEF UnlockWren
  <2> HIDE DEF c
  <2> QED
    BY <1>0, <1>4, <2>1, <2>2, HearsStep DEF UnlockWren
<1>5. CASE UnlockWrsr
  <2> DEFINE c == [chip EXCEPT !.prot = @ /\ ~chip.wel, !.wip = chip.wel, !.wel = FALSE]
  <2>1. c \in Chips /\ c.cont = chip.cont /\ (chip.wel => ~c.prot) /\ (c.prot => chip.prot)
    BY <1>0
  <2>2. Hears(c)
    BY <1>5, <2>1 DEF UnlockWrsr
  <2> HIDE DEF c
  <2> QED
    BY <1>0, <1>5, <2>1, <2>2, HearsStep DEF UnlockWrsr
<1>6. CASE UnlockWrdi
  <2> DEFINE c == [chip EXCEPT !.wel = FALSE]
  <2>1. c \in Chips /\ c.cont = chip.cont /\ c.prot = chip.prot
    BY <1>0
  <2>2. Hears(c)
    BY <1>6, <2>1 DEF UnlockWrdi
  <2> HIDE DEF c
  <2> QED
    BY <1>0, <1>6, <2>1, <2>2, HearsStep DEF UnlockWrdi
<1>7. CASE wait_ready
  <2>1. Hears(chip)
    BY <1>7 DEF wait_ready
  <2> QED
    BY <1>0, <1>7, <2>1, HearsStep DEF wait_ready, Reads
<1>8. CASE Transfer
  <2>1. Hears(chip)
    BY <1>8 DEF Transfer
  <2> QED
    BY <1>0, <1>8, <2>1, HearsStep DEF Transfer
<1>9. CASE Wren
  <2> DEFINE c == [chip EXCEPT !.wel = TRUE]
  <2>1. c \in Chips /\ c.cont = chip.cont /\ c.wel /\ c.prot = chip.prot /\ c.wip = chip.wip
    BY <1>0
  <2>2. Hears(c)
    BY <1>9, <2>1 DEF Wren
  <2> HIDE DEF c
  <2> QED
    BY <1>0, <1>9, <2>1, <2>2, HearsStep DEF Wren
<1>14. /\ Working \in Chips /\ Working.cont = chip.cont /\ Working.prot = chip.prot
  BY <1>0 DEF Working
<1>10. CASE PageProgram
  <2>1. /\ Round \in Nat /\ Round <= op.left /\ (op.at % PAGE_SIZE) + Round <= PAGE_SIZE
    BY RoundFits DEF FlashInv
  <2>2. /\ op.kind = "write" /\ ~chip.wip /\ chip.wel /\ ~chip.cont /\ UNLOCKED
        /\ chip' = Working /\ blind' = blind
    <3>1. op.kind = "write" /\ wpc = "pp" /\ Hears(Working)
      BY <1>10 DEF PageProgram
    <3> QED
      BY <1>0, <1>14, <3>1, HearsStep
  <2>3. ~((op.at % PAGE_SIZE) + Round > PAGE_SIZE)
    BY <1>0, <2>1, FlashAssumption
  <2>4. op' \in Ops /\ op'.kind = op.kind
    <3>1. op.at + Round \in Nat /\ op.left - Round \in Nat
      BY <1>0, <2>1
    <3>2. op' = [kind |-> op.kind, at |-> op.at + Round, left |-> op.left - Round,
                 failed |-> op.failed]
      BY <1>0, <1>10 DEF PageProgram
    <3> QED
      BY <1>0, <3>1, <3>2
  <2>5. ~misuse'
    BY <1>0, <1>10, <2>2, <2>3 DEF PageProgram
  <2>6. ignored' \in BOOLEAN /\ (ignored' => blind)
    BY <1>0, <1>10, <2>2 DEF PageProgram, Takes
  <2> QED
    BY <1>0, <1>10, <1>14, <2>2, <2>4, <2>5, <2>6 DEF PageProgram
<1>11. CASE SectorErase
  <2>1. op.kind = "erase" /\ wpc = "pp" /\ wpc' = "ready" /\ Hears(Working)
    BY <1>11 DEF SectorErase
  <2>2. op' \in Ops /\ op'.kind = op.kind
    <3>1. op' = [kind |-> op.kind, at |-> op.at, left |-> 0, failed |-> op.failed]
      BY <1>0, <1>11 DEF SectorErase
    <3> QED
      BY <1>0, <3>1
  <2>3. /\ chip' \in Chips /\ blind' \in BOOLEAN /\ chip'.prot = chip.prot
        /\ blind => blind'
        /\ ~blind' => ~blind /\ ~chip.cont
    BY <1>0, <1>14, <2>1, HearsStep
  <2>4. ignored' \in BOOLEAN /\ (ignored' => blind')
    BY <1>0, <1>11, <2>1, <2>3 DEF SectorErase, Takes
  <2> QED
    BY <1>0, <1>11, <2>1, <2>2, <2>3, <2>4 DEF SectorErase
<1>12. CASE ChipFinishes
  <2>1. /\ chip' \in Chips /\ ~chip'.wip /\ chip'.prot = chip.prot
        /\ chip'.wel = chip.wel /\ chip'.cont = chip.cont
    BY <1>0, <1>12 DEF ChipFinishes
  <2>2. /\ UNCHANGED <<wpc, op, UNLOCKED, misuse, ignored, blind, spi1, qer>> /\ UNCHANGED cpuVars
    BY <1>12 DEF ChipFinishes, chipPast
  <2>3. ChipKept'
    BY <1>0, <2>1, <2>2
  <2> QED
    BY <1>0, <2>1, <2>2, <2>3
<1> HIDE DEF ChipKept, Driving, InSpi, Programs, Heard, WpcStates, Step, Chip
<1> QED
  BY <1>1, <1>2, <1>3, <1>4, <1>5, <1>6, <1>7, <1>8, <1>9, <1>10, <1>11, <1>12, <1>13 DEF SpiNext

LEMMA BeginStep ==
  ASSUME FlashInv, NEW k \in {"read", "write", "erase", "sfdp", "jedec"},
         NEW at \in Nat, NEW n \in Nat, BeginOp(k, at, n)
  PROVE  FlashInv'
  BY DEF BeginOp, Step, FlashInv, TypeFlash, LevelKept, MaskKept, CachesKept, ChipKept, Raised,
         Driving, Uncached, InSpi, Programs, Heard, WpcStates, spiVars, chipPast

LEMMA NextFlashInv == FlashInv /\ [FlashNext]_flashVars => FlashInv'
<1> SUFFICES ASSUME FlashInv, [FlashNext]_flashVars PROVE FlashInv'
  OBVIOUS
<1>1. ASSUME NEW at \in 0 .. PAGE_SIZE - 1, NEW n \in 1 .. MAX_WORDS, BeginOp("write", at, n)
      PROVE  FlashInv'
  BY <1>1, BeginStep
<1>2. ASSUME NEW k \in {"read", "erase", "sfdp", "jedec"}, BeginOp(k, 0, 1) PROVE FlashInv'
  BY <1>2, BeginStep
<1>3. CASE UNCHANGED flashVars
  BY <1>3 DEF flashVars, FlashInv, TypeFlash, LevelKept, MaskKept, CachesKept, ChipKept, Programs, Heard
<1> QED
  BY <1>1, <1>2, <1>3, CpuStep, WindowStep, SpiStep DEF FlashNext

(* The position of the operation accounts for everything it has taken      *)
(* away, in every state the driver and the interrupts can reach            *)
(* (flash/src/lib.rs with_cache_off, spi1.rs, kernel/src/interrupt.rs).    *)
THEOREM FlashAccounted == FlashSpec => []FlashInv
  BY InitFlashInv, NextFlashInv, PTL DEF FlashSpec

(* While the caches are off nothing fetches from flash; every way out of   *)
(* with_cache_off restores caches, cores, interrupts and SPI1; no program  *)
(* reaches a chip that does not listen or wraps in its page, and none, nor *)
(* an erase, goes unheeded unless an erase has been given in continuous    *)
(* reading (spi1.rs unlock, write, erase_sector).                          *)
THEOREM FlashIsSafe == FlashSpec => []FlashSafe
<1>1. FlashInv => FlashSafe
  BY DEF FlashInv, TypeFlash, LevelKept, MaskKept, CachesKept, Raised, Driving, Uncached, InSpi,
         FlashSafe, CacheWindow, NoFetchWithoutCache, WindowClosed, ChipNeverMisused
<1> QED
  BY <1>1, FlashAccounted, PTL

(***************************************************************************)
(* The WPA2 station.                                                       *)
(***************************************************************************)

Ptks == Pmks \X Nat \X Nat
Frames == [msg : 1 .. 4, nonce : Nat, replay : Nat, mic : Ptks \cup {NoPtk}, gtk : {"gtk", "none"}]
Supplicants == [state : SupStates, pmk : Pmks, anonce : Nat, snonce : Nat, replay : Nat]

(* The full types; a set that stands for an option has one member at most. *)
TypesInv ==
  /\ staged \subseteq Pmks /\ \A p, q \in staged : p = q
  /\ sup \subseteq Supplicants /\ \A s, t \in sup : s = t
  /\ pendingKeys \subseteq Ptks /\ \A k, l \in pendingKeys : k = l
  /\ snonces \in Nat /\ txq \in Seq(Frames) /\ air \subseteq Frames
  /\ ap \in [assoc : Nat, ptk : Ptks \cup {NoPtk}, resends : Nat, done : BOOLEAN]
  /\ installs \in Seq(Ptks) /\ fourLost \in BOOLEAN

(* Every key there is was made with an SNonce drawn so far.                *)
Drawn(k) == k # NoPtk => k[3] <= snonces
NoncesDrawn ==
  /\ \A f \in air : Drawn(f.mic)
  /\ \A i \in 1 .. Len(txq) : Drawn(txq[i].mic) /\ txq[i].msg \in {2, 4}
  /\ Drawn(ap.ptk)
  /\ \A k \in pendingKeys : Drawn(k)
  /\ \A i \in 1 .. Len(installs) : Drawn(installs[i])

(* The access point derived this key: for this association, or for an      *)
(* earlier one.                                                            *)
ApHas(k) == k[1] = ApPmk /\ k[2] <= ap.assoc /\ (k[2] = ap.assoc => k = ap.ptk)
KeysOfAp ==
  /\ ap.ptk # NoPtk => ap.ptk[1] = ApPmk /\ ap.ptk[2] = ap.assoc
  /\ \A f \in air : f.msg = 3 => f.mic # NoPtk /\ ApHas(f.mic)
  /\ \A k \in pendingKeys : ApHas(k)
  /\ \A i \in 1 .. Len(installs) : ApHas(installs[i])

(* An SNonce is used up by the key that waits or was installed with it.    *)
NoncesFresh ==
  /\ \A i, j \in 1 .. Len(installs) : installs[i][3] = installs[j][3] => i = j
  /\ \A k \in pendingKeys : \A i \in 1 .. Len(installs) : installs[i][3] # k[3]
  /\ \A s \in sup : s.state = "AwaitingThree" =>
       /\ \A i \in 1 .. Len(installs) : installs[i][3] # s.snonce
       /\ \A k \in pendingKeys : k[3] # s.snonce

(* While message 2 has not left, nobody else has its key; and the key that *)
(* waits does so for the message 4 at the head of the queue, unless the    *)
(* radio refused that message.                                             *)
TwoNotSeen ==
  \A s \in sup : s.state = "AwaitingThree" /\ txq # <<>> =>
    /\ ap.ptk # PtkOf(s)
    /\ \A f \in air : f.mic # PtkOf(s)
    /\ \A i \in 1 .. Len(txq) - 1 : txq[i].mic # PtkOf(s)
FourIsNext ==
  ~fourLost => \A k \in pendingKeys : txq # <<>> /\ txq[1].msg = 4 /\ txq[1].mic = k

WpaInv == TypesInv /\ NoncesDrawn /\ KeysOfAp /\ NoncesFresh /\ TwoNotSeen /\ FourIsNext

(***************************************************************************)
(* Keys and frames.                                                        *)
(***************************************************************************)

(* No derived key is the mark for the lack of one. *)
LEMMA KeysAreKeys == \A k \in Ptks : k # NoPtk /\ k[1] \in Pmks /\ k[2] \in Nat /\ k[3] \in Nat
  BY DEF Ptks, NoPtk

LEMMA PtkOfType ==
  ASSUME NEW s \in Supplicants
  PROVE  /\ PtkOf(s) \in Ptks /\ PtkOf(s)[1] = s.pmk
         /\ PtkOf(s)[2] = s.anonce /\ PtkOf(s)[3] = s.snonce
  BY DEF PtkOf, ptk, Ptks, Supplicants

LEMMA ReplyType ==
  ASSUME NEW s \in Supplicants, NEW m \in {2, 4}, NEW r \in Nat
  PROVE  /\ build_reply(m, s, r) \in Frames
         /\ build_reply(m, s, r).msg = m /\ build_reply(m, s, r).mic = PtkOf(s)
<1>1. PtkOf(s) \in Ptks \cup {NoPtk}
  BY PtkOfType
<1>2. s.snonce \in Nat
  BY DEF Supplicants
<1> QED
  BY <1>1, <1>2 DEF build_reply, Frame, Frames

(* The radio queues message 4, or it is lost. *)
LEMMA RadioTakes ==
  ASSUME NEW f, NEW sent \in BOOLEAN, esp_wifi_internal_tx(f, sent), fourLost' = ~sent
  PROVE  \/ fourLost' = FALSE /\ txq' = Append(txq, f)
         \/ fourLost' = TRUE /\ txq' = txq
<1>1. CASE sent = TRUE
  BY <1>1 DEF esp_wifi_internal_tx
<1>2. CASE sent = FALSE
  BY <1>2 DEF esp_wifi_internal_tx
<1> QED
  BY <1>1, <1>2

(***************************************************************************)
(* The invariant.                                                          *)
(***************************************************************************)

LEMMA InitWpaInv == WpaInit => WpaInv
<1> SUFFICES ASSUME WpaInit PROVE WpaInv
  OBVIOUS
<1>1. TypesInv
  <2>1. fourLost \in BOOLEAN
    BY DEF WpaInit
  <2> QED
    BY <2>1 DEF WpaInit, TypesInv
<1>2. NoncesDrawn /\ KeysOfAp /\ NoncesFresh /\ TwoNotSeen /\ FourIsNext
  BY DEF WpaInit, NoncesDrawn, Drawn, KeysOfAp, NoncesFresh, TwoNotSeen, FourIsNext
<1> QED
  BY <1>1, <1>2 DEF WpaInv

(* What is known of the invariant when the keys, the queue and the access  *)
(* point stay as they are.                                                 *)
LEMMA StagePreserves ==
  ASSUME WpaInv, NEW p \in Pmks, stage_credentials(p) PROVE WpaInv'
  BY DEF stage_credentials, WpaInv, TypesInv, NoncesDrawn, Drawn, KeysOfAp, ApHas, NoncesFresh,
         TwoNotSeen, FourIsNext

LEMMA DisconnectPreserves ==
  ASSUME WpaInv, sta_disconnected PROVE WpaInv'
  BY DEF sta_disconnected, WpaInv, TypesInv, NoncesDrawn, Drawn, KeysOfAp, ApHas, NoncesFresh,
         TwoNotSeen, FourIsNext

(* A new association: every key so far is one of an earlier one. *)
LEMMA ConnectPreserves ==
  ASSUME WpaInv, sta_connect PROVE WpaInv'
<1> DEFINE New(p) == [state |-> "Idle", pmk |-> p, anonce |-> 0, snonce |-> 0, replay |-> 0]
<1>1. /\ sup' = {New(p) : p \in staged} /\ pendingKeys' = {} /\ fourLost' = FALSE
      /\ UNCHANGED <<staged, snonces, txq, air, installs>>
      /\ ap' = [assoc |-> ap.assoc + 1, ptk |-> NoPtk, resends |-> 0, done |-> FALSE]
  BY DEF sta_connect
<1>2. ap'.assoc = ap.assoc + 1 /\ ap'.ptk = NoPtk /\ ap.assoc \in Nat
  BY <1>1 DEF WpaInv, TypesInv
<1>3. \A s \in sup' : s \in Supplicants /\ s.state = "Idle"
  BY <1>1 DEF Supplicants, SupStates, WpaInv, TypesInv
<1>4. \A s, t \in sup' : s = t
  BY <1>1 DEF WpaInv, TypesInv
<1>5. ap' \in [assoc : Nat, ptk : Ptks \cup {NoPtk}, resends : Nat, done : BOOLEAN]
  BY <1>1, <1>2
<1>6. TypesInv'
  BY <1>1, <1>3, <1>4, <1>5 DEF WpaInv, TypesInv
<1>7. NoncesDrawn'
  BY <1>1, <1>2 DEF WpaInv, NoncesDrawn, Drawn
<1>8. ASSUME NEW k \in Ptks, ApHas(k) PROVE ApHas(k)'
  BY <1>2, <1>8, KeysAreKeys DEF ApHas
<1>9. KeysOfAp'
  <2>1. \A f \in air : f.mic \in Ptks \cup {NoPtk}
    BY DEF WpaInv, TypesInv, Frames
  <2>2. \A i \in 1 .. Len(installs) : installs[i] \in Ptks
    BY DEF WpaInv, TypesInv
  <2> QED
    BY <1>1, <1>2, <1>8, <2>1, <2>2 DEF WpaInv, KeysOfAp
<1>10. NoncesFresh' /\ TwoNotSeen' /\ FourIsNext'
  BY <1>1, <1>3 DEF WpaInv, NoncesFresh, TwoNotSeen, FourIsNext
<1> QED
  BY <1>6, <1>7, <1>9, <1>10 DEF WpaInv

(* Message 1: the new SNonce is in no key yet. *)
LEMMA OnePreserves ==
  ASSUME WpaInv, NEW f \in air, NEW s \in sup, f.msg = 1, on_message_one(s, f),
         UNCHANGED <<staged, air, ap, installs>>
  PROVE  WpaInv'
<1> PICK t : t = [s EXCEPT !.anonce = f.nonce, !.snonce = snonces + 1, !.replay = f.replay,
                           !.state = "AwaitingThree"]
  OBVIOUS
<1> PICK r : r = build_reply(2, t, f.replay)
  OBVIOUS
<1>1. /\ snonces' = snonces + 1 /\ sup' = {t} /\ txq' \in {Append(txq, r), txq}
      /\ UNCHANGED <<pendingKeys, staged, air, ap, fourLost, installs>>
  BY DEF on_message_one, esp_wifi_internal_tx
<1>2. s \in Supplicants /\ f.nonce \in Nat /\ f.replay \in Nat /\ snonces \in Nat
  BY DEF WpaInv, TypesInv, Frames
<1>3. t \in Supplicants /\ t.snonce = snonces + 1 /\ t.state = "AwaitingThree"
  <2>1. t = [state |-> "AwaitingThree", pmk |-> s.pmk, anonce |-> f.nonce,
             snonce |-> snonces + 1, replay |-> f.replay]
    BY <1>2 DEF Supplicants
  <2>2. s.pmk \in Pmks /\ snonces + 1 \in Nat
    BY <1>2 DEF Supplicants
  <2>3. t \in Supplicants
    BY <1>2, <2>1, <2>2 DEF Supplicants, SupStates
  <2> QED
    BY <2>1, <2>3
<1>4. r \in Frames /\ r.msg = 2 /\ r.mic = PtkOf(t)
  BY <1>2, <1>3, ReplyType
<1>5. PtkOf(t) \in Ptks /\ PtkOf(t)[3] = snonces + 1 /\ PtkOf(t) # NoPtk
  BY <1>3, PtkOfType, KeysAreKeys
<1>6. /\ txq \in Seq(Frames) /\ txq' \in Seq(Frames) /\ Len(txq) \in Nat
      /\ \A i \in 1 .. Len(txq) : txq'[i] = txq[i]
      /\ Len(txq') = Len(txq) \/ (Len(txq') = Len(txq) + 1 /\ txq'[Len(txq) + 1] = r)
  <2>1. txq \in Seq(Frames)
    BY DEF WpaInv, TypesInv
  <2>2. CASE txq' = txq
    BY <2>1, <2>2
  <2>3. CASE txq' = Append(txq, r)
    BY <1>4, <2>1, <2>3
  <2> QED
    BY <1>1, <2>2, <2>3
<1>7. TypesInv'
  BY <1>1, <1>2, <1>3, <1>6 DEF WpaInv, TypesInv
<1>8. ASSUME NEW k \in Ptks \cup {NoPtk}, Drawn(k) PROVE Drawn(k)' /\ k # PtkOf(t) /\ (k \in Ptks => k[3] # t.snonce)
  BY <1>1, <1>2, <1>3, <1>5, <1>8, KeysAreKeys DEF Drawn
<1>9. /\ \A g \in air : g.mic \in Ptks \cup {NoPtk}
      /\ \A i \in 1 .. Len(installs) : installs[i] \in Ptks
      /\ ap.ptk \in Ptks \cup {NoPtk} /\ pendingKeys \subseteq Ptks
  BY DEF WpaInv, TypesInv, Frames
<1>10. \A i \in 1 .. Len(txq) : txq[i].mic \in Ptks \cup {NoPtk}
  <2>1. \A i \in 1 .. Len(txq) : txq[i] \in Frames
    BY <1>6
  <2> QED
    BY <2>1 DEF Frames
<1>11. Drawn(r.mic)'
  BY <1>1, <1>2, <1>4, <1>5 DEF Drawn
<1>12. NoncesDrawn'
  <2>1. ASSUME NEW i \in 1 .. Len(txq')
        PROVE  (txq'[i].mic # NoPtk => txq'[i].mic[3] <= snonces') /\ txq'[i].msg \in {2, 4}
    <3>1. CASE i = Len(txq) + 1 /\ txq'[i] = r
      BY <3>1, <1>4, <1>6, <1>11 DEF Drawn
    <3>2. CASE i \in 1 .. Len(txq)
      <4>1. Drawn(txq[i].mic) /\ txq[i].msg \in {2, 4} /\ txq'[i] = txq[i]
        BY <3>2, <1>6 DEF WpaInv, NoncesDrawn
      <4>2. txq[i].mic \in Ptks \cup {NoPtk}
        BY <3>2, <1>10
      <4>3. txq[i].mic # NoPtk => txq[i].mic[3] <= snonces + 1
        BY <1>2, <4>1, <4>2, KeysAreKeys DEF Drawn
      <4> QED
        BY <1>1, <4>1, <4>3
    <3> QED
      BY <3>1, <3>2, <1>6
  <2>2. \A g \in air : Drawn(g.mic)'
    BY <1>8, <1>9 DEF WpaInv, NoncesDrawn
  <2>3. Drawn(ap.ptk)' /\ \A k \in pendingKeys : Drawn(k)'
    BY <1>1, <1>8, <1>9 DEF WpaInv, NoncesDrawn, Drawn
  <2>4. \A i \in 1 .. Len(installs) : Drawn(installs[i])'
    BY <1>1, <1>8, <1>9 DEF WpaInv, NoncesDrawn, Drawn
  <2> QED
    BY <1>1, <2>1, <2>2, <2>3, <2>4 DEF NoncesDrawn, Drawn
<1>13. KeysOfAp'
  BY <1>1 DEF WpaInv, KeysOfAp, ApHas
<1>14. NoncesFresh'
  BY <1>1, <1>3, <1>8, <1>9 DEF WpaInv, NoncesFresh, NoncesDrawn
<1>15. TwoNotSeen'
  <2>1. \A i \in 1 .. Len(txq') - 1 : txq'[i].mic # PtkOf(t)
    BY <1>6, <1>8, <1>10 DEF WpaInv, NoncesDrawn
  <2>2. ap.ptk # PtkOf(t) /\ \A g \in air : g.mic # PtkOf(t)
    BY <1>8, <1>9 DEF WpaInv, NoncesDrawn
  <2> QED
    BY <1>1, <2>1, <2>2 DEF TwoNotSeen
<1>16. FourIsNext'
  <2>1. txq # <<>> => txq' # <<>> /\ txq'[1] = txq[1]
    BY <1>6
  <2> QED
    BY <1>1, <2>1 DEF WpaInv, FourIsNext
<1> QED
  BY <1>7, <1>12, <1>13, <1>14, <1>15, <1>16 DEF WpaInv

(* Message 3: its MIC shows that message 2 has left, so that nothing else  *)
(* waits in the queue.                                                     *)
LEMMA ThreePreserves ==
  ASSUME WpaInv, NEW f \in air, NEW s \in sup, f.msg = 3, on_message_three(s, f),
         UNCHANGED <<staged, air, ap, installs>>
  PROVE  WpaInv'
<1> DEFINE bad == [s EXCEPT !.state = "Failed"]
           good == [s EXCEPT !.state = "Complete", !.replay = f.replay]
           r == build_reply(4, s, f.replay)
<1>1. s \in Supplicants /\ f.replay \in Nat /\ sup = {s} /\ UNCHANGED snonces
  <2>1. s \in Supplicants /\ f \in Frames /\ sup = {s}
    BY DEF WpaInv, TypesInv
  <2>2. f.replay \in Nat
    BY <2>1 DEF Frames
  <2> QED
    BY <2>1, <2>2 DEF on_message_three
<1>2. CASE UNCHANGED <<sup, txq, pendingKeys, fourLost>>
  <2>1. TypesInv' /\ NoncesDrawn' /\ KeysOfAp'
    BY <1>1, <1>2 DEF WpaInv, TypesInv, NoncesDrawn, Drawn, KeysOfAp, ApHas
  <2>2. NoncesFresh' /\ TwoNotSeen' /\ FourIsNext'
    BY <1>1, <1>2 DEF WpaInv, NoncesFresh, TwoNotSeen, FourIsNext
  <2> QED
    BY <2>1, <2>2 DEF WpaInv
<1>3. CASE sup' = {bad} /\ UNCHANGED <<txq, pendingKeys, fourLost>>
  <2>1. bad \in Supplicants /\ bad.state = "Failed"
    BY <1>1 DEF Supplicants, SupStates
  <2> QED
    BY <1>1, <1>3, <2>1 DEF WpaInv, TypesInv, NoncesDrawn, Drawn, KeysOfAp, ApHas, NoncesFresh,
                            TwoNotSeen, FourIsNext
<1>4. ASSUME NEW sent \in BOOLEAN, s.state = "AwaitingThree", f.mic = PtkOf(s),
             sup' = {good}, esp_wifi_internal_tx(r, sent), fourLost' = ~sent,
             pendingKeys' = {PtkOf(s)}
      PROVE  WpaInv'
  <2>1. good \in Supplicants /\ good.state = "Complete"
    BY <1>1 DEF Supplicants, SupStates
  <2> HIDE DEF good
  <2>2. r \in Frames /\ r.msg = 4 /\ r.mic = PtkOf(s)
    BY <1>1, ReplyType
  <2> HIDE DEF r
  <2>3. PtkOf(s) \in Ptks /\ PtkOf(s)[3] = s.snonce
    BY <1>1, PtkOfType
  <2>4. txq = <<>>
    BY <1>4 DEF WpaInv, TwoNotSeen
  <2>5. /\ fourLost' \in BOOLEAN /\ txq' \in Seq({r})
        /\ ~fourLost' => txq' # <<>> /\ txq'[1] = r
    <3>1. CASE fourLost' = FALSE /\ txq' = Append(txq, r)
      <4>1. txq' = <<r>>
        BY <2>4, <3>1
      <4>2. txq' \in Seq({r}) /\ txq' # <<>> /\ txq'[1] = r
        BY <4>1
      <4> QED
        BY <3>1, <4>2
    <3>2. CASE fourLost' = TRUE /\ txq' = txq
      <4>1. txq' \in Seq({r})
        BY <2>4, <3>2
      <4> QED
        BY <3>2, <4>1
    <3> QED
      BY <1>4, <3>1, <3>2, RadioTakes
  <2>6. TypesInv'
    BY <1>1, <1>4, <2>1, <2>2, <2>3, <2>5 DEF WpaInv, TypesInv
  <2>7. NoncesDrawn'
    BY <1>1, <1>4, <2>2, <2>5 DEF WpaInv, NoncesDrawn, Drawn
  <2>8. KeysOfAp'
    BY <1>4 DEF WpaInv, KeysOfAp, ApHas
  <2>9. NoncesFresh'
    BY <1>4, <2>1, <2>3 DEF WpaInv, NoncesFresh
  <2>10. TwoNotSeen'
    BY <1>4, <2>1 DEF TwoNotSeen
  <2>11. FourIsNext'
    BY <1>4, <2>2, <2>5 DEF FourIsNext
  <2> QED
    BY <2>6, <2>7, <2>8, <2>9, <2>10, <2>11 DEF WpaInv
<1> QED
  BY <1>2, <1>3, <1>4 DEF on_message_three

(* A frame leaves: it was the message 4 of the key that waited, if one did. *)
LEMMA TxDonePreserves ==
  ASSUME WpaInv, eapol_tx_done PROVE WpaInv'
<1> DEFINE h == txq[1]
<1>1. /\ txq # <<>> /\ txq' = Tail(txq) /\ air' = air \cup {h}
      /\ pendingKeys' = {} /\ fourLost' = FALSE
      /\ UNCHANGED <<staged, sup, snonces, ap>>
  BY DEF eapol_tx_done, WpaInv, TypesInv
<1>2. /\ txq \in Seq(Frames) /\ Len(txq) \in Nat \ {0} /\ h \in Frames /\ txq' \in Seq(Frames)
      /\ Len(txq') = Len(txq) - 1
      /\ \A i \in 1 .. Len(txq') : txq'[i] = txq[i + 1]
  BY <1>1 DEF WpaInv, TypesInv
<1>3. h.msg \in {2, 4} /\ Drawn(h.mic) /\ (Len(txq) > 1 => 1 \in 1 .. Len(txq) - 1)
  BY <1>2 DEF WpaInv, NoncesDrawn
<1> HIDE DEF h
<1>4. CASE installs' = installs
  <2>1. TypesInv'
    BY <1>1, <1>2, <1>4 DEF WpaInv, TypesInv
  <2>2. NoncesDrawn'
    BY <1>1, <1>2, <1>3, <1>4 DEF WpaInv, NoncesDrawn, Drawn
  <2>3. KeysOfAp' /\ NoncesFresh' /\ FourIsNext'
    BY <1>1, <1>3, <1>4 DEF WpaInv, KeysOfAp, ApHas, NoncesFresh, FourIsNext
  <2>4. TwoNotSeen'
    BY <1>1, <1>2, <1>3 DEF WpaInv, TwoNotSeen, h
  <2> QED
    BY <2>1, <2>2, <2>3, <2>4 DEF WpaInv
<1>5. ASSUME NEW k \in pendingKeys, installs' = Append(installs, k) PROVE WpaInv'
  <2>1. /\ k \in Ptks /\ installs \in Seq(Ptks) /\ installs' \in Seq(Ptks) /\ Len(installs) \in Nat
        /\ Len(installs') = Len(installs) + 1
        /\ \A i \in 1 .. Len(installs) : installs'[i] = installs[i]
        /\ installs'[Len(installs) + 1] = k
    BY <1>5 DEF WpaInv, TypesInv
  <2>2. \A i \in 1 .. Len(installs') : i \in 1 .. Len(installs) \/ i = Len(installs) + 1
    BY <2>1
  <2>3. TypesInv'
    BY <1>1, <1>2, <2>1 DEF WpaInv, TypesInv
  <2>4. NoncesDrawn'
    <3>1. \A i \in 1 .. Len(installs') : installs'[i] # NoPtk => installs'[i][3] <= snonces
      <4> TAKE i \in 1 .. Len(installs')
      <4>1. CASE i \in 1 .. Len(installs)
        BY <2>1, <4>1 DEF WpaInv, NoncesDrawn, Drawn
      <4>2. CASE i = Len(installs) + 1
        BY <2>1, <4>2 DEF WpaInv, NoncesDrawn, Drawn
      <4> QED
        BY <2>2, <4>1, <4>2
    <3> QED
      BY <1>1, <1>2, <1>3, <3>1 DEF WpaInv, NoncesDrawn, Drawn
  <2>5. KeysOfAp' /\ FourIsNext'
    <3>1. \A i \in 1 .. Len(installs') : ApHas(installs'[i])
      <4> TAKE i \in 1 .. Len(installs')
      <4>1. CASE i \in 1 .. Len(installs)
        BY <2>1, <4>1 DEF WpaInv, KeysOfAp
      <4>2. CASE i = Len(installs) + 1
        BY <2>1, <4>2 DEF WpaInv, KeysOfAp
      <4> QED
        BY <2>2, <4>1, <4>2
    <3>2. \A f \in air' : f.msg = 3 => f.mic # NoPtk /\ ApHas(f.mic)
      BY <1>1, <1>3 DEF WpaInv, KeysOfAp
    <3>3. KeysOfAp'
      BY <1>1, <3>1, <3>2 DEF WpaInv, KeysOfAp, ApHas
    <3> QED
      BY <1>1, <3>3 DEF FourIsNext
  <2>6. NoncesFresh'
    <3>1. \A i, j \in 1 .. Len(installs') : installs'[i][3] = installs'[j][3] => i = j
      <4> SUFFICES ASSUME NEW i \in 1 .. Len(installs'), NEW j \in 1 .. Len(installs'),
                          installs'[i][3] = installs'[j][3]
                   PROVE  i = j
        OBVIOUS
      <4>1. \A n \in 1 .. Len(installs) : installs'[n][3] # k[3]
        BY <2>1 DEF WpaInv, NoncesFresh
      <4>2. CASE i \in 1 .. Len(installs) /\ j \in 1 .. Len(installs)
        BY <2>1, <4>2 DEF WpaInv, NoncesFresh
      <4>3. CASE i = Len(installs) + 1 \/ j = Len(installs) + 1
        BY <2>1, <2>2, <4>1, <4>3
      <4> QED
        BY <2>2, <4>2, <4>3
    <3>2. ASSUME NEW s \in sup', s.state = "AwaitingThree", NEW i \in 1 .. Len(installs')
          PROVE  installs'[i][3] # s.snonce
      <4>1. k[3] # s.snonce /\ \A n \in 1 .. Len(installs) : installs[n][3] # s.snonce
        BY <1>1, <3>2 DEF WpaInv, NoncesFresh
      <4> QED
        BY <2>1, <2>2, <4>1
    <3> QED
      BY <1>1, <3>1, <3>2 DEF NoncesFresh
  <2>7. TwoNotSeen'
    BY <1>1, <1>2, <1>3 DEF WpaInv, TwoNotSeen, h
  <2> QED
    BY <2>3, <2>4, <2>5, <2>6, <2>7 DEF WpaInv
<1> QED
  BY <1>4, <1>5 DEF eapol_tx_done

(* The access point's steps. *)
LEMMA SendsOnePreserves ==
  ASSUME WpaInv, ApSendsOne PROVE WpaInv'
<1> DEFINE m == Frame(1, ap.assoc, 1, NoPtk, "none")
<1>1. air' = air \cup {m} /\ UNCHANGED <<staged, sup, pendingKeys, snonces, txq, ap, fourLost, installs>>
  BY DEF ApSendsOne, Send
<1>2. m \in Frames /\ m.msg = 1 /\ m.mic = NoPtk
  BY DEF Frame, Frames, WpaInv, TypesInv
<1> HIDE DEF m
<1>3. \A s \in sup : PtkOf(s) # NoPtk
  BY PtkOfType, KeysAreKeys DEF WpaInv, TypesInv
<1>4. TypesInv'
  BY <1>1, <1>2 DEF WpaInv, TypesInv
<1>5. NoncesDrawn' /\ KeysOfAp' /\ NoncesFresh' /\ FourIsNext'
  BY <1>1, <1>2 DEF WpaInv, NoncesDrawn, Drawn, KeysOfAp, ApHas, NoncesFresh, FourIsNext
<1>6. TwoNotSeen'
  BY <1>1, <1>2, <1>3 DEF WpaInv, TwoNotSeen
<1> QED
  BY <1>4, <1>5, <1>6 DEF WpaInv

(* No key of this association is about when the access point derives one.  *)
LEMMA TakesTwoPreserves ==
  ASSUME WpaInv, NEW f \in air, ApTakesTwo(f) PROVE WpaInv'
<1>1. /\ ap.ptk = NoPtk /\ f.mic = ptk(ApPmk, ap.assoc, f.nonce)
      /\ ap' = [ap EXCEPT !.ptk = f.mic]
      /\ UNCHANGED <<staged, sup, pendingKeys, snonces, txq, air, fourLost, installs>>
  BY DEF ApTakesTwo
<1>2. f.nonce \in Nat /\ ap.assoc \in Nat
  BY DEF WpaInv, TypesInv, Frames
<1>3. f.mic \in Ptks /\ f.mic[1] = ApPmk /\ f.mic[2] = ap.assoc
  BY <1>1, <1>2, WpaAssumption DEF ptk, Ptks
<1>4. /\ ap' \in [assoc : Nat, ptk : Ptks \cup {NoPtk}, resends : Nat, done : BOOLEAN]
      /\ ap'.assoc = ap.assoc /\ ap'.ptk = f.mic
  BY <1>1, <1>3 DEF WpaInv, TypesInv
<1>5. TypesInv'
  BY <1>1, <1>4 DEF WpaInv, TypesInv
<1>6. NoncesDrawn'
  BY <1>1, <1>4 DEF WpaInv, NoncesDrawn, Drawn
<1>7. ASSUME NEW k \in Ptks, ApHas(k) PROVE ApHas(k)'
  BY <1>1, <1>4, <1>7, KeysAreKeys DEF ApHas
<1>8. KeysOfAp'
  <2>1. /\ \A g \in air : g.mic \in Ptks \cup {NoPtk}
        /\ \A i \in 1 .. Len(installs) : installs[i] \in Ptks
        /\ pendingKeys \subseteq Ptks
    BY DEF WpaInv, TypesInv, Frames
  <2>2. ap'.ptk[1] = ApPmk /\ ap'.ptk[2] = ap'.assoc
    BY <1>3, <1>4
  <2>3. \A g \in air : g.msg = 3 => g.mic # NoPtk /\ ApHas(g.mic)'
    BY <1>7, <2>1 DEF WpaInv, KeysOfAp
  <2>4. \A i \in 1 .. Len(installs) : ApHas(installs[i])'
    BY <1>1, <1>7, <2>1 DEF WpaInv, KeysOfAp, ApHas
  <2>5. \A k \in pendingKeys : ApHas(k)'
    BY <1>7, <2>1 DEF WpaInv, KeysOfAp
  <2> QED
    BY <1>1, <2>2, <2>3, <2>4, <2>5 DEF KeysOfAp, ApHas
<1>9. NoncesFresh' /\ FourIsNext'
  BY <1>1 DEF WpaInv, NoncesFresh, FourIsNext
<1>10. TwoNotSeen'
  BY <1>1, <1>4 DEF WpaInv, TwoNotSeen
<1> QED
  BY <1>5, <1>6, <1>8, <1>9, <1>10 DEF WpaInv

LEMMA SendsThreePreserves ==
  ASSUME WpaInv, NEW g \in {"gtk", "none"}, ApSendsThree(g) PROVE WpaInv'
<1> DEFINE m == Frame(3, ap.assoc, 2 + ap.resends, ap.ptk, g)
<1>1. /\ ap.ptk # NoPtk /\ air' = air \cup {m} /\ ap' = [ap EXCEPT !.resends = @ + 1]
      /\ UNCHANGED <<staged, sup, pendingKeys, snonces, txq, fourLost, installs>>
  BY DEF ApSendsThree, Send
<1>2. m \in Frames /\ m.msg = 3 /\ m.mic = ap.ptk
  BY DEF Frame, Frames, WpaInv, TypesInv
<1> HIDE DEF m
<1>3. /\ ap' \in [assoc : Nat, ptk : Ptks \cup {NoPtk}, resends : Nat, done : BOOLEAN]
      /\ ap'.assoc = ap.assoc /\ ap'.ptk = ap.ptk /\ ap.assoc \in Nat
  BY <1>1 DEF WpaInv, TypesInv
<1>4. TypesInv'
  BY <1>1, <1>2, <1>3 DEF WpaInv, TypesInv
<1>5. NoncesDrawn' /\ NoncesFresh' /\ FourIsNext'
  BY <1>1, <1>2, <1>3 DEF WpaInv, NoncesDrawn, Drawn, NoncesFresh, FourIsNext
<1>6. KeysOfAp'
  BY <1>1, <1>2, <1>3 DEF WpaInv, KeysOfAp, ApHas
<1>7. TwoNotSeen'
  BY <1>1, <1>2, <1>3 DEF WpaInv, TwoNotSeen
<1> QED
  BY <1>4, <1>5, <1>6, <1>7 DEF WpaInv

LEMMA TakesFourPreserves ==
  ASSUME WpaInv, NEW f \in air, ApTakesFour(f) PROVE WpaInv'
<1>1. /\ ap' = [ap EXCEPT !.done = TRUE]
      /\ UNCHANGED <<staged, sup, pendingKeys, snonces, txq, air, fourLost, installs>>
  BY DEF ApTakesFour
<1>2. /\ ap' \in [assoc : Nat, ptk : Ptks \cup {NoPtk}, resends : Nat, done : BOOLEAN]
      /\ ap'.assoc = ap.assoc /\ ap'.ptk = ap.ptk
  BY <1>1 DEF WpaInv, TypesInv
<1> QED
  BY <1>1, <1>2 DEF WpaInv, TypesInv, NoncesDrawn, Drawn, KeysOfAp, ApHas, NoncesFresh,
                    TwoNotSeen, FourIsNext

LEMMA NextWpaInv == WpaInv /\ [WpaNext]_wpaVars => WpaInv'
<1> SUFFICES ASSUME WpaInv, [WpaNext]_wpaVars PROVE WpaInv'
  OBVIOUS
<1>1. ASSUME NEW f \in air, sta_rx_eapol(f) PROVE WpaInv'
  BY <1>1, OnePreserves, ThreePreserves DEF sta_rx_eapol
<1>2. CASE UNCHANGED wpaVars
  BY <1>2 DEF wpaVars, WpaInv, TypesInv, NoncesDrawn, Drawn, KeysOfAp, ApHas, NoncesFresh,
              TwoNotSeen, FourIsNext
<1> QED
  BY <1>1, <1>2, StagePreserves, ConnectPreserves, DisconnectPreserves, TxDonePreserves,
     SendsOnePreserves, TakesTwoPreserves, SendsThreePreserves, TakesFourPreserves DEF WpaNext

(***************************************************************************)
(* The theorems.                                                           *)
(***************************************************************************)

(* The keys the station installs are keys the access point derived, and    *)
(* none is installed twice, whatever frames of earlier rounds and          *)
(* associations arrive late or again and whatever frames of the station's  *)
(* own the radio refuses (lib/wpa/src/handshake.rs, supplicant.rs).        *)
THEOREM KeysOfBothSides == WpaSpec => []KeysAgree
<1>1. WpaInv => KeysAgree
  <2> SUFFICES ASSUME WpaInv PROVE KeysAgree
    OBVIOUS
  <2>1. DOMAIN installs = 1 .. Len(installs)
    BY DEF WpaInv, TypesInv
  <2>2. \A i, j \in 1 .. Len(installs) : installs[i] = installs[j] => i = j
    BY DEF WpaInv, NoncesFresh
  <2>3. \A i \in 1 .. Len(installs) :
          installs[i][1] = ApPmk /\ (installs[i][2] = ap.assoc => installs[i] = ap.ptk)
    BY DEF WpaInv, KeysOfAp, ApHas
  <2> QED
    BY <2>1, <2>2, <2>3 DEF KeysAgree
<1> QED
  BY InitWpaInv, NextWpaInv, <1>1, PTL DEF WpaSpec

(* eapol_tx_done installs a key for no frame but the message 4 of its own  *)
(* handshake, though it looks at no frame: message 3 counts only once      *)
(* message 2 has left, so that message 4 is alone in the queue.  The one   *)
(* exception is a message 4 that the radio refused, whose keys stay        *)
(* pending and are installed by the next frame to leave.                   *)
THEOREM KeysWaitForFour == WpaSpec => KeysAfterFour
<1>1. WpaInv /\ [WpaNext]_wpaVars =>
        [installs' # installs /\ ~fourLost =>
           Head(txq).msg = 4 /\ Head(txq).mic = installs'[Len(installs')]]_wpaVars
  <2> SUFFICES ASSUME WpaInv, WpaNext, installs' # installs, ~fourLost
               PROVE  Head(txq).msg = 4 /\ Head(txq).mic = installs'[Len(installs')]
    OBVIOUS
  <2>1. eapol_tx_done
    BY DEF WpaNext, stage_credentials, sta_connect, sta_disconnected, sta_rx_eapol, ApSendsOne,
           ApTakesTwo, ApSendsThree, ApTakesFour
  <2>2. PICK k \in pendingKeys : installs' = Append(installs, k)
    BY <2>1 DEF eapol_tx_done
  <2>3. installs'[Len(installs')] = k
    BY <2>2 DEF WpaInv, TypesInv
  <2>4. txq # <<>> /\ Head(txq) = txq[1] /\ txq[1].msg = 4 /\ txq[1].mic = k
    BY DEF WpaInv, FourIsNext, TypesInv
  <2> QED
    BY <2>3, <2>4
<1> QED
  BY InitWpaInv, NextWpaInv, <1>1, PTL DEF WpaSpec, KeysAfterFour

(***************************************************************************)
(* Starting both cores.                                                    *)
(***************************************************************************)

Cores2 == 0 .. 1
Words == {"0", "1", "table", "stack", "entry", "junk"}
AllSteps == {"lock", "idle", "idle1", "unlock", "reset", "drain", "hello", "exchange", "remote", "await",
             "app", "launch", "vector", "running", "current", "join", "tick", "switch", "unmask", "park"}

(* The list a core works through, and what is left of it: its end.         *)
StepsOf(c) == IF machine = "esp32" THEN IF c = 0 THEN EspSteps ELSE EspCoreOne
                                   ELSE IF c = 0 THEN PicoSteps ELSE PicoCoreOne
Entered(c) == c = 0 \/ rom.at = "entered"
EndOf(s, full) ==
  /\ s \in Seq(AllSteps) /\ Len(s) <= Len(full)
  /\ \A k \in 1 .. Len(s) : s[k] = full[k + (Len(full) - Len(s))]
OnItsList(c) == IF Entered(c) THEN EndOf(todo[c], StepsOf(c)) ELSE todo[c] = <<>>

(* Core c is under way and step s is not before it.                        *)
Done(c, s) == Entered(c) /\ \A k \in 1 .. Len(todo[c]) : todo[c][k] # s

BootTypes ==
  /\ machine \in {"rp2040", "esp32"} /\ DOMAIN todo = Cores2 /\ bootHeld \in BOOLEAN
  /\ idle \in [Cores2 -> {"none", "ready", "running"}] /\ cur \in [Cores2 -> BOOLEAN]
  /\ joined \subseteq Cores2 /\ traps \in [Cores2 -> SUBSET {"vector", "tick", "switch", "remote", "park"}]
  /\ unmasked \in [Cores2 -> BOOLEAN] /\ pending \in [Cores2 -> BOOLEAN] /\ raised \in [Cores2 -> BOOLEAN]
  /\ mail \in [in : Seq(Words), out : Seq(Words)]
  /\ rom \in [at : {"running", "reset", "hello", "listens", "entered"}, taken : Nat]
  /\ proto \in [next : 0 .. 6, exchanges : Nat, sent : BOOLEAN]

(* What the steps done so far have set.                                    *)
CoreZeroSet ==
  /\ bootHeld <=> machine = "rp2040" /\ Done(0, "lock") /\ ~Done(0, "unlock")
  /\ machine = "rp2040" => {"vector", "switch"} \subseteq traps[0]
  /\ machine = "rp2040" /\ Done(0, "idle1") => idle[1] # "none"
  /\ machine = "esp32" =>
       /\ "vector" \in traps[0] /\ (Done(0, "idle") => cur[0])
       /\ \A s \in {"tick", "switch"} : Done(0, s) => s \in traps[0]
CoreOneSet ==
  /\ Done(1, IF machine = "esp32" THEN "idle" ELSE "running") => idle[1] = "running"
  /\ Done(1, "current") => cur[1]
  /\ machine = "rp2040" /\ Done(1, "vector") => {"vector", "switch"} \subseteq traps[1]
  /\ machine = "esp32" => \A s \in {"vector", "tick", "switch"} : Done(1, s) => s \in traps[1]
JoinedIsDone == 0 \in joined /\ (1 \in joined <=> Done(1, "join"))
OpenIsDone ==
  \A c \in Cores2 : unmasked[c] => IF machine = "esp32" THEN Done(c, "unmask")
                                   ELSE Done(c, "launch") /\ "tick" \in traps[c] /\ cur[c]

(* The launch: core 1 is entered only from its ROM, after the drain, and   *)
(* the entry point is echoed by the ROM that enters it.                    *)
LaunchKept ==
  /\ \A k \in 1 .. Len(mail.in) : mail.in[k] = "entry" => rom.at = "entered"
  /\ proto.next = 6 => rom.at = "entered"
  /\ IF machine = "esp32" THEN rom.at \in {"running", "entered"} /\ proto.next = 0
     ELSE /\ proto.next = 6 <=> Done(0, "exchange")
          /\ rom.at \in {"hello", "listens", "entered"} => Done(0, "drain")
          /\ rom.at # "entered" => rom.taken <= 5

BootInv ==
  /\ BootTypes /\ \A c \in Cores2 : OnItsList(c)
  /\ CoreZeroSet /\ CoreOneSet /\ JoinedIsDone /\ OpenIsDone /\ LaunchKept
  /\ (\A c \in Cores2 : pending[c] => c \in joined) /\ stopped # "idle"

(* The end of a list without repetitions: what is at its front, and what   *)
(* is in it, is told by its length.                                        *)
Unrepeated(full) == \A i, j \in 1 .. Len(full) : full[i] = full[j] => i = j
LEMMA EndTells ==
  ASSUME NEW full \in Seq(AllSteps), Unrepeated(full), NEW s, EndOf(s, full), NEW i \in 1 .. Len(full)
  PROVE  /\ (\A k \in 1 .. Len(s) : s[k] # full[i]) <=> Len(s) <= Len(full) - i
         /\ s # <<>> => (Head(s) = full[i] <=> Len(s) = Len(full) - i + 1)
<1> DEFINE n == Len(full)
           m == Len(s)
<1>0. n \in Nat /\ m \in Nat /\ m <= n /\ s \in Seq(AllSteps)
  BY DEF EndOf
<1>1. \A k \in 1 .. m : s[k] = full[k + (n - m)] /\ k + (n - m) \in 1 .. n
  BY <1>0 DEF EndOf
<1>2. ASSUME m <= n - i, NEW k \in 1 .. m PROVE s[k] # full[i]
  BY <1>0, <1>1, <1>2 DEF Unrepeated
<1>3. ASSUME ~(m <= n - i) PROVE \E k \in 1 .. m : s[k] = full[i]
  <2>1. i - (n - m) \in 1 .. m /\ (i - (n - m)) + (n - m) = i
    BY <1>0, <1>3
  <2> QED
    BY <1>1, <2>1
<1>4. ASSUME s # <<>> PROVE Head(s) = full[i] <=> m = n - i + 1
  <2>1. 1 \in 1 .. m /\ Head(s) = s[1]
    BY <1>0, <1>4
  <2>2. Head(s) = full[1 + (n - m)] /\ 1 + (n - m) \in 1 .. n
    BY <1>1, <2>1
  <2>3. Head(s) = full[i] <=> 1 + (n - m) = i
    BY <2>2 DEF Unrepeated
  <2> QED
    BY <1>0, <2>3
<1> QED
  BY <1>2, <1>3, <1>4

(* The end of an end is an end.                                            *)
LEMMA EndGoesOn ==
  ASSUME NEW full \in Seq(AllSteps), NEW s, EndOf(s, full), s # <<>>
  PROVE  EndOf(Tail(s), full) /\ Len(Tail(s)) = Len(s) - 1
<1>1. /\ Tail(s) \in Seq(AllSteps) /\ Len(Tail(s)) = Len(s) - 1
      /\ \A k \in 1 .. Len(Tail(s)) : Tail(s)[k] = s[k + 1]
  BY DEF EndOf
<1>2. ASSUME NEW k \in 1 .. Len(Tail(s)) PROVE Tail(s)[k] = full[k + (Len(full) - Len(Tail(s)))]
  <2>1. k + 1 \in 1 .. Len(s) /\ (k + 1) + (Len(full) - Len(s)) = k + (Len(full) - Len(Tail(s)))
    BY <1>1, <1>2 DEF EndOf
  <2>2. s[k + 1] = full[(k + 1) + (Len(full) - Len(s))]
    BY <2>1 DEF EndOf
  <2> QED
    BY <1>1, <1>2, <2>1, <2>2
<1> QED
  BY <1>1, <1>2 DEF EndOf

(* The four lists name no step twice.                                      *)
LEMMA Unrepeating ==
  /\ PicoSteps \in Seq(AllSteps) /\ Len(PicoSteps) = 12 /\ Unrepeated(PicoSteps)
  /\ PicoCoreOne \in Seq(AllSteps) /\ Len(PicoCoreOne) = 6 /\ Unrepeated(PicoCoreOne)
  /\ EspSteps \in Seq(AllSteps) /\ Len(EspSteps) = 6 /\ Unrepeated(EspSteps)
  /\ EspCoreOne \in Seq(AllSteps) /\ Len(EspCoreOne) = 9 /\ Unrepeated(EspCoreOne)
<1>1. PicoSteps \in Seq(AllSteps) /\ Len(PicoSteps) = 12
  BY DEF PicoSteps, AllSteps
<1>2. Unrepeated(PicoSteps)
  BY <1>1 DEF PicoSteps, Unrepeated
<1>3. PicoCoreOne \in Seq(AllSteps) /\ Len(PicoCoreOne) = 6
  BY DEF PicoCoreOne, AllSteps
<1>4. Unrepeated(PicoCoreOne)
  BY <1>3 DEF PicoCoreOne, Unrepeated
<1>5. EspSteps \in Seq(AllSteps) /\ Len(EspSteps) = 6
  BY DEF EspSteps, AllSteps
<1>6. Unrepeated(EspSteps)
  BY <1>5 DEF EspSteps, Unrepeated
<1>7. EspCoreOne \in Seq(AllSteps) /\ Len(EspCoreOne) = 9
  BY DEF EspCoreOne, AllSteps
<1>8. Unrepeated(EspCoreOne)
  BY <1>7 DEF EspCoreOne, Unrepeated
<1> QED
  BY <1>1, <1>2, <1>3, <1>4, <1>5, <1>6, <1>7, <1>8

(* The list of a core is one of them.                                        *)
LEMMA ListsAre ==
  ASSUME NEW c \in Cores2
  PROVE  StepsOf(c) \in Seq(AllSteps) /\ Unrepeated(StepsOf(c))
  BY Unrepeating DEF StepsOf

(* A core that has taken step x has done x and what it had done before.    *)
LEMMA GoesDone ==
  ASSUME NEW c \in Cores2, NEW x, DOMAIN todo = Cores2, OnItsList(c), Before(c, x), Goes(c),
         Entered(c)' = Entered(c), machine' = machine
  PROVE  /\ OnItsList(c)' /\ Entered(c) /\ ~Done(c, x)
         /\ \A y : Done(c, y)' <=> Done(c, y) \/ y = x
         /\ \A d \in Cores2 \ {c} : todo'[d] = todo[d]
<1>1. todo[c] # <<>> /\ Head(todo[c]) = x /\ Entered(c) /\ EndOf(todo[c], StepsOf(c))
  BY DEF Before, OnItsList
<1>2. todo' = [todo EXCEPT ![c] = Tail(todo[c])]
  BY DEF Goes
<1>2a. todo'[c] = Tail(todo[c]) /\ \A d \in Cores2 \ {c} : todo'[d] = todo[d]
  BY <1>2
<1>3. StepsOf(c)' = StepsOf(c)
  BY DEF StepsOf
<1>4. EndOf(Tail(todo[c]), StepsOf(c)) /\ Len(Tail(todo[c])) = Len(todo[c]) - 1
  BY <1>1, ListsAre, EndGoesOn
<1>5. OnItsList(c)'
  BY <1>1, <1>2a, <1>3, <1>4 DEF OnItsList, EndOf
<1> DEFINE s == todo[c]
           full == StepsOf(c)
<1>6. s \in Seq(AllSteps) /\ full \in Seq(AllSteps) /\ Unrepeated(full)
  BY <1>1, ListsAre DEF EndOf
<1>7. /\ s[1] = x /\ Len(s) > 0
      /\ \A k \in 1 .. Len(Tail(s)) : Tail(s)[k] = s[k + 1] /\ k + 1 \in 1 .. Len(s)
  BY <1>1, <1>4, <1>6
<1>8. ASSUME NEW k \in 1 .. Len(s), k # 1 PROVE s[k] # x
  <2> DEFINE gone == Len(full) - Len(s)
  <2>1. s[k] = full[k + gone] /\ s[1] = full[1 + gone] /\ Len(s) <= Len(full)
    BY <1>1, <1>7, <1>8 DEF EndOf
  <2>2. k + gone \in 1 .. Len(full) /\ 1 + gone \in 1 .. Len(full) /\ k + gone # 1 + gone
    BY <1>6, <1>7, <1>8, <2>1
  <2> HIDE DEF gone
  <2> QED
    BY <1>6, <1>7, <2>1, <2>2 DEF Unrepeated
<1>8a. ASSUME NEW k \in 1 .. Len(s), k # 1 PROVE k - 1 \in 1 .. Len(Tail(s)) /\ Tail(s)[k - 1] = s[k]
  BY <1>4, <1>6, <1>7, <1>8a
<1>9. ASSUME NEW y PROVE Done(c, y)' <=> Done(c, y) \/ y = x
  <2>1. Done(c, y)' <=> \A k \in 1 .. Len(Tail(s)) : Tail(s)[k] # y
    BY <1>1, <1>2a DEF Done
  <2>2. Done(c, y) <=> \A k \in 1 .. Len(s) : s[k] # y
    BY <1>1 DEF Done
  <2>3. ASSUME y = x PROVE \A k \in 1 .. Len(Tail(s)) : Tail(s)[k] # y
    <3>1. \A k \in 1 .. Len(Tail(s)) : k + 1 # 1
      BY <1>4, <1>6
    <3> QED
      BY <1>7, <1>8, <2>3, <3>1
  <2>4. ASSUME \A k \in 1 .. Len(s) : s[k] # y PROVE \A k \in 1 .. Len(Tail(s)) : Tail(s)[k] # y
    BY <1>7, <2>4
  <2>5. ASSUME y # x, NEW k \in 1 .. Len(s), s[k] = y PROVE \E l \in 1 .. Len(Tail(s)) : Tail(s)[l] = y
    BY <1>7, <1>8a, <2>5
  <2> QED
    BY <2>1, <2>2, <2>3, <2>4, <2>5
<1>10. ~Done(c, x)
  BY <1>6, <1>7 DEF Done
<1> QED
  BY <1>1, <1>2a, <1>5, <1>9, <1>10

(* The steps are done in the order of the list.                            *)
LEMMA InOrder ==
  ASSUME NEW c \in Cores2, OnItsList(c), Entered(c)
  PROVE  \A i, j \in 1 .. Len(StepsOf(c)) : i < j =>
           /\ Done(c, StepsOf(c)[j]) => Done(c, StepsOf(c)[i])
           /\ Before(c, StepsOf(c)[j]) => Done(c, StepsOf(c)[i]) /\ ~Done(c, StepsOf(c)[j])
<1> DEFINE s == todo[c]
           full == StepsOf(c)
<1>a. full \in Seq(AllSteps) /\ Unrepeated(full) /\ EndOf(s, full)
  BY ListsAre DEF OnItsList
<1>b. s \in Seq(AllSteps) /\ Len(full) \in Nat /\ Len(s) \in Nat /\ Len(s) <= Len(full)
  BY <1>a DEF EndOf
<1>0. /\ full \in Seq(AllSteps) /\ Unrepeated(full) /\ EndOf(s, full)
      /\ s \in Seq(AllSteps) /\ Len(full) \in Nat /\ Len(s) \in Nat /\ Len(s) <= Len(full)
  BY <1>a, <1>b
<1>1. ASSUME NEW i \in 1 .. Len(full)
      PROVE  /\ Done(c, full[i]) <=> Len(s) <= Len(full) - i
             /\ Before(c, full[i]) => Len(s) = Len(full) - i + 1
  <2>1. /\ (\A k \in 1 .. Len(s) : s[k] # full[i]) <=> Len(s) <= Len(full) - i
        /\ s # <<>> => (Head(s) = full[i] <=> Len(s) = Len(full) - i + 1)
    <3> HIDE DEF s, full
    <3> QED
      BY <1>0, <1>1, EndTells
  <2> QED
    BY <2>1 DEF Done, Before
<1>2. ASSUME NEW i \in 1 .. Len(full), NEW j \in 1 .. Len(full), i < j
      PROVE  /\ Done(c, full[j]) => Done(c, full[i])
             /\ Before(c, full[j]) => Done(c, full[i]) /\ ~Done(c, full[j])
  BY <1>0, <1>1, <1>2
<1> QED
  BY <1>2

(* A core is before a step of its list.                                    *)
LEMMA OnTheList ==
  ASSUME NEW c \in Cores2, OnItsList(c), Entered(c), NEW x, Before(c, x)
  PROVE  \E i \in 1 .. Len(StepsOf(c)) : x = StepsOf(c)[i]
<1> DEFINE s == todo[c]
           full == StepsOf(c)
<1>a. full \in Seq(AllSteps) /\ Unrepeated(full) /\ EndOf(s, full)
  BY ListsAre DEF OnItsList
<1>b. s \in Seq(AllSteps) /\ Len(full) \in Nat /\ Len(s) \in Nat /\ Len(s) <= Len(full)
  BY <1>a DEF EndOf
<1>0. /\ full \in Seq(AllSteps) /\ Unrepeated(full) /\ EndOf(s, full)
      /\ s \in Seq(AllSteps) /\ Len(full) \in Nat /\ Len(s) \in Nat /\ Len(s) <= Len(full)
  BY <1>a, <1>b
<1>3. s # <<>> /\ Head(s) = x
  BY DEF Before
<1>3a. 1 \in 1 .. Len(s) /\ x = s[1]
  BY <1>0, <1>3
<1>4. 1 \in 1 .. Len(s) /\ x = s[1] /\ s[1] = full[1 + (Len(full) - Len(s))]
  BY <1>0, <1>3a DEF EndOf
<1>5. 1 + (Len(full) - Len(s)) \in 1 .. Len(full)
  BY <1>0, <1>4
<1> QED
  BY <1>4, <1>5

(* The orders the argument uses, list by list.                             *)
LEMMA PicoZeroOrder ==
  ASSUME machine = "rp2040", OnItsList(0)
  PROVE  /\ \A x : Before(0, x) => x \in {"lock", "idle", "idle1", "unlock", "reset", "drain", "hello", "exchange",
                                         "remote", "await", "app", "launch"}
         /\ Done(0, "unlock") => Done(0, "idle1") /\ Done(0, "lock")
         /\ Done(0, "drain") => Done(0, "idle1") /\ Done(0, "unlock")
         /\ Done(0, "exchange") => Done(0, "drain")
         /\ Before(0, "lock") => ~Done(0, "lock") /\ ~Done(0, "unlock")
         /\ Before(0, "idle1") => ~Done(0, "drain")
         /\ Before(0, "reset") => ~Done(0, "drain")
         /\ Before(0, "drain") => ~Done(0, "drain")
         /\ Before(0, "exchange") => Done(0, "drain") /\ ~Done(0, "exchange")
         /\ Before(0, "await") => Done(0, "exchange")
<1>1. Entered(0) /\ 0 \in Cores2 /\ StepsOf(0) = PicoSteps /\ Len(PicoSteps) = 12
  BY Unrepeating DEF Entered, Cores2, StepsOf
<1>2. /\ PicoSteps[1] = "lock" /\ PicoSteps[2] = "idle" /\ PicoSteps[3] = "idle1"
      /\ PicoSteps[4] = "unlock" /\ PicoSteps[5] = "reset" /\ PicoSteps[6] = "drain"
      /\ PicoSteps[7] = "hello" /\ PicoSteps[8] = "exchange" /\ PicoSteps[9] = "remote"
      /\ PicoSteps[10] = "await" /\ PicoSteps[11] = "app" /\ PicoSteps[12] = "launch"
  BY DEF PicoSteps
<1>3. \A i, j \in 1 .. 12 : i < j => /\ Done(0, PicoSteps[j]) => Done(0, PicoSteps[i])
                                     /\ Before(0, PicoSteps[j]) => Done(0, PicoSteps[i]) /\ ~Done(0, PicoSteps[j])
  BY <1>1, InOrder
<1>3a. \A x : Before(0, x) => \E i \in 1 .. 12 : x = PicoSteps[i]
  BY <1>1, OnTheList
<1>4. \A x : Before(0, x) => x \in {"lock", "idle", "idle1", "unlock", "reset", "drain", "hello", "exchange",
                                    "remote", "await", "app", "launch"}
  BY <1>2, <1>3a
<1>5. /\ Done(0, PicoSteps[4]) => Done(0, PicoSteps[3]) /\ Done(0, PicoSteps[1])
      /\ Done(0, PicoSteps[6]) => Done(0, PicoSteps[3]) /\ Done(0, PicoSteps[4])
      /\ Done(0, PicoSteps[8]) => Done(0, PicoSteps[6]) 
      /\ Before(0, PicoSteps[8]) => Done(0, PicoSteps[6]) /\ ~Done(0, PicoSteps[8])
      /\ Before(0, PicoSteps[10]) => Done(0, PicoSteps[8])
      /\ Before(0, PicoSteps[3]) => ~Done(0, PicoSteps[3])
      /\ Before(0, PicoSteps[5]) => ~Done(0, PicoSteps[5])
      /\ Before(0, PicoSteps[6]) => ~Done(0, PicoSteps[6])
      /\ Done(0, PicoSteps[6]) => Done(0, PicoSteps[5])
  <2>1. Done(0, PicoSteps[4]) => Done(0, PicoSteps[3]) /\ Done(0, PicoSteps[1])
    BY <1>3
  <2>2. Done(0, PicoSteps[6]) => Done(0, PicoSteps[3]) /\ Done(0, PicoSteps[4])
    BY <1>3
  <2>3. Done(0, PicoSteps[8]) => Done(0, PicoSteps[6])
    BY <1>3
  <2>4. Before(0, PicoSteps[8]) => Done(0, PicoSteps[6]) /\ ~Done(0, PicoSteps[8])
    BY <1>3
  <2>5. Before(0, PicoSteps[10]) => Done(0, PicoSteps[8])
    BY <1>3
  <2>6. Before(0, PicoSteps[3]) => ~Done(0, PicoSteps[3])
    BY <1>3
  <2>7. Before(0, PicoSteps[5]) => ~Done(0, PicoSteps[5])
    BY <1>3
  <2>8. Before(0, PicoSteps[6]) => ~Done(0, PicoSteps[6])
    BY <1>3
  <2>9. Done(0, PicoSteps[6]) => Done(0, PicoSteps[5])
    BY <1>3
  <2> QED
    BY <2>1, <2>2, <2>3, <2>4, <2>5, <2>6, <2>7, <2>8, <2>9
<1>6. Before(0, "lock") => ~Done(0, "lock")
  <2>1. Before(0, "lock") => Head(todo[0]) = "lock" /\ todo[0] # <<>> /\ todo[0] \in Seq(AllSteps)
    BY <1>1 DEF Before, OnItsList, EndOf
  <2> QED
    BY <2>1 DEF Done
<1> QED
  BY <1>2, <1>4, <1>5, <1>6

LEMMA PicoOneOrder ==
  ASSUME machine = "rp2040", OnItsList(1)
  PROVE  /\ \A x : Before(1, x) => rom.at = "entered" /\ x \in {"vector", "running", "current", "join", "remote", "launch"}
         /\ Done(1, "join") => Done(1, "current") /\ Done(1, "running")
         /\ Before(1, "running") => ~Done(1, "current")
         /\ Before(1, "current") => Done(1, "running") /\ ~Done(1, "current")
         /\ Before(1, "join") => Done(1, "current") /\ ~Done(1, "join")
         /\ Before(1, "launch") => Done(1, "vector")
         /\ Done(1, "launch") => Done(1, "vector")
<1>0. CASE rom.at # "entered"
  BY <1>0 DEF OnItsList, Entered, Done, Before
<1>00. CASE rom.at = "entered"
  <2>1. Entered(1) /\ 1 \in Cores2 /\ StepsOf(1) = PicoCoreOne /\ Len(PicoCoreOne) = 6
    BY <1>00, Unrepeating DEF Entered, Cores2, StepsOf
  <2>2. /\ PicoCoreOne[1] = "vector" /\ PicoCoreOne[2] = "running" /\ PicoCoreOne[3] = "current"
        /\ PicoCoreOne[4] = "join" /\ PicoCoreOne[5] = "remote" /\ PicoCoreOne[6] = "launch"
    BY DEF PicoCoreOne
  <2>3. \A i, j \in 1 .. 6 : i < j => /\ Done(1, PicoCoreOne[j]) => Done(1, PicoCoreOne[i])
                                      /\ Before(1, PicoCoreOne[j]) => Done(1, PicoCoreOne[i]) /\ ~Done(1, PicoCoreOne[j])
    BY <2>1, InOrder
  <2>3a. \A x : Before(1, x) => \E i \in 1 .. 6 : x = PicoCoreOne[i]
    BY <2>1, OnTheList
  <2>4. \A x : Before(1, x) => x \in {"vector", "running", "current", "join", "remote", "launch"}
    BY <2>2, <2>3a
  <2>5. /\ Done(1, PicoCoreOne[4]) => Done(1, PicoCoreOne[3]) /\ Done(1, PicoCoreOne[2])
        /\ Before(1, PicoCoreOne[2]) => ~Done(1, PicoCoreOne[2])
        /\ Done(1, PicoCoreOne[3]) => Done(1, PicoCoreOne[2])
        /\ Before(1, PicoCoreOne[3]) => Done(1, PicoCoreOne[2]) /\ ~Done(1, PicoCoreOne[3])
        /\ Before(1, PicoCoreOne[4]) => Done(1, PicoCoreOne[3]) /\ ~Done(1, PicoCoreOne[4])
        /\ Before(1, PicoCoreOne[6]) => Done(1, PicoCoreOne[1])
        /\ Done(1, PicoCoreOne[6]) => Done(1, PicoCoreOne[1])
    <3>1. Done(1, PicoCoreOne[4]) => Done(1, PicoCoreOne[3]) /\ Done(1, PicoCoreOne[2])
      BY <2>3
    <3>2. Before(1, PicoCoreOne[2]) => ~Done(1, PicoCoreOne[2])
      BY <2>3
    <3>3. Done(1, PicoCoreOne[3]) => Done(1, PicoCoreOne[2])
      BY <2>3
    <3>4. Before(1, PicoCoreOne[3]) => Done(1, PicoCoreOne[2]) /\ ~Done(1, PicoCoreOne[3])
      BY <2>3
    <3>5. Before(1, PicoCoreOne[4]) => Done(1, PicoCoreOne[3]) /\ ~Done(1, PicoCoreOne[4])
      BY <2>3
    <3>6. Before(1, PicoCoreOne[6]) => Done(1, PicoCoreOne[1])
      BY <2>3
    <3>7. Done(1, PicoCoreOne[6]) => Done(1, PicoCoreOne[1])
      BY <2>3
    <3> QED
      BY <3>1, <3>2, <3>3, <3>4, <3>5, <3>6, <3>7
  <2> QED
    BY <1>00, <2>2, <2>4, <2>5
<1> QED
  BY <1>0, <1>00

LEMMA EspZeroOrder ==
  ASSUME machine = "esp32", OnItsList(0)
  PROVE  /\ \A x : Before(0, x) => x \in {"tick", "switch", "remote", "idle", "app", "unmask"}
         /\ Before(0, "unmask") => Done(0, "tick") /\ Done(0, "switch") /\ Done(0, "idle")
         /\ Done(0, "unmask") => Done(0, "tick") /\ Done(0, "switch") /\ Done(0, "idle")
<1>1. Entered(0) /\ 0 \in Cores2 /\ StepsOf(0) = EspSteps /\ Len(EspSteps) = 6
  BY Unrepeating DEF Entered, Cores2, StepsOf
<1>2. /\ EspSteps[1] = "tick" /\ EspSteps[2] = "switch" /\ EspSteps[3] = "remote"
      /\ EspSteps[4] = "idle" /\ EspSteps[5] = "app" /\ EspSteps[6] = "unmask"
  BY DEF EspSteps
<1>3. \A i, j \in 1 .. 6 : i < j => /\ Done(0, EspSteps[j]) => Done(0, EspSteps[i])
                                    /\ Before(0, EspSteps[j]) => Done(0, EspSteps[i]) /\ ~Done(0, EspSteps[j])
  BY <1>1, InOrder
<1>3a. \A x : Before(0, x) => \E i \in 1 .. 6 : x = EspSteps[i]
  BY <1>1, OnTheList
<1>4. \A x : Before(0, x) => x \in {"tick", "switch", "remote", "idle", "app", "unmask"}
  BY <1>2, <1>3a
<1>5. /\ Before(0, EspSteps[6]) => Done(0, EspSteps[1]) /\ Done(0, EspSteps[2]) /\ Done(0, EspSteps[4])
      /\ Done(0, EspSteps[6]) => Done(0, EspSteps[1]) /\ Done(0, EspSteps[2]) /\ Done(0, EspSteps[4])
  <2>1. Before(0, EspSteps[6]) => Done(0, EspSteps[1]) /\ Done(0, EspSteps[2]) /\ Done(0, EspSteps[4])
    BY <1>3
  <2>2. Done(0, EspSteps[6]) => Done(0, EspSteps[1]) /\ Done(0, EspSteps[2]) /\ Done(0, EspSteps[4])
    BY <1>3
  <2> QED
    BY <2>1, <2>2
<1> QED
  BY <1>2, <1>4, <1>5

LEMMA EspOneOrder ==
  ASSUME machine = "esp32", OnItsList(1)
  PROVE  /\ \A x : Before(1, x) => rom.at = "entered" /\ x \in {"vector", "idle", "current", "join", "tick", "switch",
                                                           "park", "remote", "unmask"}
         /\ Done(1, "join") => Done(1, "current") /\ Done(1, "idle")
         /\ Before(1, "current") => Done(1, "idle")
         /\ Before(1, "join") => Done(1, "current")
         /\ Done(1, "unmask") \/ Before(1, "unmask") =>
              Done(1, "vector") /\ Done(1, "tick") /\ Done(1, "switch") /\ Done(1, "current")
<1>0. CASE rom.at # "entered"
  BY <1>0 DEF OnItsList, Entered, Done, Before
<1>00. CASE rom.at = "entered"
  <2>1. Entered(1) /\ 1 \in Cores2 /\ StepsOf(1) = EspCoreOne /\ Len(EspCoreOne) = 9
    BY <1>00, Unrepeating DEF Entered, Cores2, StepsOf
  <2>2. /\ EspCoreOne[1] = "vector" /\ EspCoreOne[2] = "idle" /\ EspCoreOne[3] = "current"
        /\ EspCoreOne[4] = "join" /\ EspCoreOne[5] = "tick" /\ EspCoreOne[6] = "switch"
        /\ EspCoreOne[7] = "park" /\ EspCoreOne[8] = "remote" /\ EspCoreOne[9] = "unmask"
    BY DEF EspCoreOne
  <2>3. \A i, j \in 1 .. 9 : i < j => /\ Done(1, EspCoreOne[j]) => Done(1, EspCoreOne[i])
                                      /\ Before(1, EspCoreOne[j]) => Done(1, EspCoreOne[i]) /\ ~Done(1, EspCoreOne[j])
    BY <2>1, InOrder
  <2>3a. \A x : Before(1, x) => \E i \in 1 .. 9 : x = EspCoreOne[i]
    BY <2>1, OnTheList
  <2>4. \A x : Before(1, x) => x \in {"vector", "idle", "current", "join", "tick", "switch", "park", "remote", "unmask"}
    BY <2>2, <2>3a
  <2>5. /\ Done(1, EspCoreOne[4]) => Done(1, EspCoreOne[3]) /\ Done(1, EspCoreOne[2])
        /\ Before(1, EspCoreOne[3]) => Done(1, EspCoreOne[2])
        /\ Before(1, EspCoreOne[4]) => Done(1, EspCoreOne[3])
        /\ Before(1, EspCoreOne[9]) => Done(1, EspCoreOne[1]) /\ Done(1, EspCoreOne[5]) /\ Done(1, EspCoreOne[6]) /\ Done(1, EspCoreOne[3])
        /\ Done(1, EspCoreOne[9]) => Done(1, EspCoreOne[1]) /\ Done(1, EspCoreOne[5]) /\ Done(1, EspCoreOne[6]) /\ Done(1, EspCoreOne[3])
    <3>1. Done(1, EspCoreOne[4]) => Done(1, EspCoreOne[3]) /\ Done(1, EspCoreOne[2])
      BY <2>3
    <3>2. Before(1, EspCoreOne[3]) => Done(1, EspCoreOne[2])
      BY <2>3
    <3>3. Before(1, EspCoreOne[4]) => Done(1, EspCoreOne[3])
      BY <2>3
    <3>4. Before(1, EspCoreOne[9]) => Done(1, EspCoreOne[1]) /\ Done(1, EspCoreOne[5]) /\ Done(1, EspCoreOne[6]) /\ Done(1, EspCoreOne[3])
      BY <2>3
    <3>5. Done(1, EspCoreOne[9]) => Done(1, EspCoreOne[1]) /\ Done(1, EspCoreOne[5]) /\ Done(1, EspCoreOne[6]) /\ Done(1, EspCoreOne[3])
      BY <2>3
    <3> QED
      BY <3>1, <3>2, <3>3, <3>4, <3>5
  <2> QED
    BY <1>00, <2>2, <2>4, <2>5
<1> QED
  BY <1>0, <1>00

(* A core that takes no step keeps its place.                              *)
LEMMA StaysDone ==
  ASSUME NEW c \in Cores2, todo'[c] = todo[c], Entered(c)' = Entered(c), machine' = machine, OnItsList(c)
  PROVE  OnItsList(c)' /\ \A y : Done(c, y)' <=> Done(c, y)
<1>1. StepsOf(c)' = StepsOf(c)
  BY DEF StepsOf
<1>2. OnItsList(c)'
  BY <1>1 DEF OnItsList, EndOf
<1> QED
  BY <1>2 DEF Done

(* What the lists say, for all cores.                                      *)
Order ==
  /\ machine = "rp2040" =>
       /\ \A x : Before(0, x) => x \in {"lock", "idle", "idle1", "unlock", "reset", "drain", "hello", "exchange",
                                       "remote", "await", "app", "launch"}
       /\ \A x : Before(1, x) => rom.at = "entered" /\ x \in {"vector", "running", "current", "join", "remote", "launch"}
       /\ Done(0, "unlock") => Done(0, "idle1") /\ Done(0, "lock")
       /\ Done(0, "drain") => Done(0, "idle1") /\ Done(0, "unlock")
       /\ Done(0, "exchange") => Done(0, "drain")
       /\ Before(0, "lock") => ~Done(0, "lock") /\ ~Done(0, "unlock")
       /\ Before(0, "idle1") => ~Done(0, "drain")
       /\ Before(0, "reset") => ~Done(0, "drain")
       /\ Before(0, "drain") => ~Done(0, "drain")
       /\ Before(0, "exchange") => Done(0, "drain") /\ ~Done(0, "exchange")
       /\ Before(0, "await") => Done(0, "exchange")
       /\ Done(1, "join") => Done(1, "current") /\ Done(1, "running")
       /\ Before(1, "running") => ~Done(1, "current")
       /\ Before(1, "current") => Done(1, "running") /\ ~Done(1, "current")
       /\ Before(1, "join") => Done(1, "current") /\ ~Done(1, "join")
       /\ Before(1, "launch") => Done(1, "vector")
       /\ Done(1, "launch") => Done(1, "vector")
  /\ machine = "esp32" =>
       /\ \A x : Before(0, x) => x \in {"tick", "switch", "remote", "idle", "app", "unmask"}
       /\ \A x : Before(1, x) => rom.at = "entered" /\ x \in {"vector", "idle", "current", "join", "tick", "switch",
                                                            "park", "remote", "unmask"}
       /\ Done(0, "unmask") \/ Before(0, "unmask") => Done(0, "tick") /\ Done(0, "switch") /\ Done(0, "idle")
       /\ Done(1, "join") => Done(1, "current") /\ Done(1, "idle")
       /\ Before(1, "current") => Done(1, "idle")
       /\ Before(1, "join") => Done(1, "current")
       /\ Done(1, "unmask") \/ Before(1, "unmask") =>
            Done(1, "vector") /\ Done(1, "tick") /\ Done(1, "switch") /\ Done(1, "current")
(* The invariant has both cores on their lists.                            *)
LEMMA InvOrder == BootInv => Order
<1> SUFFICES ASSUME BootInv PROVE Order
  OBVIOUS
<1>1. OnItsList(0) /\ OnItsList(1)
  BY DEF BootInv, Cores2
<1> QED
  BY <1>1, PicoZeroOrder, PicoOneOrder, EspZeroOrder, EspOneOrder DEF Order

(* Core 0 launches core 1 on the RP2040 only.                              *)
LEMMA LaunchIsPico ==
  ASSUME BootInv, NEW x \in {"lock", "unlock", "reset", "drain", "hello", "exchange", "await"},
         Before(0, x)
  PROVE  machine = "rp2040"
<1>1. OnItsList(0) /\ machine \in {"rp2040", "esp32"}
  BY DEF BootInv, BootTypes, Cores2
<1> QED
  BY <1>1, EspZeroOrder

(* Both cores on their lists.                                              *)
LEMMA CoresAre == 0 \in Cores2 /\ 1 \in Cores2 /\ \A c \in Cores2 : c = 0 \/ c = 1
  BY DEF Cores2

(* The boot-wide section.                                                  *)
LEMMA SectionBoot ==
  ASSUME BootInv, NEW on \in BOOLEAN, Section(on)
  PROVE  BootInv'
<1> USE CoresAre
<1>0. /\ BootTypes /\ OnItsList(0) /\ OnItsList(1) /\ Order
      /\ CoreZeroSet /\ CoreOneSet /\ JoinedIsDone /\ OpenIsDone /\ LaunchKept
  BY InvOrder DEF BootInv
<1>1. machine' = machine /\ (rom'.at = "entered" <=> rom.at = "entered")
  BY <1>0 DEF Section, BootTypes
<1>2. Entered(0)' = Entered(0) /\ Entered(1)' = Entered(1)
  BY <1>1 DEF Entered
<1>3. Before(0, (IF on THEN "lock" ELSE "unlock")) /\ Goes(0) /\ DOMAIN todo = Cores2
  BY <1>0 DEF Section, BootTypes
<1>4. /\ OnItsList(0)' /\ Entered(0) /\ ~Done(0, (IF on THEN "lock" ELSE "unlock"))
      /\ \A y : Done(0, y)' <=> Done(0, y) \/ y = (IF on THEN "lock" ELSE "unlock")
      /\ \A d \in Cores2 \ {0} : todo'[d] = todo[d]
  BY <1>0, <1>1, <1>2, <1>3, GoesDone
<1>5. \A d \in Cores2 \ {0} : OnItsList(d)' /\ \A y : Done(d, y)' <=> Done(d, y)
  BY <1>0, <1>1, <1>2, <1>4, StaysDone
<1>6. BootTypes'
  BY <1>0 DEF Section, BootTypes, Goes
<1>7. CoreZeroSet'
  <2>1. machine = "rp2040"
    BY <1>3, LaunchIsPico
  <2>2. bootHeld' = on /\ UNCHANGED <<machine, traps, idle>>
    BY DEF Section
  <2>3. CASE on
    BY <1>0, <1>3, <1>4, <2>1, <2>2, <2>3 DEF CoreZeroSet, Order
  <2>4. CASE ~on
    BY <1>0, <1>3, <1>4, <2>1, <2>2, <2>4 DEF CoreZeroSet, Order
  <2> QED
    BY <2>3, <2>4
<1>8. CoreOneSet'
  BY <1>0, <1>1, <1>3, <1>4, <1>5 DEF Section, CoreOneSet, BootTypes, Order, LaunchKept
<1>9. JoinedIsDone'
  BY <1>0, <1>1, <1>3, <1>4, <1>5 DEF Section, JoinedIsDone, BootTypes, Order
<1>10. OpenIsDone'
  BY <1>0, <1>1, <1>3, <1>4, <1>5 DEF Section, OpenIsDone, BootTypes, Order
<1>11. LaunchKept'
  BY <1>0, <1>1, <1>3, <1>4, <1>5 DEF Section, LaunchKept, BootTypes, Order
<1>12. (\A d \in Cores2 : pending'[d] => d \in joined') /\ stopped' # "idle"
  BY <1>0, <1>1, <1>3, <1>4, <1>5 DEF Section, BootInv, BootTypes, Order, CoreOneSet,
                                        CoreZeroSet, LaunchKept
<1> QED
  BY <1>4, <1>5, <1>6, <1>7, <1>8, <1>9, <1>10, <1>11, <1>12 DEF BootInv

(* What a trap needs.                                                      *)
LEMMA SetsUpBoot ==
  ASSUME BootInv, NEW c \in Cores2, NEW s, SetsUp(c, s)
  PROVE  BootInv'
<1> USE CoresAre
<1>0. /\ BootTypes /\ OnItsList(0) /\ OnItsList(1) /\ Order
      /\ CoreZeroSet /\ CoreOneSet /\ JoinedIsDone /\ OpenIsDone /\ LaunchKept
  BY InvOrder DEF BootInv
<1>1. machine' = machine /\ (rom'.at = "entered" <=> rom.at = "entered")
  BY <1>0 DEF SetsUp, BootTypes
<1>2. Entered(0)' = Entered(0) /\ Entered(1)' = Entered(1)
  BY <1>1 DEF Entered
<1>3. Before(c, s) /\ Goes(c) /\ DOMAIN todo = Cores2
  BY <1>0 DEF SetsUp, BootTypes
<1>4. /\ OnItsList(c)' /\ Entered(c) /\ ~Done(c, s)
      /\ \A y : Done(c, y)' <=> Done(c, y) \/ y = s
      /\ \A d \in Cores2 \ {c} : todo'[d] = todo[d]
  BY <1>0, <1>1, <1>2, <1>3, GoesDone
<1>5. \A d \in Cores2 \ {c} : OnItsList(d)' /\ \A y : Done(d, y)' <=> Done(d, y)
  BY <1>0, <1>1, <1>2, <1>4, StaysDone
<1>6. BootTypes'
  BY <1>0 DEF SetsUp, BootTypes, Goes
<1>7. CoreZeroSet'
  BY <1>0, <1>1, <1>3, <1>4, <1>5 DEF SetsUp, CoreZeroSet, BootTypes, Order, LaunchKept
<1>8. CoreOneSet'
  BY <1>0, <1>1, <1>3, <1>4, <1>5 DEF SetsUp, CoreOneSet, BootTypes, Order, LaunchKept
<1>9. JoinedIsDone'
  BY <1>0, <1>1, <1>3, <1>4, <1>5 DEF SetsUp, JoinedIsDone, BootTypes, Order
<1>10. OpenIsDone'
  BY <1>0, <1>1, <1>3, <1>4, <1>5 DEF SetsUp, OpenIsDone, BootTypes, Order
<1>11. LaunchKept'
  BY <1>0, <1>1, <1>3, <1>4, <1>5 DEF SetsUp, LaunchKept, BootTypes, Order
<1>12. (\A d \in Cores2 : pending'[d] => d \in joined') /\ stopped' # "idle"
  BY <1>0, <1>1, <1>3, <1>4, <1>5 DEF SetsUp, BootInv, BootTypes, Order, CoreOneSet,
                                        CoreZeroSet, LaunchKept
<1> QED
  BY <1>4, <1>5, <1>6, <1>7, <1>8, <1>9, <1>10, <1>11, <1>12 DEF BootInv

(* The idle tasks.                                                         *)
LEMMA InstallIdleBoot ==
  ASSUME BootInv, NEW c \in Cores2, NEW s, InstallIdle(c, s)
  PROVE  BootInv'
<1> USE CoresAre
<1>0. /\ BootTypes /\ OnItsList(0) /\ OnItsList(1) /\ Order
      /\ CoreZeroSet /\ CoreOneSet /\ JoinedIsDone /\ OpenIsDone /\ LaunchKept
  BY InvOrder DEF BootInv
<1>1. machine' = machine /\ (rom'.at = "entered" <=> rom.at = "entered")
  BY <1>0 DEF InstallIdle, BootTypes
<1>2. Entered(0)' = Entered(0) /\ Entered(1)' = Entered(1)
  BY <1>1 DEF Entered
<1>3. Before(c, s) /\ Goes(c) /\ DOMAIN todo = Cores2
  BY <1>0 DEF InstallIdle, BootTypes
<1>4. /\ OnItsList(c)' /\ Entered(c) /\ ~Done(c, s)
      /\ \A y : Done(c, y)' <=> Done(c, y) \/ y = s
      /\ \A d \in Cores2 \ {c} : todo'[d] = todo[d]
  BY <1>0, <1>1, <1>2, <1>3, GoesDone
<1>5. \A d \in Cores2 \ {c} : OnItsList(d)' /\ \A y : Done(d, y)' <=> Done(d, y)
  BY <1>0, <1>1, <1>2, <1>4, StaysDone
<1>6. BootTypes'
  BY <1>0 DEF InstallIdle, BootTypes, Goes
<1>7. CoreZeroSet'
  BY <1>0, <1>1, <1>3, <1>4, <1>5 DEF InstallIdle, CoreZeroSet, BootTypes, Order, LaunchKept
<1>8. CoreOneSet'
  <2>1. CASE s = "idle1"
    <3>1. machine = "rp2040" /\ c = 0 /\ ~Done(0, "drain") /\ rom.at # "entered"
      BY <1>0, <1>3, <2>1 DEF Order, BootTypes, LaunchKept
    <3>2. \A y : ~Done(1, y)'
      BY <1>1, <3>1 DEF Done, Entered
    <3> QED
      BY <3>2 DEF CoreOneSet
  <2>2. CASE s = "idle" /\ c = 0
    <3>1. \A y : Done(1, y)' <=> Done(1, y)
      BY <1>5, <2>2
    <3> QED
      BY <1>0, <1>1, <2>2, <3>1 DEF InstallIdle, CoreOneSet, BootTypes
  <2>3. CASE s = "idle" /\ c = 1
    <3>1. machine = "esp32"
      BY <1>0, <1>3, <2>3 DEF Order, BootTypes
    <3> QED
      BY <1>0, <1>1, <1>4, <2>3, <3>1 DEF InstallIdle, CoreOneSet, BootTypes
  <2> QED
    BY <2>1, <2>2, <2>3 DEF InstallIdle
<1>9. JoinedIsDone'
  BY <1>0, <1>1, <1>3, <1>4, <1>5 DEF InstallIdle, JoinedIsDone, BootTypes, Order
<1>10. OpenIsDone'
  BY <1>0, <1>1, <1>3, <1>4, <1>5 DEF InstallIdle, OpenIsDone, BootTypes, Order
<1>11. LaunchKept'
  BY <1>0, <1>1, <1>3, <1>4, <1>5 DEF InstallIdle, LaunchKept, BootTypes, Order
<1>12. (\A d \in Cores2 : pending'[d] => d \in joined') /\ stopped' # "idle"
  BY <1>0, <1>1, <1>3, <1>4, <1>5 DEF InstallIdle, BootInv, BootTypes, Order, CoreOneSet,
                                        CoreZeroSet, LaunchKept
<1> QED
  BY <1>4, <1>5, <1>6, <1>7, <1>8, <1>9, <1>10, <1>11, <1>12 DEF BootInv

(* Core 1 finds its idle task.                                             *)
LEMMA IdleRunsBoot ==
  ASSUME BootInv, IdleRuns
  PROVE  BootInv'
<1> USE CoresAre
<1>0. /\ BootTypes /\ OnItsList(0) /\ OnItsList(1) /\ Order
      /\ CoreZeroSet /\ CoreOneSet /\ JoinedIsDone /\ OpenIsDone /\ LaunchKept
  BY InvOrder DEF BootInv
<1>1. machine' = machine /\ (rom'.at = "entered" <=> rom.at = "entered")
  BY <1>0 DEF IdleRuns, Stops, BootTypes
<1>2. Entered(0)' = Entered(0) /\ Entered(1)' = Entered(1)
  BY <1>1 DEF Entered
<1>3. Before(1, "running") /\ Goes(1) /\ DOMAIN todo = Cores2
  BY <1>0 DEF IdleRuns, Stops, BootTypes
<1>4. /\ OnItsList(1)' /\ Entered(1) /\ ~Done(1, "running")
      /\ \A y : Done(1, y)' <=> Done(1, y) \/ y = "running"
      /\ \A d \in Cores2 \ {1} : todo'[d] = todo[d]
  BY <1>0, <1>1, <1>2, <1>3, GoesDone
<1>5. \A d \in Cores2 \ {1} : OnItsList(d)' /\ \A y : Done(d, y)' <=> Done(d, y)
  BY <1>0, <1>1, <1>2, <1>4, StaysDone
<1>6. BootTypes'
  BY <1>0 DEF IdleRuns, Stops, BootTypes, Goes
<1>7. CoreZeroSet'
  BY <1>0, <1>1, <1>3, <1>4, <1>5 DEF IdleRuns, Stops, CoreZeroSet, BootTypes, Order, LaunchKept
<1>8. CoreOneSet'
  <2>0. machine # "esp32"
    BY <1>0, <1>3, EspOneOrder
  <2>1. machine = "rp2040" /\ rom.at = "entered"
    BY <1>0, <1>3, <2>0, PicoOneOrder DEF BootTypes
  <2>2. idle[1] # "none"
    BY <1>0, <2>1 DEF LaunchKept, Order, CoreZeroSet
  <2>3. idle'[1] = "running" /\ UNCHANGED <<cur, traps>>
    BY <1>0, <2>2 DEF IdleRuns, BootTypes
  <2> QED
    BY <1>0, <1>1, <1>4, <2>1, <2>3 DEF CoreOneSet
<1>9. JoinedIsDone'
  BY <1>0, <1>1, <1>3, <1>4, <1>5 DEF IdleRuns, Stops, JoinedIsDone, BootTypes, Order
<1>10. OpenIsDone'
  BY <1>0, <1>1, <1>3, <1>4, <1>5 DEF IdleRuns, Stops, OpenIsDone, BootTypes, Order
<1>11. LaunchKept'
  BY <1>0, <1>1, <1>3, <1>4, <1>5 DEF IdleRuns, Stops, LaunchKept, BootTypes, Order
<1>12. (\A d \in Cores2 : pending'[d] => d \in joined') /\ stopped' # "idle"
  BY <1>0, <1>1, <1>3, <1>4, <1>5 DEF IdleRuns, Stops, BootInv, BootTypes, Order, CoreOneSet,
                                        CoreZeroSet, LaunchKept
<1> QED
  BY <1>4, <1>5, <1>6, <1>7, <1>8, <1>9, <1>10, <1>11, <1>12 DEF BootInv

(* Core 1 has a current task.                                              *)
LEMMA SetCurrentBoot ==
  ASSUME BootInv, SetCurrent
  PROVE  BootInv'
<1> USE CoresAre
<1>0. /\ BootTypes /\ OnItsList(0) /\ OnItsList(1) /\ Order
      /\ CoreZeroSet /\ CoreOneSet /\ JoinedIsDone /\ OpenIsDone /\ LaunchKept
  BY InvOrder DEF BootInv
<1>1. machine' = machine /\ (rom'.at = "entered" <=> rom.at = "entered")
  BY <1>0 DEF SetCurrent, Stops, BootTypes
<1>2. Entered(0)' = Entered(0) /\ Entered(1)' = Entered(1)
  BY <1>1 DEF Entered
<1>3. Before(1, "current") /\ Goes(1) /\ DOMAIN todo = Cores2
  BY <1>0 DEF SetCurrent, Stops, BootTypes
<1>4. /\ OnItsList(1)' /\ Entered(1) /\ ~Done(1, "current")
      /\ \A y : Done(1, y)' <=> Done(1, y) \/ y = "current"
      /\ \A d \in Cores2 \ {1} : todo'[d] = todo[d]
  BY <1>0, <1>1, <1>2, <1>3, GoesDone
<1>5. \A d \in Cores2 \ {1} : OnItsList(d)' /\ \A y : Done(d, y)' <=> Done(d, y)
  BY <1>0, <1>1, <1>2, <1>4, StaysDone
<1>6. BootTypes'
  <2>1. cur' \in [Cores2 -> BOOLEAN]
    <3>1. cur' = cur \/ cur' = [cur EXCEPT ![1] = TRUE]
      BY DEF SetCurrent
    <3>2. cur \in [Cores2 -> BOOLEAN]
      BY <1>0 DEF BootTypes
    <3> QED
      BY <3>1, <3>2
  <2> QED
    BY <1>0, <2>1 DEF SetCurrent, BootTypes, Goes
<1>7. CoreZeroSet'
  BY <1>0, <1>1, <1>3, <1>4, <1>5 DEF SetCurrent, Stops, CoreZeroSet, BootTypes, Order, LaunchKept
<1>8. CoreOneSet'
  BY <1>0, <1>1, <1>3, <1>4, <1>5 DEF SetCurrent, Stops, CoreOneSet, BootTypes, Order, LaunchKept
<1>9. JoinedIsDone'
  BY <1>0, <1>1, <1>3, <1>4, <1>5 DEF SetCurrent, Stops, JoinedIsDone, BootTypes, Order
<1>10. OpenIsDone'
  BY <1>0, <1>1, <1>3, <1>4, <1>5 DEF SetCurrent, Stops, OpenIsDone, BootTypes, Order
<1>11. LaunchKept'
  BY <1>0, <1>1, <1>3, <1>4, <1>5 DEF SetCurrent, Stops, LaunchKept, BootTypes, Order
<1>12. (\A d \in Cores2 : pending'[d] => d \in joined') /\ stopped' # "idle"
  BY <1>0, <1>1, <1>3, <1>4, <1>5 DEF SetCurrent, Stops, BootInv, BootTypes, Order, CoreOneSet,
                                        CoreZeroSet, LaunchKept
<1> QED
  BY <1>4, <1>5, <1>6, <1>7, <1>8, <1>9, <1>10, <1>11, <1>12 DEF BootInv

(* Core 1 joins.                                                           *)
LEMMA MarkJoinedBoot ==
  ASSUME BootInv, MarkJoined
  PROVE  BootInv'
<1> USE CoresAre
<1>0. /\ BootTypes /\ OnItsList(0) /\ OnItsList(1) /\ Order
      /\ CoreZeroSet /\ CoreOneSet /\ JoinedIsDone /\ OpenIsDone /\ LaunchKept
  BY InvOrder DEF BootInv
<1>1. machine' = machine /\ (rom'.at = "entered" <=> rom.at = "entered")
  BY <1>0 DEF MarkJoined, BootTypes
<1>2. Entered(0)' = Entered(0) /\ Entered(1)' = Entered(1)
  BY <1>1 DEF Entered
<1>3. Before(1, "join") /\ Goes(1) /\ DOMAIN todo = Cores2
  BY <1>0 DEF MarkJoined, BootTypes
<1>4. /\ OnItsList(1)' /\ Entered(1) /\ ~Done(1, "join")
      /\ \A y : Done(1, y)' <=> Done(1, y) \/ y = "join"
      /\ \A d \in Cores2 \ {1} : todo'[d] = todo[d]
  BY <1>0, <1>1, <1>2, <1>3, GoesDone
<1>5. \A d \in Cores2 \ {1} : OnItsList(d)' /\ \A y : Done(d, y)' <=> Done(d, y)
  BY <1>0, <1>1, <1>2, <1>4, StaysDone
<1>6. BootTypes'
  BY <1>0 DEF MarkJoined, BootTypes, Goes
<1>7. CoreZeroSet'
  BY <1>0, <1>1, <1>3, <1>4, <1>5 DEF MarkJoined, CoreZeroSet, BootTypes, Order, LaunchKept
<1>8. CoreOneSet'
  BY <1>0, <1>1, <1>3, <1>4, <1>5 DEF MarkJoined, CoreOneSet, BootTypes, Order, LaunchKept
<1>9. JoinedIsDone'
  BY <1>0, <1>1, <1>3, <1>4, <1>5 DEF MarkJoined, JoinedIsDone, BootTypes, Order
<1>10. OpenIsDone'
  BY <1>0, <1>1, <1>3, <1>4, <1>5 DEF MarkJoined, OpenIsDone, BootTypes, Order
<1>11. LaunchKept'
  BY <1>0, <1>1, <1>3, <1>4, <1>5 DEF MarkJoined, LaunchKept, BootTypes, Order
<1>12. (\A d \in Cores2 : pending'[d] => d \in joined') /\ stopped' # "idle"
  BY <1>0, <1>1, <1>3, <1>4, <1>5 DEF MarkJoined, BootInv, BootTypes, Order, CoreOneSet,
                                        CoreZeroSet, LaunchKept
<1> QED
  BY <1>4, <1>5, <1>6, <1>7, <1>8, <1>9, <1>10, <1>11, <1>12 DEF BootInv

(* The application returns.                                                *)
LEMMA AppReturnsBoot ==
  ASSUME BootInv, AppReturns
  PROVE  BootInv'
<1> USE CoresAre
<1>0. /\ BootTypes /\ OnItsList(0) /\ OnItsList(1) /\ Order
      /\ CoreZeroSet /\ CoreOneSet /\ JoinedIsDone /\ OpenIsDone /\ LaunchKept
  BY InvOrder DEF BootInv
<1>1. machine' = machine /\ (rom'.at = "entered" <=> rom.at = "entered")
  BY <1>0 DEF AppReturns, BootTypes
<1>2. Entered(0)' = Entered(0) /\ Entered(1)' = Entered(1)
  BY <1>1 DEF Entered
<1>3. Before(0, "app") /\ Goes(0) /\ DOMAIN todo = Cores2
  BY <1>0 DEF AppReturns, BootTypes
<1>4. /\ OnItsList(0)' /\ Entered(0) /\ ~Done(0, "app")
      /\ \A y : Done(0, y)' <=> Done(0, y) \/ y = "app"
      /\ \A d \in Cores2 \ {0} : todo'[d] = todo[d]
  BY <1>0, <1>1, <1>2, <1>3, GoesDone
<1>5. \A d \in Cores2 \ {0} : OnItsList(d)' /\ \A y : Done(d, y)' <=> Done(d, y)
  BY <1>0, <1>1, <1>2, <1>4, StaysDone
<1>6. BootTypes'
  BY <1>0 DEF AppReturns, BootTypes, Goes
<1>7. CoreZeroSet'
  BY <1>0, <1>1, <1>3, <1>4, <1>5 DEF AppReturns, CoreZeroSet, BootTypes, Order, LaunchKept
<1>8. CoreOneSet'
  BY <1>0, <1>1, <1>3, <1>4, <1>5 DEF AppReturns, CoreOneSet, BootTypes, Order, LaunchKept
<1>9. JoinedIsDone'
  BY <1>0, <1>1, <1>3, <1>4, <1>5 DEF AppReturns, JoinedIsDone, BootTypes, Order
<1>10. OpenIsDone'
  BY <1>0, <1>1, <1>3, <1>4, <1>5 DEF AppReturns, OpenIsDone, BootTypes, Order
<1>11. LaunchKept'
  BY <1>0, <1>1, <1>3, <1>4, <1>5 DEF AppReturns, LaunchKept, BootTypes, Order
<1>12. (\A d \in Cores2 : pending'[d] => d \in joined') /\ stopped' # "idle"
  BY <1>0, <1>1, <1>3, <1>4, <1>5 DEF AppReturns, BootInv, BootTypes, Order, CoreOneSet,
                                        CoreZeroSet, LaunchKept
<1> QED
  BY <1>4, <1>5, <1>6, <1>7, <1>8, <1>9, <1>10, <1>11, <1>12 DEF BootInv

(* Core 1 is let go.                                                       *)
LEMMA DrainBoot ==
  ASSUME BootInv, DrainAndRelease
  PROVE  BootInv'
<1> USE CoresAre
<1>0. /\ BootTypes /\ OnItsList(0) /\ OnItsList(1) /\ Order
      /\ CoreZeroSet /\ CoreOneSet /\ JoinedIsDone /\ OpenIsDone /\ LaunchKept
  BY InvOrder DEF BootInv
<1>1. machine' = machine /\ (rom'.at = "entered" <=> rom.at = "entered")
  <2>1. rom'.at = "hello"
    BY <1>0 DEF DrainAndRelease, BootTypes
  <2>2. rom.at # "entered"
    <3>1. Before(0, "drain")
      BY DEF DrainAndRelease
    <3>2. machine = "rp2040"
      BY <3>1, LaunchIsPico
    <3> QED
      BY <1>0, <3>1, <3>2 DEF Order, LaunchKept
  <2> QED
    BY <2>1, <2>2 DEF DrainAndRelease
<1>2. Entered(0)' = Entered(0) /\ Entered(1)' = Entered(1)
  BY <1>1 DEF Entered
<1>3. Before(0, "drain") /\ Goes(0) /\ DOMAIN todo = Cores2
  BY <1>0 DEF DrainAndRelease, BootTypes
<1>4. /\ OnItsList(0)' /\ Entered(0) /\ ~Done(0, "drain")
      /\ \A y : Done(0, y)' <=> Done(0, y) \/ y = "drain"
      /\ \A d \in Cores2 \ {0} : todo'[d] = todo[d]
  BY <1>0, <1>1, <1>2, <1>3, GoesDone
<1>5. \A d \in Cores2 \ {0} : OnItsList(d)' /\ \A y : Done(d, y)' <=> Done(d, y)
  BY <1>0, <1>1, <1>2, <1>4, StaysDone
<1>6. BootTypes'
  <2>1. mail' \in [in : Seq(Words), out : Seq(Words)]
    BY <1>0, EmptySeq DEF DrainAndRelease, BootTypes
  <2>2. rom' \in [at : {"running", "reset", "hello", "listens", "entered"}, taken : Nat]
    BY <1>0 DEF DrainAndRelease, BootTypes
  <2> QED
    BY <1>0, <2>1, <2>2 DEF DrainAndRelease, BootTypes, Goes
<1>7. CoreZeroSet'
  BY <1>0, <1>1, <1>3, <1>4, <1>5 DEF DrainAndRelease, CoreZeroSet, BootTypes, Order, LaunchKept
<1>8. CoreOneSet'
  BY <1>0, <1>1, <1>3, <1>4, <1>5 DEF DrainAndRelease, CoreOneSet, BootTypes, Order, LaunchKept
<1>9. JoinedIsDone'
  BY <1>0, <1>1, <1>3, <1>4, <1>5 DEF DrainAndRelease, JoinedIsDone, BootTypes, Order
<1>10. OpenIsDone'
  BY <1>0, <1>1, <1>3, <1>4, <1>5 DEF DrainAndRelease, OpenIsDone, BootTypes, Order
<1>11. LaunchKept'
  <2>1. machine = "rp2040" /\ rom'.at = "hello" /\ rom'.taken = rom.taken /\ mail'.in = <<>> /\ UNCHANGED proto
    BY <1>0, <1>3, LaunchIsPico DEF DrainAndRelease, BootTypes
  <2>2. rom.at # "entered" /\ rom.taken <= 5 /\ proto.next # 6
    BY <1>0, <1>1, <2>1 DEF LaunchKept
  <2> QED
    BY <1>0, <1>1, <1>4, <2>1, <2>2 DEF LaunchKept
<1>12. (\A d \in Cores2 : pending'[d] => d \in joined') /\ stopped' # "idle"
  BY <1>0, <1>1, <1>3, <1>4, <1>5 DEF DrainAndRelease, BootInv, BootTypes, Order, CoreOneSet,
                                        CoreZeroSet, LaunchKept
<1> QED
  BY <1>4, <1>5, <1>6, <1>7, <1>8, <1>9, <1>10, <1>11, <1>12 DEF BootInv

(* A task is made ready.                                                   *)
LEMMA MakeReadyBoot ==
  ASSUME BootInv, NEW c \in Cores2, MakeReady(c)
  PROVE  BootInv'
<1> USE CoresAre
<1>0. /\ BootTypes /\ OnItsList(0) /\ OnItsList(1) /\ Order
      /\ CoreZeroSet /\ CoreOneSet /\ JoinedIsDone /\ OpenIsDone /\ LaunchKept
  BY InvOrder DEF BootInv
<1>1. machine' = machine /\ (rom'.at = "entered" <=> rom.at = "entered")
  BY <1>0 DEF MakeReady, BootTypes
<1>2. Entered(0)' = Entered(0) /\ Entered(1)' = Entered(1)
  BY <1>1 DEF Entered
<1>5. \A d \in Cores2 : OnItsList(d)' /\ \A y : Done(d, y)' <=> Done(d, y)
  <2>1. todo' = todo
    BY DEF MakeReady
  <2> QED
    BY <1>0, <1>1, <1>2, <2>1, StaysDone
<1>6. BootTypes'
  BY <1>0 DEF MakeReady, BootTypes
<1>7. CoreZeroSet'
  BY <1>0, <1>1, <1>5 DEF MakeReady, CoreZeroSet, BootTypes, Order, LaunchKept
<1>8. CoreOneSet'
  BY <1>0, <1>1, <1>5 DEF MakeReady, CoreOneSet, BootTypes, Order, LaunchKept
<1>9. JoinedIsDone'
  BY <1>0, <1>1, <1>5 DEF MakeReady, JoinedIsDone, BootTypes, Order
<1>10. OpenIsDone'
  BY <1>0, <1>1, <1>5 DEF MakeReady, OpenIsDone, BootTypes, Order
<1>11. LaunchKept'
  BY <1>0, <1>1, <1>5 DEF MakeReady, LaunchKept, BootTypes, Order
<1>12. (\A d \in Cores2 : pending'[d] => d \in joined') /\ stopped' # "idle"
  BY <1>0, <1>1, <1>5 DEF MakeReady, BootInv, BootTypes, Order, CoreOneSet,
                                        CoreZeroSet, LaunchKept
<1> QED
  BY <1>5, <1>6, <1>7, <1>8, <1>9, <1>10, <1>11, <1>12 DEF BootInv

(* A trap.                                                                 *)
LEMMA TrapBoot ==
  ASSUME BootInv, NEW c \in Cores2, BootTrap(c)
  PROVE  BootInv'
<1> USE CoresAre
<1>0. /\ BootTypes /\ OnItsList(0) /\ OnItsList(1) /\ Order
      /\ CoreZeroSet /\ CoreOneSet /\ JoinedIsDone /\ OpenIsDone /\ LaunchKept
  BY InvOrder DEF BootInv
<1>1. machine' = machine /\ (rom'.at = "entered" <=> rom.at = "entered")
  BY <1>0 DEF BootTrap, BootTypes
<1>2. Entered(0)' = Entered(0) /\ Entered(1)' = Entered(1)
  BY <1>1 DEF Entered
<1>5. \A d \in Cores2 : OnItsList(d)' /\ \A y : Done(d, y)' <=> Done(d, y)
  <2>1. todo' = todo
    BY DEF BootTrap
  <2> QED
    BY <1>0, <1>1, <1>2, <2>1, StaysDone
<1>6. BootTypes'
  BY <1>0 DEF BootTrap, BootTypes
<1>7. CoreZeroSet'
  BY <1>0, <1>1, <1>5 DEF BootTrap, CoreZeroSet, BootTypes, Order, LaunchKept
<1>8. CoreOneSet'
  BY <1>0, <1>1, <1>5 DEF BootTrap, CoreOneSet, BootTypes, Order, LaunchKept
<1>9. JoinedIsDone'
  BY <1>0, <1>1, <1>5 DEF BootTrap, JoinedIsDone, BootTypes, Order
<1>10. OpenIsDone'
  BY <1>0, <1>1, <1>5 DEF BootTrap, OpenIsDone, BootTypes, Order
<1>11. LaunchKept'
  BY <1>0, <1>1, <1>5 DEF BootTrap, LaunchKept, BootTypes, Order
<1>12. (\A d \in Cores2 : pending'[d] => d \in joined') /\ stopped' # "idle"
  BY <1>0, <1>1, <1>5 DEF BootTrap, BootInv, BootTypes, Order, CoreOneSet,
                                        CoreZeroSet, LaunchKept
<1> QED
  BY <1>5, <1>6, <1>7, <1>8, <1>9, <1>10, <1>11, <1>12 DEF BootInv

(* A command goes out.                                                     *)
LEMMA SendBoot ==
  ASSUME BootInv, SendCommand
  PROVE  BootInv'
<1> USE CoresAre
<1>0. /\ BootTypes /\ OnItsList(0) /\ OnItsList(1) /\ Order
      /\ CoreZeroSet /\ CoreOneSet /\ JoinedIsDone /\ OpenIsDone /\ LaunchKept
  BY InvOrder DEF BootInv
<1>1. machine' = machine /\ (rom'.at = "entered" <=> rom.at = "entered")
  BY <1>0 DEF SendCommand, BootTypes
<1>2. Entered(0)' = Entered(0) /\ Entered(1)' = Entered(1)
  BY <1>1 DEF Entered
<1>5. \A d \in Cores2 : OnItsList(d)' /\ \A y : Done(d, y)' <=> Done(d, y)
  <2>1. todo' = todo
    BY DEF SendCommand
  <2> QED
    BY <1>0, <1>1, <1>2, <2>1, StaysDone
<1>6. BootTypes'
  <2>1. proto.next \in 0 .. 5
    BY <1>0 DEF SendCommand, BootTypes, Order, LaunchKept
  <2>2. Commands[proto.next + 1] \in Words
    BY <2>1 DEF Commands, Words
  <2>3. mail' \in [in : Seq(Words), out : Seq(Words)]
    <3>1. <<Commands[proto.next + 1]>> \in Seq(Words) /\ <<>> \in Seq(Words)
      BY <2>2
    <3> HIDE DEF Words
    <3> QED
      BY <1>0, <3>1 DEF SendCommand, BootTypes
  <2>4. proto' \in [next : 0 .. 6, exchanges : Nat, sent : BOOLEAN]
    <3>1. proto \in [next : 0 .. 6, exchanges : Nat, sent : BOOLEAN] /\ proto.exchanges + 1 \in Nat
      BY <1>0 DEF BootTypes
    <3>2. proto' = [proto EXCEPT !.sent = TRUE, !.exchanges = proto.exchanges + 1]
      BY DEF SendCommand
    <3> QED
      BY <3>1, <3>2
  <2> QED
    BY <1>0, <2>3, <2>4 DEF SendCommand, BootTypes
<1>7. CoreZeroSet'
  BY <1>0, <1>1, <1>5 DEF SendCommand, CoreZeroSet, BootTypes, Order, LaunchKept
<1>8. CoreOneSet'
  BY <1>0, <1>1, <1>5 DEF SendCommand, CoreOneSet, BootTypes, Order, LaunchKept
<1>9. JoinedIsDone'
  BY <1>0, <1>1, <1>5 DEF SendCommand, JoinedIsDone, BootTypes, Order
<1>10. OpenIsDone'
  BY <1>0, <1>1, <1>5 DEF SendCommand, OpenIsDone, BootTypes, Order
<1>11. LaunchKept'
  BY <1>0, <1>1, <1>5 DEF SendCommand, LaunchKept, BootTypes, Order
<1>12. (\A d \in Cores2 : pending'[d] => d \in joined') /\ stopped' # "idle"
  BY <1>0, <1>1, <1>5 DEF SendCommand, BootInv, BootTypes, Order, CoreOneSet,
                                        CoreZeroSet, LaunchKept
<1> QED
  BY <1>5, <1>6, <1>7, <1>8, <1>9, <1>10, <1>11, <1>12 DEF BootInv

(* A core takes interrupts.                                                *)
LEMMA UnmaskBoot ==
  ASSUME BootInv, NEW c \in Cores2, Unmask(c)
  PROVE  BootInv'
<1> USE CoresAre
<1>0. /\ BootTypes /\ OnItsList(0) /\ OnItsList(1) /\ Order
      /\ CoreZeroSet /\ CoreOneSet /\ JoinedIsDone /\ OpenIsDone /\ LaunchKept
  BY InvOrder DEF BootInv
<1>1. machine' = machine /\ (rom'.at = "entered" <=> rom.at = "entered")
  BY <1>0 DEF Unmask, BootTypes
<1>2. Entered(0)' = Entered(0) /\ Entered(1)' = Entered(1)
  BY <1>1 DEF Entered
<1>3. Before(c, (IF machine = "esp32" THEN "unmask" ELSE "launch")) /\ Goes(c) /\ DOMAIN todo = Cores2
  <2>1. Before(c, "unmask") \/ Before(c, "launch")
    BY DEF Unmask
  <2>2. machine = "rp2040" => ~Before(c, "unmask")
    BY <1>0 DEF Order
  <2>3. machine = "esp32" => ~Before(c, "launch")
    BY <1>0 DEF Order
  <2> QED
    BY <1>0, <2>1, <2>2, <2>3 DEF Unmask, BootTypes
<1>4. /\ OnItsList(c)' /\ Entered(c) /\ ~Done(c, (IF machine = "esp32" THEN "unmask" ELSE "launch"))
      /\ \A y : Done(c, y)' <=> Done(c, y) \/ y = (IF machine = "esp32" THEN "unmask" ELSE "launch")
      /\ \A d \in Cores2 \ {c} : todo'[d] = todo[d]
  BY <1>0, <1>1, <1>2, <1>3, GoesDone
<1>5. \A d \in Cores2 \ {c} : OnItsList(d)' /\ \A y : Done(d, y)' <=> Done(d, y)
  BY <1>0, <1>1, <1>2, <1>4, StaysDone
<1>6. BootTypes'
  BY <1>0 DEF Unmask, BootTypes, Goes
<1>7. CoreZeroSet'
  BY <1>0, <1>1, <1>3, <1>4, <1>5 DEF Unmask, CoreZeroSet, BootTypes, Order, LaunchKept
<1>8. CoreOneSet'
  BY <1>0, <1>1, <1>3, <1>4, <1>5 DEF Unmask, CoreOneSet, BootTypes, Order, LaunchKept
<1>9. JoinedIsDone'
  BY <1>0, <1>1, <1>3, <1>4, <1>5 DEF Unmask, JoinedIsDone, BootTypes, Order
<1>10. OpenIsDone'
  BY <1>0, <1>1, <1>3, <1>4, <1>5 DEF Unmask, OpenIsDone, BootTypes, Order
<1>11. LaunchKept'
  BY <1>0, <1>1, <1>3, <1>4, <1>5 DEF Unmask, LaunchKept, BootTypes, Order
<1>12. (\A d \in Cores2 : pending'[d] => d \in joined') /\ stopped' # "idle"
  BY <1>0, <1>1, <1>3, <1>4, <1>5 DEF Unmask, BootInv, BootTypes, Order, CoreOneSet,
                                        CoreZeroSet, LaunchKept
<1> QED
  BY <1>4, <1>5, <1>6, <1>7, <1>8, <1>9, <1>10, <1>11, <1>12 DEF BootInv

(* Steps of the launch: they change the mailbox, the protocol and, of core *)
(* 0, the place in its list.                                               *)
LEMMA LaunchStepBoot ==
  ASSUME BootInv, UNCHANGED <<machine, bootHeld, idle, cur, joined, traps, unmasked, pending>>,
         rom'.at = "entered" <=> rom.at = "entered", stopped' # "idle", BootTypes',
         NEW x \in {"reset", "hello", "exchange", "await"},
         todo' = todo \/ (Before(0, x) /\ Goes(0)),
         (\A y : Done(0, y)' <=> Done(0, y) \/ (todo' # todo /\ y = x)) => LaunchKept'
  PROVE  BootInv'
<1> USE CoresAre
<1>0. /\ BootTypes /\ OnItsList(0) /\ OnItsList(1) /\ Order
      /\ CoreZeroSet /\ CoreOneSet /\ JoinedIsDone /\ OpenIsDone
  BY InvOrder DEF BootInv
<1>1. Entered(0)' = Entered(0) /\ Entered(1)' = Entered(1)
  BY DEF Entered
<1>2. /\ OnItsList(0)' /\ \A y : Done(0, y)' <=> Done(0, y) \/ (todo' # todo /\ y = x)
      /\ todo'[1] = todo[1]
  <2>1. CASE todo' = todo
    BY <1>0, <1>1, <2>1, StaysDone
  <2>2. CASE todo' # todo
    <3>1. DOMAIN todo = Cores2
      BY <1>0 DEF BootTypes
    <3> QED
      BY <1>0, <1>1, <2>2, <3>1, GoesDone
  <2> QED
    BY <2>1, <2>2
<1>3. OnItsList(1)' /\ \A y : Done(1, y)' <=> Done(1, y)
  BY <1>0, <1>1, <1>2, StaysDone
<1>4. \A y \in {"lock", "unlock", "idle", "idle1", "tick", "switch", "unmask", "launch"} : Done(0, y)' <=> Done(0, y)
  BY <1>2
<1>5. CoreZeroSet'
  BY <1>0, <1>4 DEF CoreZeroSet
<1>6. CoreOneSet'
  BY <1>0, <1>3 DEF CoreOneSet
<1>7. JoinedIsDone'
  BY <1>0, <1>3 DEF JoinedIsDone
<1>8. OpenIsDone'
  BY <1>0, <1>3, <1>4 DEF OpenIsDone
<1>9. \A c \in Cores2 : pending'[c] => c \in joined'
  BY DEF BootInv
<1> QED
  BY <1>2, <1>3, <1>5, <1>6, <1>7, <1>8, <1>9 DEF BootInv

(* Core 1 is entered.                                                      *)
LEMMA EntersBoot ==
  ASSUME BootInv, UNCHANGED <<machine, bootHeld, idle, cur, joined, traps, unmasked, pending, stopped>>,
         rom.at # "entered", rom'.at = "entered", todo' = [todo EXCEPT ![1] = StepsOf(1)], BootTypes',
         (\A y : Done(0, y)' <=> Done(0, y)) => LaunchKept'
  PROVE  BootInv'
<1> USE CoresAre
<1>0. /\ BootTypes /\ OnItsList(0) /\ OnItsList(1) /\ Order
      /\ CoreZeroSet /\ CoreOneSet /\ JoinedIsDone /\ OpenIsDone
  BY InvOrder DEF BootInv
<1>1. todo'[0] = todo[0] /\ todo'[1] = StepsOf(1) /\ Entered(0)' = Entered(0) /\ Entered(1)'
  BY <1>0 DEF Entered, BootTypes
<1>2. OnItsList(0)' /\ \A y : Done(0, y)' <=> Done(0, y)
  BY <1>0, <1>1, StaysDone
<1>3. OnItsList(1)'
  <2>1. StepsOf(1)' = StepsOf(1) /\ StepsOf(1) \in Seq(AllSteps)
    BY ListsAre DEF StepsOf
  <2>2. EndOf(StepsOf(1), StepsOf(1))
    BY <2>1 DEF EndOf
  <2>3. EndOf(todo[1], StepsOf(1))'
    BY <1>1, <2>1, <2>2 DEF EndOf
  <2> QED
    BY <1>1, <2>3 DEF OnItsList
<1>4. ASSUME NEW i \in 1 .. Len(StepsOf(1)), NEW y, y = StepsOf(1)[i] PROVE ~Done(1, y)'
  <2>1. Done(1, y)' => \A k \in 1 .. Len(StepsOf(1)) : StepsOf(1)[k] # y
    BY <1>1 DEF Done
  <2> QED
    BY <1>4, <2>1
<1>5. \A y : ~Done(1, y)
  BY DEF Done, Entered
<1>6. CASE machine = "rp2040"
  <2>1. StepsOf(1) = PicoCoreOne /\ Len(PicoCoreOne) = 6
    BY <1>6, Unrepeating DEF StepsOf
  <2>2. /\ PicoCoreOne[1] = "vector" /\ PicoCoreOne[2] = "running" /\ PicoCoreOne[3] = "current"
        /\ PicoCoreOne[4] = "join"
    BY DEF PicoCoreOne
  <2>4. ~Done(1, "vector")' /\ ~Done(1, "running")' /\ ~Done(1, "current")' /\ ~Done(1, "join")'
    BY <1>4, <2>1, <2>2
  <2> QED
    BY <1>6, <2>4, <1>0, <1>2, <1>3, <1>5 DEF BootInv, CoreZeroSet, CoreOneSet, JoinedIsDone, OpenIsDone
<1>7. CASE machine = "esp32"
  <2>1. StepsOf(1) = EspCoreOne /\ Len(EspCoreOne) = 9
    BY <1>7, Unrepeating DEF StepsOf
  <2>2. /\ EspCoreOne[1] = "vector" /\ EspCoreOne[2] = "idle" /\ EspCoreOne[3] = "current"
        /\ EspCoreOne[4] = "join"
        /\ EspCoreOne[5] = "tick" /\ EspCoreOne[6] = "switch"
    BY DEF EspCoreOne
  <2>4. /\ ~Done(1, "vector")' /\ ~Done(1, "idle")' /\ ~Done(1, "current")' /\ ~Done(1, "join")'
        /\ ~Done(1, "tick")' /\ ~Done(1, "switch")'
    BY <1>4, <2>1, <2>2
  <2> QED
    BY <1>7, <2>4, <1>0, <1>2, <1>3, <1>5 DEF BootInv, CoreZeroSet, CoreOneSet, JoinedIsDone, OpenIsDone
<1> QED
  BY <1>0, <1>6, <1>7 DEF BootTypes

(* launch_core1 resets core 1, or gives up.                                *)
LEMMA ResetBoot ==
  ASSUME BootInv, ResetCoreOne
  PROVE  BootInv'
<1>0. BootTypes /\ Order /\ LaunchKept /\ stopped # "idle"
  BY InvOrder DEF BootInv
<1>1. Before(0, "reset") /\ machine = "rp2040" /\ ~Done(0, "drain") /\ rom.at # "entered"
  <2>1. Before(0, "reset")
    BY DEF ResetCoreOne
  <2>2. machine = "rp2040"
    BY <2>1, LaunchIsPico
  <2> QED
    BY <1>0, <2>1, <2>2 DEF Order, LaunchKept
<1>2. CASE /\ Goes(0) /\ rom' = [at |-> "reset", taken |-> 0] /\ mail' = [mail EXCEPT !.out = <<>>]
           /\ UNCHANGED stopped
  <2>1. mail' \in [in : Seq(Words), out : Seq(Words)] /\ mail'.in = mail.in
    BY <1>0, <1>2, EmptySeq DEF BootTypes
  <2>2. BootTypes'
    BY <1>0, <1>2, <2>1 DEF ResetCoreOne, BootTypes, Goes
  <2>3. ASSUME \A y : Done(0, y)' <=> Done(0, y) \/ (todo' # todo /\ y = "reset") PROVE LaunchKept'
    BY <1>0, <1>1, <1>2, <2>1, <2>3 DEF ResetCoreOne, LaunchKept
  <2> QED
    BY <1>0, <1>1, <1>2, <2>2, <2>3, LaunchStepBoot DEF ResetCoreOne
<1>3. CASE stopped' = "launch" /\ UNCHANGED <<rom, mail, todo>>
  <2>1. BootTypes'
    BY <1>0, <1>3 DEF ResetCoreOne, BootTypes
  <2>2. ASSUME \A y : Done(0, y)' <=> Done(0, y) \/ (todo' # todo /\ y = "reset") PROVE LaunchKept'
    BY <1>0, <1>1, <1>3, <2>2 DEF ResetCoreOne, LaunchKept
  <2> QED
    BY <1>0, <1>1, <1>3, <2>1, <2>2, LaunchStepBoot DEF ResetCoreOne
<1> QED
  BY <1>2, <1>3 DEF ResetCoreOne, Stops

(* A word read from the mailbox.                                           *)
LEMMA ReadMail ==
  ASSUME BootTypes, mail.in # <<>>, mail' = [mail EXCEPT !.in = Tail(mail.in)]
  PROVE  /\ mail' \in [in : Seq(Words), out : Seq(Words)]
         /\ Head(mail.in) = mail.in[1] /\ 1 \in 1 .. Len(mail.in)
         /\ \A k \in 1 .. Len(mail'.in) : k + 1 \in 1 .. Len(mail.in) /\ mail'.in[k] = mail.in[k + 1]
<1>1. mail \in [in : Seq(Words), out : Seq(Words)] /\ mail.in \in Seq(Words)
  BY DEF BootTypes
<1>2. Tail(mail.in) \in Seq(Words) /\ mail'.in = Tail(mail.in)
  BY <1>1
<1>3. mail' \in [in : Seq(Words), out : Seq(Words)]
  BY <1>1, <1>2
<1> QED
  BY <1>1, <1>2, <1>3

(* The acknowledgement of the reset, or none.                              *)
LEMMA HelloBoot ==
  ASSUME BootInv, Hello
  PROVE  BootInv'
<1>0. BootTypes /\ Order /\ LaunchKept /\ stopped # "idle"
  BY InvOrder DEF BootInv
<1>1. Before(0, "hello") /\ machine = "rp2040"
  BY LaunchIsPico DEF Hello
<1>2. /\ mail' \in [in : Seq(Words), out : Seq(Words)]
      /\ \A k \in 1 .. Len(mail'.in) : mail'.in[k] = "entry" => rom.at = "entered"
  <2>1. CASE mail' = mail
    BY <1>0, <2>1 DEF BootTypes, LaunchKept
  <2>2. CASE mail.in # <<>> /\ mail' = [mail EXCEPT !.in = Tail(@)]
    <3>1. mail' \in [in : Seq(Words), out : Seq(Words)]
          /\ \A k \in 1 .. Len(mail'.in) : k + 1 \in 1 .. Len(mail.in) /\ mail'.in[k] = mail.in[k + 1]
      BY <1>0, <2>2, ReadMail
    <3> QED
      BY <1>0, <3>1 DEF LaunchKept
  <2> QED
    BY <2>1, <2>2 DEF Hello
<1>3. todo' = todo \/ Goes(0)
  BY DEF Hello
<1>4. BootTypes' /\ stopped' # "idle"
  BY <1>0, <1>2, <1>3 DEF Hello, Stops, BootTypes, Goes
<1>5. ASSUME \A y : Done(0, y)' <=> Done(0, y) \/ (todo' # todo /\ y = "hello") PROVE LaunchKept'
  <2>1. UNCHANGED <<machine, rom, proto>>
    BY DEF Hello
  <2>2. (Done(0, "exchange")' <=> Done(0, "exchange")) /\ (Done(0, "drain")' <=> Done(0, "drain"))
    BY <1>5
  <2> QED
    BY <1>0, <1>1, <1>2, <2>1, <2>2 DEF LaunchKept
<1> QED
  BY <1>0, <1>1, <1>3, <1>4, <1>5, LaunchStepBoot DEF Hello

(* Only the last command is the entry point.                               *)
LEMMA CommandWords ==
  /\ \A n \in 0 .. 5 : Commands[n + 1] \in Words /\ (Commands[n + 1] = "entry" <=> n = 5)
  /\ Junk \in Words /\ Junk # "entry"
  BY DEF Commands, Words, Junk

(* accept_echo: the sixth echo is that of the entry point.                 *)
LEMMA TakeEchoBoot ==
  ASSUME BootInv, TakeEcho
  PROVE  BootInv'
<1>0. BootTypes /\ Order /\ LaunchKept /\ stopped # "idle"
  BY InvOrder DEF BootInv
<1>1. Before(0, "exchange") /\ machine = "rp2040"
  BY LaunchIsPico DEF TakeEcho
<1>2. ~Done(0, "exchange") /\ Done(0, "drain") /\ proto.next \in 0 .. 5
  BY <1>0, <1>1 DEF Order, LaunchKept, BootTypes
<1>3. CASE mail.in # <<>> /\ mail' = [mail EXCEPT !.in = Tail(@)]
           /\ proto' = [proto EXCEPT !.next = AcceptEcho(Head(mail.in)), !.sent = FALSE]
  <2>1. /\ mail' \in [in : Seq(Words), out : Seq(Words)]
        /\ Head(mail.in) = mail.in[1] /\ 1 \in 1 .. Len(mail.in)
        /\ \A k \in 1 .. Len(mail'.in) : k + 1 \in 1 .. Len(mail.in) /\ mail'.in[k] = mail.in[k + 1]
    BY <1>0, <1>3, ReadMail
  <2>2. AcceptEcho(Head(mail.in)) \in 0 .. 6 /\ (AcceptEcho(Head(mail.in)) = 6 => Head(mail.in) = "entry")
    BY <1>2, CommandWords DEF AcceptEcho
  <2>3. proto \in [next : 0 .. 6, exchanges : Nat, sent : BOOLEAN]
    BY <1>0 DEF BootTypes
  <2>4. proto' \in [next : 0 .. 6, exchanges : Nat, sent : BOOLEAN] /\ proto'.next = AcceptEcho(Head(mail.in))
    BY <1>3, <2>2, <2>3
  <2>5. proto'.next = 6 => rom.at = "entered"
    BY <1>0, <2>1, <2>2, <2>4 DEF LaunchKept
  <2>6. /\ UNCHANGED <<machine, bootHeld, idle, cur, joined, traps, unmasked, pending, raised, rom, readied>>
        /\ IF proto'.next = 6 THEN Goes(0) ELSE todo' = todo
        /\ stopped' # "idle"
    BY <1>0, <1>3 DEF TakeEcho, Stops
  <2>7. BootTypes'
    BY <1>0, <2>1, <2>4, <2>6 DEF BootTypes, Goes
  <2>8. proto'.next = 6 <=> todo' # todo
    <3>1. todo[0] # <<>> /\ todo[0] \in Seq(AllSteps) /\ DOMAIN todo = Cores2
      BY <1>0, <1>1 DEF Before, BootInv, BootTypes, OnItsList, EndOf, Entered, Cores2
    <3>2. Len(Tail(todo[0])) # Len(todo[0])
      BY <3>1
    <3>3. Goes(0) => todo'[0] = Tail(todo[0])
      BY <3>1 DEF Goes, Cores2
    <3> QED
      BY <2>6, <3>2, <3>3
  <2>9. ASSUME \A y : Done(0, y)' <=> Done(0, y) \/ (todo' # todo /\ y = "exchange") PROVE LaunchKept'
    <3>1. (Done(0, "exchange")' <=> proto'.next = 6) /\ (Done(0, "drain")' <=> Done(0, "drain"))
      BY <1>2, <2>8, <2>9
    <3>2. \A k \in 1 .. Len(mail'.in) : mail'.in[k] = "entry" => rom.at = "entered"
      BY <1>0, <2>1 DEF LaunchKept
    <3> QED
      BY <1>0, <1>1, <2>5, <2>6, <3>1, <3>2 DEF LaunchKept
  <2> QED
    BY <1>1, <2>6, <2>7, <2>9, LaunchStepBoot
<1>4. CASE stopped' = "launch" /\ UNCHANGED <<mail, proto, todo>>
  <2>1. BootTypes'
    BY <1>0, <1>4 DEF TakeEcho, BootTypes
  <2>2. ASSUME \A y : Done(0, y)' <=> Done(0, y) \/ (todo' # todo /\ y = "exchange") PROVE LaunchKept'
    BY <1>0, <1>1, <1>4, <2>2 DEF TakeEcho, LaunchKept
  <2> QED
    BY <1>0, <1>1, <1>4, <2>1, <2>2, LaunchStepBoot DEF TakeEcho
<1> QED
  BY <1>3, <1>4 DEF TakeEcho, Stops

(* The wait for the join.                                                  *)
LEMMA AwaitJoinBoot ==
  ASSUME BootInv, AwaitJoin
  PROVE  BootInv'
<1>0. BootTypes /\ Order /\ LaunchKept /\ stopped # "idle"
  BY InvOrder DEF BootInv
<1>1. Before(0, "await") /\ machine = "rp2040"
  BY LaunchIsPico DEF AwaitJoin
<1>2. todo' = todo \/ Goes(0)
  BY DEF AwaitJoin
<1>3. BootTypes' /\ stopped' # "idle"
  BY <1>0, <1>2 DEF AwaitJoin, Stops, BootTypes, Goes
<1>4. ASSUME \A y : Done(0, y)' <=> Done(0, y) \/ (todo' # todo /\ y = "await") PROVE LaunchKept'
  <2>1. UNCHANGED <<machine, rom, proto, mail>>
    BY DEF AwaitJoin
  <2>2. (Done(0, "exchange")' <=> Done(0, "exchange")) /\ (Done(0, "drain")' <=> Done(0, "drain"))
    BY <1>4
  <2> QED
    BY <1>0, <1>1, <2>1, <2>2 DEF LaunchKept
<1> QED
  BY <1>0, <1>1, <1>2, <1>3, <1>4, LaunchStepBoot DEF AwaitJoin

(* A word the ROM of core 1 answers with.                                  *)
LEMMA AnswerMail ==
  ASSUME BootTypes, NEW w \in Words, mail'.in = Append(mail.in, w), mail' \in [in : Seq(Words), out : Seq(Words)],
         NEW E \in BOOLEAN, w = "entry" => E, \A k \in 1 .. Len(mail.in) : mail.in[k] = "entry" => E
  PROVE  \A k \in 1 .. Len(mail'.in) : mail'.in[k] = "entry" => E
<1>1. mail.in \in Seq(Words)
  BY DEF BootTypes
<1> QED
  BY <1>1

(* The ROM echoes, stumbles, or enters core 1.                             *)
LEMMA RomSaysBoot ==
  ASSUME BootInv, RomSays
  PROVE  BootInv'
<1>0. BootTypes /\ Order /\ LaunchKept /\ stopped # "idle" /\ mail.in \in Seq(Words)
  BY InvOrder DEF BootInv, BootTypes
<1>1. machine = "rp2040" /\ Done(0, "drain") /\ rom.at \in {"hello", "listens"} /\ rom.taken \in 0 .. 5
  BY SMTT(30), <1>0 DEF RomSays, BootTypes, LaunchKept
<1>2. /\ UNCHANGED <<machine, bootHeld, idle, cur, joined, traps, unmasked, pending, raised, proto, readied, stopped>>
      /\ rom \in [at : {"running", "reset", "hello", "listens", "entered"}, taken : Nat]
      /\ mail \in [in : Seq(Words), out : Seq(Words)]
  BY <1>0 DEF RomSays, BootTypes
<1>3. ASSUME NEW w \in Words, w # "entry", mail'.in = Append(mail.in, w), mail' \in [in : Seq(Words), out : Seq(Words)],
             rom' \in [at : {"listens"}, taken : 0 .. 5], todo' = todo
      PROVE  BootInv'
  <2>1. BootTypes'
    BY <1>0, <1>2, <1>3 DEF BootTypes
  <2>2. \A k \in 1 .. Len(mail'.in) : mail'.in[k] # "entry"
    <3>1. \A k \in 1 .. Len(mail.in) : mail.in[k] # "entry"
      BY <1>0, <1>1 DEF LaunchKept
    <3> QED
      BY <1>0, <1>3, <3>1, AnswerMail
  <2>3. ASSUME \A y : Done(0, y)' <=> Done(0, y) \/ (todo' # todo /\ y = "hello") PROVE LaunchKept'
    <3>1. (Done(0, "exchange")' <=> Done(0, "exchange")) /\ Done(0, "drain")'
      BY <1>1, <2>3
    <3>2. proto.next # 6
      BY <1>0, <1>1 DEF LaunchKept
    <3> QED
      BY <1>0, <1>1, <1>2, <1>3, <2>2, <3>1, <3>2 DEF LaunchKept
  <2> QED
    BY <1>0, <1>1, <1>2, <1>3, <2>1, <2>3, LaunchStepBoot
<1>4. CASE /\ rom.at = "hello" /\ rom' = [rom EXCEPT !.at = "listens"]
           /\ mail' = [mail EXCEPT !.in = Append(@, "0")] /\ todo' = todo
  <2>1. "0" \in Words /\ "0" # "entry" /\ Append(mail.in, "0") \in Seq(Words)
    BY <1>0 DEF Words
  <2>2. mail'.in = Append(mail.in, "0") /\ mail' \in [in : Seq(Words), out : Seq(Words)]
    BY <1>2, <1>4, <2>1
  <2>3. rom' \in [at : {"listens"}, taken : 0 .. 5]
    BY <1>1, <1>2, <1>4
  <2> QED
    BY <1>3, <1>4, <2>1, <2>2, <2>3
<1>5. CASE rom.at = "listens" /\ mail' = [in |-> Append(mail.in, Junk), out |-> <<>>]
           /\ rom' = [rom EXCEPT !.taken = 0] /\ todo' = todo
  <2>1. Junk \in Words /\ Junk # "entry" /\ Append(mail.in, Junk) \in Seq(Words)
    BY <1>0, CommandWords
  <2>2. mail'.in = Append(mail.in, Junk) /\ mail' \in [in : Seq(Words), out : Seq(Words)]
    BY <1>5, <2>1, EmptySeq
  <2>3. rom' \in [at : {"listens"}, taken : 0 .. 5]
    BY <1>2, <1>5
  <2> QED
    BY <1>3, <1>5, <2>1, <2>2, <2>3
<1>6. CASE /\ rom.at = "listens" /\ mail.out # <<>> /\ Head(mail.out) = Commands[rom.taken + 1]
           /\ mail' = [in |-> Append(mail.in, Head(mail.out)), out |-> <<>>]
           /\ rom' = [at |-> IF rom.taken = 5 THEN "entered" ELSE "listens", taken |-> rom.taken + 1]
           /\ todo' = IF rom.taken = 5 THEN [todo EXCEPT ![1] = PicoCoreOne] ELSE todo
  <2> DEFINE w == Head(mail.out)
  <2>1. w \in Words /\ (w = "entry" <=> rom.taken = 5) /\ Append(mail.in, w) \in Seq(Words)
    BY <1>0, <1>1, <1>6, CommandWords
  <2>2. mail'.in = Append(mail.in, w) /\ mail' \in [in : Seq(Words), out : Seq(Words)]
    BY <1>6, <2>1, EmptySeq
  <2>3. CASE rom.taken # 5
    <3>1. rom' \in [at : {"listens"}, taken : 0 .. 5]
      BY <1>1, <1>6, <2>3
    <3> QED
      BY <1>3, <1>6, <2>1, <2>2, <2>3, <3>1
  <2>4. CASE rom.taken = 5
    <3>1. rom' = [at |-> "entered", taken |-> 6] /\ todo' = [todo EXCEPT ![1] = StepsOf(1)]
      BY <1>1, <1>6, <2>4 DEF StepsOf
    <3>2. BootTypes'
      BY <1>0, <1>2, <2>2, <3>1 DEF BootTypes
    <3>3. ASSUME \A y : Done(0, y)' <=> Done(0, y) PROVE LaunchKept'
      BY <1>0, <1>1, <1>2, <3>1, <3>3 DEF LaunchKept
    <3> QED
      BY <1>1, <1>2, <3>1, <3>2, <3>3, EntersBoot
  <2> QED
    BY <2>3, <2>4
<1> QED
  BY <1>4, <1>5, <1>6 DEF RomSays

(* appcpu::start.                                                          *)
LEMMA AppCpuStartBoot ==
  ASSUME BootInv, AppCpuStart
  PROVE  BootInv'
<1>0. BootTypes /\ LaunchKept
  BY DEF BootInv
<1>1. /\ machine = "esp32" /\ rom.at # "entered" /\ rom' \in [at : {"entered"}, taken : Nat]
      /\ todo' = [todo EXCEPT ![1] = StepsOf(1)]
  BY SMTT(30), <1>0 DEF AppCpuStart, BootTypes, StepsOf
<1>2. BootTypes'
  BY <1>0, <1>1 DEF AppCpuStart, BootTypes
<1>3. ASSUME \A y : Done(0, y)' <=> Done(0, y) PROVE LaunchKept'
  BY <1>0, <1>1 DEF AppCpuStart, LaunchKept
<1> QED
  BY <1>1, <1>2, <1>3, EntersBoot DEF AppCpuStart

(* Nothing is done, and the steps are all ahead.                           *)
LEMMA InitBoot == BootInit => BootInv
<1> SUFFICES ASSUME BootInit PROVE BootInv
  OBVIOUS
<1> USE CoresAre
<1>1. machine \in {"rp2040", "esp32"} /\ DOMAIN todo = Cores2
  BY BootAssumption DEF BootInit, Cores2
<1>2. todo[0] = StepsOf(0) /\ todo[1] = <<>> /\ rom.at = "running" /\ rom.taken = 0
  BY <1>1 DEF BootInit, StepsOf, Cores2
<1>3. mail.in \in Seq(Words) /\ mail.out = <<>> /\ \A k \in 1 .. Len(mail.in) : mail.in[k] # "entry"
  <2>1. mail.in \in {<<>>, <<"0">>, <<Junk, "0">>} /\ mail.out = <<>>
    BY DEF BootInit
  <2>2. \A w \in {<<>>, <<"0">>, <<Junk, "0">>} : w \in Seq(Words) /\ \A k \in 1 .. Len(w) : w[k] # "entry"
    <3>1. "0" \in Words /\ Junk \in Words /\ "0" # "entry" /\ Junk # "entry"
      BY DEF Words, Junk
    <3>2. \A k \in 1 .. Len(<<Junk, "0">>) : <<Junk, "0">>[k] # "entry"
      BY <3>1
    <3>3. \A k \in 1 .. Len(<<"0">>) : <<"0">>[k] # "entry"
      BY <3>1
    <3>4. <<>> \in Seq(Words) /\ <<"0">> \in Seq(Words) /\ <<Junk, "0">> \in Seq(Words)
      BY <3>1
    <3>5. \A k \in 1 .. Len(<<>>) : <<>>[k] # "entry"
      OBVIOUS
    <3> QED
      BY <3>2, <3>3, <3>4, <3>5, Zenon
  <2> QED
    BY <2>1, <2>2
<1>4. BootTypes
  <2>1. mail \in [in : Seq(Words), out : Seq(Words)]
    <3>1. PICK w \in {<<>>, <<"0">>, <<Junk, "0">>} : mail = [in |-> w, out |-> <<>>]
      BY DEF BootInit
    <3>2. w \in Seq(Words) /\ <<>> \in Seq(Words)
      BY <1>3, <3>1
    <3> QED
      BY <3>1, <3>2
  <2>2. traps \in [Cores2 -> SUBSET {"vector", "tick", "switch", "remote", "park"}]
    BY DEF BootInit, Cores2
  <2>3. /\ rom \in [at : {"running", "reset", "hello", "listens", "entered"}, taken : Nat]
        /\ proto \in [next : 0 .. 6, exchanges : Nat, sent : BOOLEAN]
    BY DEF BootInit
  <2> QED
    BY <1>1, <2>1, <2>2, <2>3 DEF BootInit, BootTypes, Cores2
<1>5. OnItsList(0) /\ OnItsList(1)
  <2>1. StepsOf(0) \in Seq(AllSteps)
    BY ListsAre
  <2>2. EndOf(StepsOf(0), StepsOf(0))
    BY <2>1 DEF EndOf
  <2> QED
    BY <1>2, <2>2 DEF OnItsList, Entered
<1>6. \A y : ~Done(1, y)
  BY <1>2 DEF Done, Entered
<1>7. ASSUME NEW i \in 1 .. Len(StepsOf(0)), NEW y, y = StepsOf(0)[i] PROVE ~Done(0, y)
  BY <1>2, <1>7 DEF Done
<1>8. machine = "rp2040" => ~Done(0, "lock") /\ ~Done(0, "idle1") /\ ~Done(0, "exchange") /\ ~Done(0, "drain")
  <2>1. machine = "rp2040" => StepsOf(0) = PicoSteps /\ Len(PicoSteps) = 12
    BY Unrepeating DEF StepsOf
  <2>2. /\ PicoSteps[1] = "lock" /\ PicoSteps[3] = "idle1" /\ PicoSteps[8] = "exchange"
        /\ PicoSteps[6] = "drain"
    BY DEF PicoSteps
  <2> QED
    BY <1>7, <2>1, <2>2
<1>9. machine = "esp32" => ~Done(0, "idle") /\ ~Done(0, "tick") /\ ~Done(0, "switch")
  <2>1. machine = "esp32" => StepsOf(0) = EspSteps /\ Len(EspSteps) = 6
    BY Unrepeating DEF StepsOf
  <2>2. EspSteps[4] = "idle" /\ EspSteps[1] = "tick" /\ EspSteps[2] = "switch"
    BY DEF EspSteps
  <2> QED
    BY <1>7, <2>1, <2>2
<1>10. CoreZeroSet /\ CoreOneSet /\ JoinedIsDone /\ OpenIsDone
  BY <1>1, <1>6, <1>8, <1>9 DEF BootInit, CoreZeroSet, CoreOneSet, JoinedIsDone, OpenIsDone, Cores2
<1>11. LaunchKept
  BY <1>1, <1>2, <1>3, <1>8 DEF BootInit, LaunchKept
<1> QED
  BY <1>4, <1>5, <1>10, <1>11 DEF BootInit, BootInv, Cores2

(* Every step keeps the order.                                             *)
LEMMA NextBoot == BootInv /\ [BootNext]_bootVars => BootInv'
<1> SUFFICES ASSUME BootInv, [BootNext]_bootVars PROVE BootInv'
  OBVIOUS
<1>1. CASE UNCHANGED bootVars
  <2>1. UNCHANGED <<machine, todo, bootHeld, idle, cur, joined, traps, unmasked, pending, raised,
                    mail, rom, proto, readied, stopped>>
    BY <1>1 DEF bootVars
  <2>2. BootTypes'
    BY <2>1 DEF BootInv, BootTypes
  <2>3. ASSUME \A y : Done(0, y)' <=> Done(0, y) \/ (todo' # todo /\ y = "hello") PROVE LaunchKept'
    BY <2>1, <2>3 DEF BootInv, LaunchKept
  <2> QED
    BY <2>1, <2>2, <2>3, LaunchStepBoot DEF BootInv
<1>2. CASE BootNext
  BY <1>2, SectionBoot, SetsUpBoot, InstallIdleBoot, IdleRunsBoot, SetCurrentBoot, MarkJoinedBoot, AppReturnsBoot,
     DrainBoot, MakeReadyBoot, TrapBoot, SendBoot, UnmaskBoot, ResetBoot, HelloBoot, TakeEchoBoot, AwaitJoinBoot,
     RomSaysBoot, AppCpuStartBoot DEF BootNext, Cores2
<1> QED
  BY <1>1, <1>2

(* Both machines start both cores in an order each step of which the next  *)
(* one can rely on, for any number of exchanges, of stumbles of the ROM    *)
(* and of tasks made ready meanwhile (boot.rs, boot_rp2040.rs,             *)
(* multicore.rs, appcpu.rs).                                               *)
THEOREM CoresStart == BootSpec => []BootRight
<1>1. BootInv => BootRight
  <2> SUFFICES ASSUME BootInv PROVE BootRight
    OBVIOUS
  <2> USE CoresAre
  <2>1. BootTypes /\ Order /\ CoreZeroSet /\ CoreOneSet /\ JoinedIsDone /\ OpenIsDone /\ LaunchKept
    BY InvOrder DEF BootInv
  <2>2. 1 \in joined => idle[1] = "running" /\ cur[1]
    BY <2>1 DEF JoinedIsDone, CoreOneSet, Order, BootTypes
  <2>3. ASSUME NEW c \in Cores2, unmasked[c] PROVE {"vector", "tick", "switch"} \subseteq traps[c] /\ cur[c]
    BY <2>1, <2>3 DEF OpenIsDone, CoreZeroSet, CoreOneSet, Order, BootTypes
  <2>4. ASSUME Before(0, "await"), 1 \notin joined PROVE todo[1] # <<>> /\ LockFree(1)
    <3>1. machine = "rp2040"
      BY <2>4, LaunchIsPico
    <3>2. Done(0, "exchange") /\ rom.at = "entered" /\ ~bootHeld
      BY <2>1, <2>4, <3>1 DEF Order, LaunchKept, CoreZeroSet
    <3>3. todo[1] # <<>>
      BY <2>1, <2>4, <3>2 DEF JoinedIsDone, Done, Entered
    <3> QED
      BY <3>2, <3>3 DEF LockFree
  <2> QED
    BY <2>1, <2>2, <2>3, <2>4 DEF BootRight, BootInv, LaunchKept, Cores2
<1> QED
  BY <1>1, InitBoot, NextBoot, PTL DEF BootSpec


(***************************************************************************)
(* The two input queues of the radio.                                      *)
(***************************************************************************)

(* Arithmetic of the rings' indices.                                       *)
Wrapped(a, m) == IF a < m THEN a ELSE a - m

LEMMA WrapIsMod ==
  ASSUME NEW m \in Nat \ {0}, NEW a \in Nat, a < 2 * m
  PROVE  a % m = Wrapped(a, m)
<1>1. CASE a < m
  BY <1>1 DEF Wrapped
<1>2. CASE a >= m
  BY <1>2 DEF Wrapped
<1> QED
  BY <1>1, <1>2

LEMMA DistanceIsMod ==
  ASSUME NEW m \in Nat \ {0}, NEW t \in 0 .. m - 1, NEW d \in 0 .. m - 1
  PROVE  (Wrapped(t + d, m) - t) % m = d
<1>1. CASE t + d < m
  <2>1. Wrapped(t + d, m) - t = d
    BY <1>1 DEF Wrapped
  <2> QED
    BY <2>1
<1>2. CASE t + d >= m
  <2>1. Wrapped(t + d, m) - t = d - m /\ d - m < 0 /\ 0 - m <= d - m /\ d - m \in Int
    BY <1>2 DEF Wrapped
  <2>2. (d - m) % m = d - m + m
    BY <2>1
  <2> QED
    BY <2>1, <2>2
<1> QED
  BY <1>1, <1>2

LEMMA WrapIn ==
  ASSUME NEW m \in Nat \ {0}, NEW a \in Nat, a < 2 * m
  PROVE  Wrapped(a, m) \in 0 .. m - 1
  BY DEF Wrapped

LEMMA WrapApart ==
  ASSUME NEW m \in Nat \ {0}, NEW t \in 0 .. m - 1, NEW i \in 0 .. m - 1, NEW j \in 0 .. m - 1, i # j
  PROVE  Wrapped(t + i, m) # Wrapped(t + j, m)
  BY DEF Wrapped

LEMMA WrapNext ==
  ASSUME NEW m \in Nat \ {0}, NEW t \in 0 .. m - 1, NEW k \in 0 .. m - 1
  PROVE  /\ Wrapped(Wrapped(t + 1, m) + k, m) = Wrapped(t + (k + 1), m)
         /\ Wrapped(Wrapped(t + k, m) + 1, m) = Wrapped(t + (k + 1), m)
  BY DEF Wrapped

LEMMA WrapOne ==
  ASSUME NEW m \in Nat \ {0}, NEW t \in 0 .. m - 1
  PROVE  /\ Wrapped(t + 0, m) = t
         /\ (t + 1) % m = Wrapped(t + 1, m)
         /\ Wrapped(t + 1, m) \in 0 .. m - 1
<1>1. t + 1 \in Nat /\ t + 1 < 2 * m
  OBVIOUS
<1>2. Wrapped(t + 0, m) = t
  BY DEF Wrapped
<1> QED
  BY <1>1, <1>2, WrapIsMod, WrapIn

(* The event ring holds the events accepted and not taken, in order.       *)
EvTyped ==
  /\ evRing \in [slots : [EvSlots -> Nat], head : EvSlots, len : 0 .. QUEUE_LEN, dropped : Nat, age : Nat]
  /\ evPost \in [Posters -> {"idle", "wake"}]
  /\ evTask \in [at : {"pop", "handle", "block", "asleep"}, event : Nat, slept : 0 .. IDLE_WAKE_MS]
  /\ evCount \in [accepted : Nat, taken : Nat]
EvOrdered ==
  /\ evTask.event = evCount.taken
  /\ evRing.len = evCount.accepted - evCount.taken
  /\ \A k \in 0 .. evRing.len - 1 :
       evRing.slots[Wrapped(evRing.head + k, QUEUE_LEN)] = evCount.taken + k + 1
(* An event ages only while the task sleeps, and no more than the sleep    *)
(* does.                                                                   *)
EvAges ==
  /\ evRing.len = 0 => evRing.age = 0
  /\ evTask.at \in {"block", "handle"} => evRing.age = 0
  /\ evTask.at = "asleep" => evRing.age <= evTask.slept
  /\ evRing.age <= IDLE_WAKE_MS
EvInv == EvTyped /\ EvOrdered /\ EvAges

LEMMA InitEvInv == InputInit => EvInv
  BY InputAssumption DEF InputInit, EvInv, EvTyped, EvOrdered, EvAges, EvSlots

LEMMA PostEv ==
  ASSUME EvInv, NEW p \in Posters, post(p)
  PROVE  EvInv'
<1> USE InputAssumption
<1> USE DEF EvInv
<1>1. CASE evRing.len = QUEUE_LEN /\ evRing' = [evRing EXCEPT !.dropped = @ + 1] /\ UNCHANGED <<evPost, evCount>>
  BY <1>1 DEF EvTyped, EvOrdered, EvAges, post
<1>2. CASE evRing.len < QUEUE_LEN
  <2> DEFINE at == (evRing.head + evRing.len) % QUEUE_LEN
  <2>0. /\ QUEUE_LEN \in Nat \ {0} /\ evRing.head \in 0 .. QUEUE_LEN - 1 /\ evRing.len \in 0 .. QUEUE_LEN - 1
        /\ evRing.head + evRing.len \in Nat /\ evRing.head + evRing.len < 2 * QUEUE_LEN
    <3>1. evRing.head \in 0 .. QUEUE_LEN - 1 /\ evRing.len \in 0 .. QUEUE_LEN
      BY DEF EvTyped, EvSlots
    <3>2. QUEUE_LEN \in Nat \ {0}
      OBVIOUS
    <3> QED
      BY <1>2, <3>1, <3>2
  <2>1. at = Wrapped(evRing.head + evRing.len, QUEUE_LEN)
    BY <2>0, WrapIsMod
  <2>2. /\ evRing' = [evRing EXCEPT !.slots[at] = evCount.accepted + 1, !.len = @ + 1]
        /\ evCount' = [evCount EXCEPT !.accepted = @ + 1]
        /\ evPost' = [evPost EXCEPT ![p] = "wake"]
        /\ UNCHANGED evTask
    BY <1>2, <2>0 DEF post
  <2>3. at \in EvSlots
    BY <2>0, <2>1, WrapIn DEF EvSlots
  <2> HIDE DEF at
  <2>4. EvTyped'
    <3>1. evCount.accepted + 1 \in Nat /\ evRing.len + 1 \in 0 .. QUEUE_LEN
      BY <2>0 DEF EvTyped
    <3> QED
      BY <2>2, <2>3, <3>1 DEF EvTyped
  <2>5. ASSUME NEW k \in 0 .. evRing'.len - 1
        PROVE  evRing'.slots[Wrapped(evRing'.head + k, QUEUE_LEN)] = evCount'.taken + k + 1
    <3>1. evRing'.head = evRing.head /\ evRing'.len = evRing.len + 1 /\ evCount'.taken = evCount.taken
          /\ evRing'.slots = [evRing.slots EXCEPT ![at] = evCount.accepted + 1]
      BY <2>2 DEF EvTyped
    <3>2. CASE k = evRing.len
      BY <3>1, <3>2, <2>1, <2>3 DEF EvTyped, EvOrdered
    <3>3. CASE k # evRing.len
      <4>1. k \in 0 .. evRing.len - 1
        BY <3>1, <3>3 DEF EvTyped
      <4>2. Wrapped(evRing.head + k, QUEUE_LEN) # at /\ Wrapped(evRing.head + k, QUEUE_LEN) \in EvSlots
        <5>1. k \in 0 .. QUEUE_LEN - 1 /\ evRing.head + k \in Nat /\ evRing.head + k < 2 * QUEUE_LEN
          BY <2>0, <4>1
        <5> QED
          BY <5>1, <2>0, <2>1, <3>3, WrapIn, WrapApart DEF EvSlots
      <4> QED
        BY <3>1, <4>1, <4>2 DEF EvTyped, EvOrdered
    <3> QED
      BY <3>2, <3>3
  <2>6. EvOrdered'
    BY <2>2, <2>5 DEF EvTyped, EvOrdered
  <2>7. EvAges'
    BY <2>2, <1>2 DEF EvTyped, EvAges
  <2> QED
    BY <2>4, <2>6, <2>7
<1>3. evRing.len \in Nat
  BY DEF EvTyped
<1> QED
  BY <1>1, <1>2, <1>3 DEF post

LEMMA PopEv ==
  ASSUME EvInv, Pop
  PROVE  EvInv'
<1> USE InputAssumption
<1> USE DEF EvInv
<1>1. CASE evRing.len = 0
  BY <1>1 DEF EvTyped, EvOrdered, EvAges, Pop
<1>2. CASE evRing.len > 0
  <2>1. /\ evTask' = [evTask EXCEPT !.at = "handle", !.event = evRing.slots[evRing.head]]
        /\ evRing' = [evRing EXCEPT !.head = (evRing.head + 1) % QUEUE_LEN, !.len = evRing.len - 1, !.age = 0]
        /\ evCount' = [evCount EXCEPT !.taken = evCount.taken + 1]
        /\ UNCHANGED evPost
    BY <1>2 DEF Pop, EvTyped
  <2>2. (evRing.head + 1) % QUEUE_LEN = Wrapped(evRing.head + 1, QUEUE_LEN)
    BY SMTT(30), WrapIsMod DEF EvTyped, EvSlots
  <2>3. Wrapped(evRing.head + 1, QUEUE_LEN) \in EvSlots
    BY SMTT(30) DEF EvTyped, EvSlots, Wrapped
  <2>4. evRing.slots[evRing.head] = evCount.taken + 1
    <3>1. 0 \in 0 .. evRing.len - 1 /\ Wrapped(evRing.head + 0, QUEUE_LEN) = evRing.head
      BY <1>2 DEF EvTyped, EvSlots, Wrapped
    <3> QED
      BY <3>1 DEF EvOrdered, EvTyped
  <2>5. EvTyped'
    <3>1. evRing.len - 1 \in 0 .. QUEUE_LEN /\ evCount.taken + 1 \in Nat
      BY <1>2 DEF EvTyped
    <3> QED
      BY <2>1, <2>2, <2>3, <2>4, <3>1 DEF EvTyped
  <2>6. ASSUME NEW k \in 0 .. evRing'.len - 1
        PROVE  evRing'.slots[Wrapped(evRing'.head + k, QUEUE_LEN)] = evCount'.taken + k + 1
    <3>1. evRing'.head = Wrapped(evRing.head + 1, QUEUE_LEN) /\ evRing'.len = evRing.len - 1
          /\ evRing'.slots = evRing.slots /\ evCount'.taken = evCount.taken + 1
      BY <2>1, <2>2 DEF EvTyped
    <3>2. k + 1 \in 0 .. evRing.len - 1 /\ k \in Nat
      BY <3>1 DEF EvTyped
    <3>3. Wrapped(Wrapped(evRing.head + 1, QUEUE_LEN) + k, QUEUE_LEN) = Wrapped(evRing.head + (k + 1), QUEUE_LEN)
      <4>1. evRing.head \in 0 .. QUEUE_LEN - 1 /\ QUEUE_LEN \in Nat \ {0} /\ k \in 0 .. QUEUE_LEN - 1
        BY SMTT(30), <3>2 DEF EvTyped, EvSlots
      <4> QED
        BY <3>2, <4>1, WrapNext
    <3>4. evRing.slots[Wrapped(evRing.head + (k + 1), QUEUE_LEN)] = evCount.taken + (k + 1) + 1
      BY <3>2 DEF EvOrdered
    <3> QED
      BY <3>1, <3>2, <3>3, <3>4 DEF EvTyped
  <2>7. EvOrdered'
    BY <2>1, <2>4, <2>6, <1>2 DEF EvTyped, EvOrdered
  <2>8. EvAges'
    BY <2>1 DEF EvTyped, EvAges
  <2> QED
    BY <2>5, <2>7, <2>8
<1> QED
  BY <1>1, <1>2 DEF EvTyped

LEMMA TaskEv ==
  ASSUME EvInv, Handle \/ Block \/ BlockTimesOut \/ Millisecond \/ (\E p \in Posters : wake(p))
  PROVE  EvInv'
<1> USE InputAssumption
<1> USE DEF EvInv
<1>1. CASE Handle
  BY <1>1 DEF EvTyped, EvOrdered, EvAges, Handle
<1>2. CASE Block
  <2>1. evTask' = [evTask EXCEPT !.at = "asleep", !.slept = 0] /\ UNCHANGED <<evRing, evPost, evCount>>
    BY <1>2 DEF Block
  <2>2. EvTyped'
    <3>1. 0 \in 0 .. IDLE_WAKE_MS
      OBVIOUS
    <3> QED
      BY <2>1, <3>1 DEF EvTyped
  <2>3. EvOrdered'
    BY <2>1 DEF EvTyped, EvOrdered
  <2>4. evRing.age = 0
    BY <1>2 DEF Block, EvAges
  <2>5. EvAges'
    BY <2>1, <2>4 DEF EvTyped, EvAges
  <2> QED
    BY <2>2, <2>3, <2>5
<1>3. CASE BlockTimesOut
  BY <1>3 DEF EvTyped, EvOrdered, EvAges, BlockTimesOut, Backstop
<1>4. CASE Millisecond
  <2>1. EvTyped'
    BY <1>4 DEF EvTyped, Millisecond, Backstop
  <2>2. EvOrdered'
    BY <1>4 DEF EvTyped, EvOrdered, Millisecond
  <2>3. EvAges'
    BY <1>4 DEF EvTyped, EvAges, Millisecond, Backstop
  <2> QED
    BY <2>1, <2>2, <2>3
<1>5. ASSUME NEW p \in Posters, wake(p) PROVE EvInv'
  <2>1. EvTyped'
    BY <1>5 DEF EvTyped, wake
  <2>2. EvOrdered'
    BY <1>5 DEF EvTyped, EvOrdered, wake
  <2>3. EvAges'
    BY <1>5 DEF EvTyped, EvAges, wake
  <2> QED
    BY <2>1, <2>2, <2>3
<1> QED
  BY <1>1, <1>2, <1>3, <1>4, <1>5

(* The frame ring: the frames whose slot is given back, and those stored,  *)
(* lie between the two indices.                                            *)
Given == rxPop.taken - (IF rxPop.at = "store" THEN 1 ELSE 0)
Kept == rxCount - Given
RxTyped ==
  /\ rx \in [slots : [RxSlotNos -> Nat], head : RxSlotNos, tail : RxSlotNos, dropped : Nat]
  /\ rxPush \in [at : {"idle", "copy", "store"}, head : RxSlotNos]
  /\ rxPop \in [at : {"idle", "copy", "store"}, tail : RxSlotNos, frame : Nat, taken : Nat]
  /\ rxCount \in Nat
RxOrdered ==
  /\ rxPop.frame = rxPop.taken
  /\ rxPop.at # "idle" => rxPop.tail = rx.tail
  /\ rxPop.at # "idle" => Kept > 0
  /\ Given \in Nat /\ Kept \in 0 .. RX_SLOTS - 1
  /\ rx.head = Wrapped(rx.tail + Kept, RX_SLOTS)
  /\ \A k \in 0 .. Kept - 1 : rx.slots[Wrapped(rx.tail + k, RX_SLOTS)] = Given + k + 1
RxPushing ==
  /\ rxPush.at # "idle" => rxPush.head = rx.head /\ Kept < RX_SLOTS - 1
  /\ rxPush.at = "store" => rx.slots[rx.head] = rxCount + 1
RxInv == RxTyped /\ RxOrdered /\ RxPushing

LEMMA InitRxInv == InputInit => RxInv
  BY InputAssumption DEF InputInit, RxInv, RxTyped, RxOrdered, RxPushing, RxSlotNos, Given, Kept, Wrapped

LEMMA RxNumbers ==
  ASSUME RxInv
  PROVE  /\ RX_SLOTS \in Nat \ {0} /\ rx.head \in 0 .. RX_SLOTS - 1 /\ rx.tail \in 0 .. RX_SLOTS - 1
         /\ Kept \in 0 .. RX_SLOTS - 1 /\ Given \in Nat /\ rx.head = Wrapped(rx.tail + Kept, RX_SLOTS)
  BY InputAssumption DEF RxInv, RxTyped, RxOrdered, RxSlotNos

LEMMA PushCheckRx ==
  ASSUME RxInv, RxPushCheck
  PROVE  RxInv'
<1> USE InputAssumption
<1> USE DEF RxInv
<1>1. UNCHANGED <<rx, rxPop, rxCount>> \/ UNCHANGED <<rxPush, rxPop, rxCount>>
  BY DEF RxPushCheck
<1>2. Given' = Given /\ Kept' = Kept
  BY DEF RxPushCheck, Given, Kept
<1>3. CASE ~RxFull(rx.head) /\ rxPush' = [at |-> "copy", head |-> rx.head] /\ UNCHANGED rx
  <2>1. (rx.head + 1) % RX_SLOTS = Wrapped(rx.tail + (Kept + 1), RX_SLOTS)
    BY ZenonT(60), RxNumbers, WrapOne, WrapNext
  <2>2. Kept < RX_SLOTS - 1
    <3>1. Wrapped(rx.tail + (Kept + 1), RX_SLOTS) # rx.tail
      BY <1>3, <2>1 DEF RxFull
    <3> QED
      BY <3>1, RxNumbers DEF Wrapped
  <2>3. RxTyped'
    BY <1>3 DEF RxTyped, RxPushCheck
  <2>4. RxOrdered'
    BY <1>2, <1>3 DEF RxOrdered, RxPushCheck
  <2>5. RxPushing'
    BY <1>2, <1>3, <2>2 DEF RxPushing
  <2> QED
    BY <2>3, <2>4, <2>5
<1>4. CASE rx' = [rx EXCEPT !.dropped = @ + 1] /\ UNCHANGED rxPush
  <2>1. RxTyped'
    BY <1>4 DEF RxTyped, RxPushCheck
  <2>2. rx'.head = rx.head /\ rx'.tail = rx.tail /\ rx'.slots = rx.slots
    BY <1>4 DEF RxTyped
  <2>3. RxOrdered'
    BY <1>2, <1>4, <2>2 DEF RxOrdered, RxPushCheck
  <2>4. RxPushing'
    BY <1>2, <1>4, <2>2 DEF RxPushing, RxPushCheck
  <2> QED
    BY <2>1, <2>3, <2>4
<1> QED
  BY <1>3, <1>4 DEF RxPushCheck

LEMMA PushCopyRx ==
  ASSUME RxInv, RxPushCopy
  PROVE  RxInv'
<1> USE InputAssumption
<1> USE DEF RxInv
<1>1. Given' = Given /\ Kept' = Kept /\ rxPop' = rxPop /\ rxCount' = rxCount
  BY DEF RxPushCopy, Given, Kept
<1>2. /\ rx' = [rx EXCEPT !.slots = [rx.slots EXCEPT ![rx.head] = rxCount + 1]]
      /\ rxPush' = [rxPush EXCEPT !.at = "store"]
      /\ rxPush.head = rx.head /\ Kept < RX_SLOTS - 1
  BY DEF RxPushCopy, RxPushing, RxTyped
<1>3. rx'.head = rx.head /\ rx'.tail = rx.tail /\ rx'.slots = [rx.slots EXCEPT ![rx.head] = rxCount + 1]
  BY <1>2 DEF RxTyped
<1>4. RxTyped'
  BY <1>1, <1>2 DEF RxTyped
<1>5. ASSUME NEW k \in 0 .. Kept - 1
      PROVE  rx'.slots[Wrapped(rx.tail + k, RX_SLOTS)] = Given + k + 1
  <2>1. Wrapped(rx.tail + k, RX_SLOTS) \in RxSlotNos /\ Wrapped(rx.tail + k, RX_SLOTS) # rx.head
    <3>1. k \in 0 .. RX_SLOTS - 1 /\ k # Kept /\ rx.tail + k \in Nat /\ rx.tail + k < 2 * RX_SLOTS
      BY RxNumbers
    <3> QED
      BY <3>1, RxNumbers, WrapIn, WrapApart DEF RxSlotNos
  <2> QED
    BY <1>3, <2>1 DEF RxOrdered, RxTyped
<1>6. RxOrdered'
  BY <1>1, <1>3, <1>5 DEF RxOrdered
<1>7. RxPushing'
  BY <1>1, <1>2, <1>3 DEF RxPushing, RxTyped
<1> QED
  BY <1>4, <1>6, <1>7

LEMMA PushStoreRx ==
  ASSUME RxInv, RxPushStore
  PROVE  RxInv'
<1> USE InputAssumption
<1> USE DEF RxInv
<1>1. (rx.head + 1) % RX_SLOTS = Wrapped(rx.head + 1, RX_SLOTS) /\ Wrapped(rx.head + 1, RX_SLOTS) \in RxSlotNos
  BY RxNumbers, WrapOne DEF RxSlotNos
<1>2. /\ rx' = [rx EXCEPT !.head = Wrapped(rx.head + 1, RX_SLOTS)]
      /\ rxPush' = [rxPush EXCEPT !.at = "idle"]
      /\ rxCount' = rxCount + 1 /\ rxPop' = rxPop
      /\ Kept < RX_SLOTS - 1 /\ rx.slots[rx.head] = rxCount + 1
  BY <1>1 DEF RxPushStore, RxPushing, RxTyped
<1>3. Given' = Given /\ Kept' = Kept + 1
  BY <1>2 DEF Given, Kept, RxOrdered, RxTyped
<1>4. rx'.head = Wrapped(rx.head + 1, RX_SLOTS) /\ rx'.tail = rx.tail /\ rx'.slots = rx.slots
  BY <1>2 DEF RxTyped
<1>5. RxTyped'
  BY <1>1, <1>2 DEF RxTyped
<1>6. rx'.head = Wrapped(rx.tail + (Kept + 1), RX_SLOTS)
  BY <1>4, RxNumbers, WrapNext
<1>7. ASSUME NEW k \in 0 .. Kept
      PROVE  rx.slots[Wrapped(rx.tail + k, RX_SLOTS)] = Given + k + 1
  <2>1. CASE k = Kept
    <3>1. Given + Kept = rxCount
      BY DEF Kept, RxOrdered, RxTyped
    <3> QED
      BY <1>2, <2>1, <3>1 DEF RxOrdered
  <2>2. CASE k # Kept
    <3>1. k \in 0 .. Kept - 1
      BY <2>2 DEF RxOrdered
    <3> QED
      BY <3>1 DEF RxOrdered
  <2> QED
    BY <2>1, <2>2
<1>8. RxOrdered'
  <2>1. Kept + 1 \in 0 .. RX_SLOTS - 1 /\ Kept + 1 > 0 /\ 0 .. Kept + 1 - 1 = 0 .. Kept
    BY <1>2 DEF RxOrdered
  <2> QED
    BY <1>2, <1>3, <1>4, <1>6, <1>7, <2>1 DEF RxOrdered
<1>9. RxPushing'
  BY <1>2 DEF RxPushing, RxTyped
<1> QED
  BY <1>5, <1>8, <1>9

LEMMA PopRx ==
  ASSUME RxInv, RxPopCheck \/ RxPopCopy \/ RxPopStore
  PROVE  RxInv'
<1> USE InputAssumption
<1> USE DEF RxInv
<1>1. CASE RxPopCheck
  <2>1. Given' = Given /\ Kept' = Kept
    BY <1>1 DEF RxPopCheck, Given, Kept, RxTyped
  <2>2. Kept > 0
    BY SMTT(30), <1>1 DEF RxPopCheck, RxOrdered, RxTyped, RxSlotNos, Wrapped
  <2>3. RxTyped'
    BY <1>1 DEF RxTyped, RxPopCheck
  <2>4. RxOrdered'
    BY <1>1, <2>1, <2>2 DEF RxOrdered, RxTyped, RxPopCheck
  <2>5. RxPushing'
    BY <1>1, <2>1 DEF RxPushing, RxPopCheck
  <2> QED
    BY <2>3, <2>4, <2>5
<1>2. CASE RxPopCopy
  <2>1. Given' = Given /\ Kept' = Kept
    BY <1>2 DEF RxPopCopy, Given, Kept, RxTyped
  <2>2. rx.slots[rxPop.tail] = rxPop.taken + 1
    <3>1. 0 \in 0 .. Kept - 1 /\ Wrapped(rx.tail + 0, RX_SLOTS) = rx.tail /\ rxPop.tail = rx.tail
      BY SMTT(30), <1>2 DEF RxPopCopy, RxOrdered, RxTyped, RxSlotNos, Wrapped
    <3>2. Given = rxPop.taken
      BY <1>2 DEF RxPopCopy, Given, RxTyped
    <3> QED
      BY <3>1, <3>2 DEF RxOrdered, RxTyped
  <2>3. RxTyped'
    BY <1>2, <2>2 DEF RxTyped, RxPopCopy
  <2>4. RxOrdered'
    BY <1>2, <2>1, <2>2 DEF RxOrdered, RxTyped, RxPopCopy
  <2>5. RxPushing'
    BY <1>2, <2>1 DEF RxPushing, RxPopCopy
  <2> QED
    BY <2>3, <2>4, <2>5
<1>3. CASE RxPopStore
  <2>1. (rx.tail + 1) % RX_SLOTS = Wrapped(rx.tail + 1, RX_SLOTS)
    BY SMTT(30), WrapIsMod DEF RxTyped, RxSlotNos
  <2>2. /\ rx' = [rx EXCEPT !.tail = Wrapped(rx.tail + 1, RX_SLOTS)]
        /\ rxPop' = [rxPop EXCEPT !.at = "idle"]
        /\ rxPush' = rxPush /\ rxCount' = rxCount
        /\ Kept > 0
    BY <1>3, <2>1 DEF RxPopStore, RxOrdered
  <2>3. Given' = Given + 1 /\ Kept' = Kept - 1
    BY <1>3, <2>2 DEF RxPopStore, Given, Kept, RxTyped
  <2>4. rx'.tail = Wrapped(rx.tail + 1, RX_SLOTS) /\ rx'.head = rx.head /\ rx'.slots = rx.slots
    BY <2>2 DEF RxTyped
  <2>5. RxTyped'
    <3>1. Wrapped(rx.tail + 1, RX_SLOTS) \in RxSlotNos
      BY RxNumbers, WrapOne DEF RxSlotNos
    <3> QED
      BY <2>2, <3>1 DEF RxTyped
  <2>6. rx.head = Wrapped(rx'.tail + (Kept - 1), RX_SLOTS)
    <3>1. Kept - 1 \in 0 .. RX_SLOTS - 1 /\ Kept - 1 + 1 = Kept
      BY <2>2, RxNumbers
    <3> QED
      BY <2>4, <3>1, RxNumbers, WrapNext
  <2>7. ASSUME NEW k \in 0 .. Kept - 1 - 1
        PROVE  rx.slots[Wrapped(rx'.tail + k, RX_SLOTS)] = Given + 1 + k + 1
    <3>1. k + 1 \in 0 .. Kept - 1 /\ Wrapped(rx'.tail + k, RX_SLOTS) = Wrapped(rx.tail + (k + 1), RX_SLOTS)
      <4>1. k + 1 \in 0 .. Kept - 1 /\ k \in 0 .. RX_SLOTS - 1
        BY RxNumbers
      <4> QED
        BY <2>4, <4>1, RxNumbers, WrapNext
    <3>2. rx.slots[Wrapped(rx.tail + (k + 1), RX_SLOTS)] = Given + (k + 1) + 1
      BY <3>1 DEF RxOrdered
    <3> QED
      BY <3>1, <3>2 DEF RxOrdered
  <2>8. RxOrdered'
    <3>1. rxPop'.frame = rxPop.frame /\ rxPop'.taken = rxPop.taken /\ rxPop'.at = "idle"
      BY <2>2 DEF RxTyped
    <3> QED
      BY <2>2, <2>3, <2>4, <2>6, <2>7, <3>1 DEF RxOrdered
  <2>9. RxPushing'
    BY <2>2, <2>3, <2>4 DEF RxPushing, RxOrdered
  <2> QED
    BY <2>5, <2>8, <2>9
<1> QED
  BY <1>1, <1>2, <1>3

LEMMA NextInput == EvInv /\ RxInv /\ [InputNext]_inputVars => (EvInv /\ RxInv)'
<1> SUFFICES ASSUME EvInv, RxInv, [InputNext]_inputVars PROVE (EvInv /\ RxInv)'
  OBVIOUS
<1>1. UNCHANGED evVars => EvInv'
  BY DEF evVars, EvInv, EvTyped, EvOrdered, EvAges
<1>2. UNCHANGED rxVars => RxInv'
  BY DEF rxVars, RxInv, RxTyped, RxOrdered, RxPushing, Given, Kept
<1>3. EventsNext => EvInv'
  BY PostEv, PopEv, TaskEv DEF EventsNext
<1>4. FramesNext => RxInv'
  BY PushCheckRx, PushCopyRx, PushStoreRx, PopRx DEF FramesNext
<1> QED
  BY <1>1, <1>2, <1>3, <1>4 DEF InputNext, inputVars

(* Events and frames reach the system in the order they were accepted, and *)
(* no event waits longer than the dispatch task's time-out, for rings of   *)
(* any size and any number of posters, wherever a wake is lost.            *)
THEOREM InputIsInOrder == InputSpec => [](InputInOrder /\ EventNotStuck)
<1>1. InputInit => EvInv /\ RxInv
  BY InitEvInv, InitRxInv
<1>2. EvInv /\ RxInv => InputInOrder /\ EventNotStuck
  <2> SUFFICES ASSUME EvInv, RxInv PROVE InputInOrder /\ EventNotStuck
    OBVIOUS
  <2>1. EventNotStuck
    BY DEF EventNotStuck, EvInv, EvAges
  <2>2. ASSUME rxPush.at = "idle", rxPop.at = "idle"
        PROVE  (rx.head - rx.tail) % RX_SLOTS = rxCount - rxPop.taken
    <3>1. Kept = rxCount - rxPop.taken
      BY <2>2 DEF Kept, Given, RxInv, RxTyped
    <3> QED
      BY SMTT(30), <3>1, InputAssumption, DistanceIsMod DEF RxInv, RxTyped, RxOrdered, RxSlotNos
  <2> QED
    BY <2>1, <2>2 DEF InputInOrder, EvInv, EvOrdered, RxInv, RxOrdered
<1> QED
  BY <1>1, <1>2, NextInput, PTL DEF InputSpec

(* A non-empty set of naturals has a least element.                        *)
LEMMA LeastNat ==
  ASSUME NEW S \in SUBSET Nat, S # {}
  PROVE  \E x \in S : \A y \in S : x <= y
<1> DEFINE R == {ss \in Nat \X Nat : ss[1] < ss[2]}
<1>0. IsWellFoundedOn(R, Nat)
  BY NatLessThanWellFounded DEF OpToRel
<1> HIDE DEF R
<1>1. PICK x \in S : \A y \in S : ~(<<y, x>> \in R)
  BY <1>0, WFMin, Zenon
<1>2. \A y \in S : ~(y < x)
  BY <1>1, Zenon DEF R
<1> QED
  BY <1>2

(***************************************************************************)
(* The Wi-Fi library's timers.                                             *)
(***************************************************************************)

(* A timer that is not in use is not armed; until the service task has     *)
(* gone to sleep nothing is overdue, and while it sleeps nothing was armed *)
(* for a time before it did.                                               *)
EtsTyped ==
  /\ etsNow \in Nat \ {0}
  /\ etsTimers \in [Handles -> [live : BOOLEAN, at : Nat, period : Nat]]
  /\ etsServ \in [at : {"read", "set", "sleep", "wait", "due", "call"}, next : Nat, wake : Nat,
                  due : SUBSET Handles]
EtsLate ==
  /\ \A h \in Handles : ~etsTimers[h].live => etsTimers[h].at = 0
  /\ etsServ.at \in {"read", "set", "sleep", "call"} =>
       \A h \in Handles : etsTimers[h].at # 0 => etsNow <= etsTimers[h].at
  /\ etsServ.at = "wait" =>
       /\ etsNow <= etsServ.wake /\ etsServ.wake <= etsNow + IDLE_WAKE
       /\ \A h \in Handles : etsTimers[h].at # 0 => etsServ.wake - IDLE_WAKE <= etsTimers[h].at
  /\ \A h \in Handles : etsTimers[h].at # 0 => etsNow - etsTimers[h].at <= IDLE_WAKE
EtsInv == EtsTyped /\ EtsLate

LEMMA NextDeadlineType ==
  ASSUME EtsTyped
  PROVE  next_deadline \in Nat
<1>1. CASE Armed = {}
  BY <1>1 DEF next_deadline
<1>2. CASE Armed # {}
  <2> DEFINE ats == {etsTimers[h].at : h \in Armed}
  <2>1. ats \in SUBSET Nat /\ ats # {}
    BY <1>2 DEF EtsTyped, Armed
  <2>2. \E a \in ats : \A b \in ats : a <= b
    BY <2>1, LeastNat
  <2>3. (CHOOSE a \in ats : \A b \in ats : a <= b) \in ats
    BY <2>2
  <2> QED
    BY <1>2, <2>1, <2>3 DEF next_deadline
<1> QED
  BY <1>1, <1>2

LEMMA InitEts == EtsInit => EtsInv
  BY EtsAssumption DEF EtsInit, EtsInv, EtsTyped, EtsLate, NoTimer

(* What a step that leaves the timers alone must keep.                     *)
LEMMA ServeEts ==
  ASSUME EtsInv, ServeRead \/ ServeSet \/ ServeSleep \/ ServeTimesOut \/ on_alarm \/ ServeCall \/ kick
  PROVE  EtsInv'
<1> USE EtsAssumption
<1> USE DEF EtsInv
<1>0. UNCHANGED <<etsNow, etsTimers>>
  BY DEF ServeRead, ServeSet, ServeSleep, ServeTimesOut, on_alarm, ServeCall, kick
<1>1. CASE ServeRead
  BY <1>0, <1>1, NextDeadlineType DEF ServeRead, EtsTyped, EtsLate
<1>2. CASE ServeSet
  BY <1>0, <1>2 DEF ServeSet, EtsTyped, EtsLate
<1>3. CASE ServeSleep
  <2>1. etsServ' = [etsServ EXCEPT !.at = "wait", !.wake = etsNow + IDLE_WAKE] /\ etsServ.at = "sleep"
    BY <1>3 DEF ServeSleep
  <2>2. etsNow \in Nat /\ IDLE_WAKE \in Nat /\ etsNow + IDLE_WAKE \in Nat
    BY DEF EtsTyped
  <2>3. EtsTyped'
    BY <1>0, <2>1, <2>2 DEF EtsTyped
  <2>4. etsServ'.at = "wait" /\ etsServ'.wake = etsNow + IDLE_WAKE
    BY <2>1 DEF EtsTyped
  <2>5. EtsLate'
    BY <1>0, <2>1, <2>2, <2>4 DEF EtsLate
  <2> QED
    BY <2>3, <2>5
<1>4. CASE ServeTimesOut
  BY <1>0, <1>4 DEF ServeTimesOut, WaitTimesOut, EtsTyped, EtsLate
<1>5. CASE on_alarm
  BY <1>0, <1>5 DEF on_alarm, EtsTyped, EtsLate
<1>6. CASE ServeCall
  <2>1. PICK h \in etsServ.due :
          etsServ' = [etsServ EXCEPT !.due = @ \ {h}, !.at = IF etsServ.due = {h} THEN "read" ELSE "call"]
    BY <1>6 DEF ServeCall
  <2>2. EtsTyped'
    BY <1>0, <2>1 DEF EtsTyped
  <2>3. EtsLate'
    <3>1. etsServ'.at \in {"read", "call"} /\ etsServ.at = "call"
      BY <1>6, <2>1 DEF ServeCall, EtsTyped
    <3> QED
      BY <1>0, <3>1 DEF EtsLate
  <2> QED
    BY <2>2, <2>3
<1>7. CASE kick
  BY <1>0, <1>7 DEF kick, EtsTyped, EtsLate
<1> QED
  BY <1>1, <1>2, <1>3, <1>4, <1>5, <1>6, <1>7

LEMMA CollectEts ==
  ASSUME EtsInv, collect_due
  PROVE  EtsInv'
<1> USE EtsAssumption
<1> USE DEF EtsInv
<1>1. /\ UNCHANGED etsNow
      /\ etsTimers' = [h \in Handles |-> IF h \in Due THEN Rearmed(etsTimers[h]) ELSE etsTimers[h]]
      /\ etsServ' = [etsServ EXCEPT !.at = IF Due = {} THEN "read" ELSE "call", !.due = Due]
  BY DEF collect_due
<1>2. ASSUME NEW h \in Handles
      PROVE  /\ etsTimers'[h] \in [live : BOOLEAN, at : Nat, period : Nat]
             /\ ~etsTimers'[h].live => etsTimers'[h].at = 0
             /\ etsTimers'[h].at # 0 => etsNow <= etsTimers'[h].at
  <2>0. etsTimers[h] \in [live : BOOLEAN, at : Nat, period : Nat] /\ etsNow \in Nat \ {0}
    BY DEF EtsTyped
  <2>1. CASE h \in Due
    <3> DEFINE s == etsTimers[h]
               nxt == s.at + s.period
               new == IF s.period = 0 THEN 0 ELSE IF nxt <= etsNow THEN etsNow + s.period ELSE nxt
    <3>1. etsTimers'[h] = [s EXCEPT !.at = new]
      BY <1>1, <2>1 DEF Rearmed
    <3>2. new \in Nat /\ (new # 0 => etsNow <= new)
      BY <2>0
    <3>3. s.live
      BY <2>1 DEF Due, Armed
    <3> HIDE DEF new
    <3> QED
      BY <2>0, <3>1, <3>2, <3>3
  <2>2. CASE h \notin Due
    <3>1. etsTimers'[h] = etsTimers[h]
      BY <1>1, <2>2
    <3>2. etsTimers[h].at # 0 => etsTimers[h].live
      BY DEF EtsLate
    <3>3. etsTimers[h].at # 0 => ~(etsTimers[h].at <= etsNow)
      BY <2>2, <3>2 DEF Due, Armed
    <3> QED
      BY <2>0, <3>1, <3>2, <3>3
  <2> QED
    BY <2>1, <2>2
<1>3. EtsTyped'
  <2>1. Due \in SUBSET Handles
    BY DEF Due, Armed
  <2> QED
    BY <1>1, <1>2, <2>1 DEF EtsTyped
<1>4. EtsLate'
  <2>1. etsServ'.at \in {"read", "call"}
    BY <1>1 DEF EtsTyped
  <2>2. \A h \in Handles : etsTimers'[h].at # 0 => etsNow - etsTimers'[h].at <= IDLE_WAKE
    <3> TAKE h \in Handles
    <3>1. etsTimers'[h].at \in Nat /\ etsNow \in Nat /\ IDLE_WAKE \in Nat
      BY <1>2 DEF EtsTyped
    <3> QED
      BY <1>2, <3>1
  <2> QED
    BY <1>1, <1>2, <2>1, <2>2 DEF EtsLate
<1> QED
  BY <1>3, <1>4

(* A call of the library changes one timer, to one that is not overdue.    *)
LEMMA ClientEts ==
  ASSUME EtsInv, NEW h \in Handles, NEW v \in [live : BOOLEAN, at : Nat, period : Nat],
         etsTimers' = [etsTimers EXCEPT ![h] = v], UNCHANGED <<etsNow, etsServ>>,
         ~v.live => v.at = 0,
         v.at # 0 => v.at = etsTimers[h].at \/ etsNow <= v.at
  PROVE  EtsInv'
<1> USE EtsAssumption
<1> USE DEF EtsInv
<1>1. EtsTyped'
  BY DEF EtsTyped
<1>2. ASSUME NEW g \in Handles, etsTimers'[g].at # 0
      PROVE  \/ etsTimers'[g].at = etsTimers[g].at /\ etsTimers[g].at # 0
             \/ etsNow <= etsTimers'[g].at /\ etsTimers'[g].at \in Nat
  BY <1>2 DEF EtsTyped
<1>3. etsNow \in Nat /\ IDLE_WAKE \in Nat /\ etsServ.wake \in Nat
  BY DEF EtsTyped
<1>4. \A g \in Handles : ~etsTimers'[g].live => etsTimers'[g].at = 0
  BY DEF EtsTyped, EtsLate
<1>5. etsServ.at \in {"read", "set", "sleep", "call"} =>
        \A g \in Handles : etsTimers'[g].at # 0 => etsNow <= etsTimers'[g].at
  BY <1>2 DEF EtsLate
<1>6. etsServ.at = "wait" =>
        \A g \in Handles : etsTimers'[g].at # 0 => etsServ.wake - IDLE_WAKE <= etsTimers'[g].at
  BY <1>2, <1>3 DEF EtsLate
<1>7. \A g \in Handles : etsTimers'[g].at # 0 => etsNow - etsTimers'[g].at <= IDLE_WAKE
  BY <1>2, <1>3 DEF EtsLate
<1>8. EtsLate'
  BY <1>4, <1>5, <1>6, <1>7 DEF EtsLate
<1> QED
  BY <1>1, <1>8

LEMMA CallEts ==
  ASSUME EtsInv, NEW h \in Handles,
         timer_setfn(h) \/ timer_disarm(h) \/ timer_done(h) \/ \E d \in Delays, r \in BOOLEAN : arm(h, d, r)
  PROVE  EtsInv'
<1> USE EtsAssumption
<1>0. etsTimers[h] \in [live : BOOLEAN, at : Nat, period : Nat] /\ etsTimers \in [Handles -> [live : BOOLEAN, at : Nat, period : Nat]]
      /\ etsNow \in Nat \ {0} /\ (~etsTimers[h].live => etsTimers[h].at = 0)
  BY DEF EtsInv, EtsTyped, EtsLate
<1>1. CASE timer_setfn(h)
  <2> DEFINE v == [etsTimers[h] EXCEPT !.live = TRUE]
  <2>1. etsTimers' = [etsTimers EXCEPT ![h] = v] /\ UNCHANGED <<etsNow, etsServ>>
    BY <1>0, <1>1 DEF timer_setfn
  <2>2. v \in [live : BOOLEAN, at : Nat, period : Nat] /\ v.live /\ v.at = etsTimers[h].at
    BY <1>0
  <2> HIDE DEF v
  <2> QED
    BY <2>1, <2>2, ClientEts
<1>2. CASE timer_disarm(h)
  <2> DEFINE v == [etsTimers[h] EXCEPT !.at = 0, !.period = 0]
  <2>1. etsTimers' = [etsTimers EXCEPT ![h] = v] /\ UNCHANGED <<etsNow, etsServ>>
    BY <1>0, <1>2 DEF timer_disarm
  <2>2. v \in [live : BOOLEAN, at : Nat, period : Nat] /\ v.at = 0
    BY <1>0
  <2> HIDE DEF v
  <2> QED
    BY <2>1, <2>2, ClientEts
<1>3. CASE timer_done(h)
  <2>1. etsTimers' = [etsTimers EXCEPT ![h] = NoTimer] /\ UNCHANGED <<etsNow, etsServ>>
    BY <1>3 DEF timer_done
  <2>2. NoTimer \in [live : BOOLEAN, at : Nat, period : Nat] /\ NoTimer.at = 0
    BY DEF NoTimer
  <2> QED
    BY <2>1, <2>2, ClientEts
<1>4. ASSUME NEW d \in Delays, NEW r \in BOOLEAN, arm(h, d, r) PROVE EtsInv'
  <2> DEFINE v == [live |-> TRUE, at |-> NotBefore(etsNow + d, 1), period |-> IF r THEN d ELSE 0]
  <2>1. etsTimers' = [etsTimers EXCEPT ![h] = v] /\ UNCHANGED <<etsNow, etsServ>>
    BY <1>4 DEF arm
  <2>2. d \in Nat /\ NotBefore(etsNow + d, 1) \in Nat /\ etsNow <= NotBefore(etsNow + d, 1)
    <3>1. d \in Nat
      OBVIOUS
    <3> QED
      BY <1>0, <3>1 DEF NotBefore
  <2>3. v \in [live : BOOLEAN, at : Nat, period : Nat] /\ v.live /\ etsNow <= v.at
    BY <2>2
  <2> HIDE DEF v
  <2> QED
    BY <2>1, <2>3, ClientEts
<1> QED
  BY <1>1, <1>2, <1>3, <1>4

LEMMA NextEts == EtsInv /\ [EtsNext]_etsVars => EtsInv'
<1> SUFFICES ASSUME EtsInv, [EtsNext]_etsVars PROVE EtsInv'
  OBVIOUS
<1>1. CASE UNCHANGED etsVars
  BY <1>1 DEF etsVars, EtsInv, EtsTyped, EtsLate
<1>2. CASE TimePasses
  <2>1. etsNow' = etsNow + 1 /\ UNCHANGED <<etsTimers, etsServ>> /\ etsServ.at = "wait" /\ etsNow < etsServ.wake
    BY <1>2 DEF TimePasses, WaitTimesOut, EtsInv, EtsTyped
  <2>2. etsNow \in Nat /\ IDLE_WAKE \in Nat /\ etsServ.wake \in Nat /\ \A h \in Handles : etsTimers[h].at \in Nat
    BY EtsAssumption DEF EtsInv, EtsTyped
  <2>3. EtsTyped'
    BY <2>1, <2>2 DEF EtsInv, EtsTyped
  <2>4. EtsLate'
    BY <2>1, <2>2 DEF EtsInv, EtsLate
  <2> QED
    BY <2>3, <2>4 DEF EtsInv
<1> QED
  BY <1>1, <1>2, ServeEts, CollectEts, CallEts DEF EtsNext

(* No timer of the library is overdue by more than the service task's      *)
(* time-out, for any timers, delays and table size, whichever kick of the  *)
(* alarm is lost on a service task that is not yet asleep.                 *)
THEOREM TimersLateByBackstop == EtsSpec => []LateByBackstop
<1>1. EtsInv => LateByBackstop
  BY DEF EtsInv, EtsLate, LateByBackstop, Armed
<1> QED
  BY <1>1, InitEts, NextEts, PTL DEF EtsSpec

(***************************************************************************)
(* The Wi-Fi library's tasks, made by one task of the library at a time.   *)
(***************************************************************************)
OneMaker == \A m, k \in Makers : m = k

(* A task from its spawn until its slot is given back.                     *)
Live(i) == blobTcb[i].at = "ready" \/ Runs(i)
Preparing(m) == maker[m].at \in {"claimed", "stored"}
BlobId == BlobIds \cup {NO_TASK}

BlobTyped ==
  /\ blobSlots \in [SlotNos -> [used : BOOLEAN, entry : Nat, task : BlobId]]
  /\ blobTcb \in [BlobIds -> [at : {"none", "ready", "in", "left"}, slot : SlotNos, made : Nat, entry : Nat,
                              task : BlobId, sem : Nat]]
  /\ maker \in [Makers -> [at : {"idle", "claimed", "stored", "spawned", "deleting"}, slot : SlotNos,
                           id : BlobId, made : Nat]]
  /\ semphrs \in [BlobIds -> Nat] /\ made \in Nat
(* A live task's slot is its own, and holds its entry.                     *)
SlotsOwn ==
  /\ \A i \in BlobIds : Live(i) =>
       LET s == blobSlots[blobTcb[i].slot]
       IN  s.used /\ s.entry = blobTcb[i].made /\ s.task \in {NO_TASK, i}
  /\ \A i, j \in BlobIds : Live(i) /\ Live(j) /\ i # j => blobTcb[i].slot # blobTcb[j].slot
TasksOwn ==
  \A i \in BlobIds : Runs(i) =>
    /\ blobTcb[i].entry = blobTcb[i].made /\ blobTcb[i].task = i
    /\ blobTcb[i].sem \in {0, blobTcb[i].made}
    /\ blobSlots[blobTcb[i].slot].task = i
(* A slot being prepared is nobody's yet, and while create has still to    *)
(* record the id, its slot belongs to that task or to none.                *)
MakersOwn ==
  \A m \in Makers :
    /\ Preparing(m) => /\ \A i \in BlobIds : Live(i) => blobTcb[i].slot # maker[m].slot
                       /\ blobSlots[maker[m].slot].used /\ blobSlots[maker[m].slot].task = NO_TASK
    /\ maker[m].at = "stored" => blobSlots[maker[m].slot].entry = maker[m].made
    /\ maker[m].at \in {"spawned", "deleting"} => maker[m].id \in BlobIds
    /\ maker[m].at = "spawned" =>
         \A i \in BlobIds : Live(i) /\ blobTcb[i].slot = maker[m].slot => i = maker[m].id
    /\ maker[m].at = "deleting" => blobTcb[maker[m].id].at = "in"
(* Only a task in the library has a semaphore, and it is its own.          *)
SemaphoresOwn ==
  \A i \in BlobIds : semphrs[i] \in IF Runs(i) THEN {0, blobTcb[i].made} ELSE {0}
(* A task that has not entered the library has asked for nothing.          *)
Unentered == \A i \in BlobIds : blobTcb[i].at \in {"none", "ready"} => blobTcb[i].sem = 0
BlobInv == BlobTyped /\ SlotsOwn /\ TasksOwn /\ MakersOwn /\ SemaphoresOwn /\ Unentered

LEMMA InitBlob == BlobInit => BlobInv
<1> SUFFICES ASSUME BlobInit PROVE BlobInv
  OBVIOUS
<1>0. 1 \in SlotNos /\ NO_TASK \in BlobId
  BY BlobAssumption DEF SlotNos, BlobId
<1>1. BlobTyped
  BY <1>0 DEF BlobInit, BlobTyped, FREE, NoBlobTask, IdleMaker
<1>2. \A i \in BlobIds : ~Live(i) /\ ~Runs(i) /\ semphrs[i] = 0
  BY DEF BlobInit, Live, Runs, NoBlobTask
<1>3. \A m \in Makers : maker[m].at = "idle" /\ ~Preparing(m)
  BY DEF BlobInit, IdleMaker, Preparing
<1>4. Unentered
  BY DEF BlobInit, NoBlobTask, Unentered
<1> QED
  BY <1>1, <1>2, <1>3, <1>4 DEF BlobInv, SlotsOwn, TasksOwn, MakersOwn, SemaphoresOwn

LEMMA LeastIn ==
  ASSUME NEW S \in SUBSET Nat, S # {}
  PROVE  Least(S) \in S
<1>1. \E x \in S : \A y \in S : x <= y
  BY LeastNat
<1> QED
  BY <1>1 DEF Least

(* A step that leaves the tasks alone, with no maker deleting before or    *)
(* after it, leaves them live or not.                                      *)
LEMMA SameTasks ==
  ASSUME OneMaker, NEW m \in Makers, UNCHANGED blobTcb, maker[m].at # "deleting", maker'[m].at # "deleting"
  PROVE  \A i \in BlobIds : Runs(i)' = Runs(i) /\ Live(i)' = Live(i)
  BY DEF OneMaker, Runs, Live, Deleting

LEMMA ClaimBlob ==
  ASSUME OneMaker, BlobInv, NEW m \in Makers, claim(m)
  PROVE  BlobInv'
<1> DEFINE free == {k \in SlotNos : ~blobSlots[k].used}
           n == Least(free)
           s == [FREE EXCEPT !.used = TRUE]
           w == [IdleMaker EXCEPT !.at = "claimed", !.slot = n, !.made = made + 1]
<1>1. /\ blobSlots' = [blobSlots EXCEPT ![n] = s] /\ made' = made + 1
      /\ maker' = [maker EXCEPT ![m] = w]
      /\ maker[m].at = "idle" /\ UNCHANGED <<blobTcb, semphrs>>
  BY DEF claim
<1>2. n \in free
  <2>1. free \in SUBSET Nat /\ free # {}
    BY BlobAssumption DEF claim, SlotNos
  <2> QED
    BY <2>1, LeastIn
<1>3. n \in SlotNos /\ ~blobSlots[n].used
  BY <1>2
<1> HIDE DEF n, free
<1>4. /\ s \in [used : BOOLEAN, entry : Nat, task : BlobId] /\ s.used /\ s.task = NO_TASK
      /\ w \in [at : {"idle", "claimed", "stored", "spawned", "deleting"}, slot : SlotNos, id : BlobId, made : Nat]
      /\ w.at = "claimed" /\ w.slot = n
  <2>1. made \in Nat /\ NO_TASK \in BlobId
    BY DEF BlobInv, BlobTyped, BlobId
  <2>2. s \in [used : BOOLEAN, entry : Nat, task : BlobId] /\ s.used /\ s.task = NO_TASK
    BY <2>1 DEF FREE
  <2>3. /\ w \in [at : {"idle", "claimed", "stored", "spawned", "deleting"}, slot : SlotNos, id : BlobId, made : Nat]
        /\ w.at = "claimed" /\ w.slot = n
    <3>1. made + 1 \in Nat /\ 1 \in SlotNos
      BY <2>1, BlobAssumption DEF SlotNos
    <3> QED
      BY <1>3, <2>1, <3>1 DEF IdleMaker
  <2> QED
    BY <2>2, <2>3
<1> HIDE DEF s, w
<1>5. BlobTyped'
  BY <1>1, <1>3, <1>4 DEF BlobInv, BlobTyped, BlobId
<1>6. maker'[m] = w
  BY <1>1 DEF BlobInv, BlobTyped
<1>7. \A i \in BlobIds : Runs(i)' = Runs(i) /\ Live(i)' = Live(i)
  BY <1>1, <1>4, <1>6, SameTasks
<1>8. \A i \in BlobIds : Live(i) => blobTcb[i].slot # n /\ blobTcb[i].slot \in SlotNos
                                   /\ blobSlots'[blobTcb[i].slot] = blobSlots[blobTcb[i].slot]
  BY <1>1, <1>3 DEF BlobInv, BlobTyped, SlotsOwn
<1>9. SlotsOwn'
  BY <1>1, <1>7, <1>8 DEF BlobInv, SlotsOwn
<1>10. TasksOwn'
  BY <1>1, <1>7, <1>8 DEF BlobInv, TasksOwn, Live
<1>11. MakersOwn'
  <2>1. blobSlots'[n] = s
    BY <1>1, <1>3 DEF BlobInv, BlobTyped
  <2>2. \A k \in Makers : k = m
    BY DEF OneMaker
  <2>3. maker'[m].slot = n /\ \A i \in BlobIds : Live(i)' => blobTcb'[i].slot # n
    BY <1>1, <1>4, <1>6, <1>7, <1>8
  <2> QED
    BY <1>4, <1>6, <2>1, <2>2, <2>3 DEF MakersOwn, Preparing
<1>12. SemaphoresOwn'
  BY <1>1, <1>7 DEF BlobInv, SemaphoresOwn
<1>13. Unentered'
  BY <1>1 DEF BlobInv, Unentered
<1> QED
  BY <1>5, <1>9, <1>10, <1>11, <1>12, <1>13 DEF BlobInv

LEMMA StoreBlob ==
  ASSUME OneMaker, BlobInv, NEW m \in Makers, StoreEntry(m)
  PROVE  BlobInv'
<1> DEFINE n == maker[m].slot
           s == [blobSlots[n] EXCEPT !.entry = maker[m].made]
           w == [maker[m] EXCEPT !.at = "stored"]
<1>0. n \in SlotNos /\ maker[m] \in [at : {"idle", "claimed", "stored", "spawned", "deleting"}, slot : SlotNos,
                           id : BlobId, made : Nat] /\ blobSlots[n] \in [used : BOOLEAN, entry : Nat, task : BlobId]
  BY DEF BlobInv, BlobTyped
<1>1. /\ blobSlots' = [blobSlots EXCEPT ![n] = s]
      /\ maker' = [maker EXCEPT ![m] = w]
      /\ maker[m].at = "claimed" /\ UNCHANGED <<blobTcb, semphrs, made>>
  BY <1>0 DEF StoreEntry, BlobInv, BlobTyped
<1>4. /\ s \in [used : BOOLEAN, entry : Nat, task : BlobId] /\ s.entry = maker[m].made
      /\ s.used = blobSlots[n].used /\ s.task = blobSlots[n].task
      /\ w \in [at : {"idle", "claimed", "stored", "spawned", "deleting"}, slot : SlotNos, id : BlobId, made : Nat]
      /\ w.at = "stored" /\ w.slot = n /\ w.made = maker[m].made
  BY <1>0
<1> HIDE DEF s, w
<1>5. BlobTyped'
  BY <1>1, <1>0, <1>4 DEF BlobInv, BlobTyped
<1>6. maker'[m] = w /\ blobSlots'[n] = s
  BY <1>1, <1>0 DEF BlobInv, BlobTyped
<1>7. \A i \in BlobIds : Runs(i)' = Runs(i) /\ Live(i)' = Live(i)
  BY <1>1, <1>4, <1>6, SameTasks
<1>8. \A i \in BlobIds : Live(i) => blobTcb[i].slot # n /\ blobTcb[i].slot \in SlotNos
                                   /\ blobSlots'[blobTcb[i].slot] = blobSlots[blobTcb[i].slot]
  BY <1>1 DEF BlobInv, BlobTyped, MakersOwn, Preparing
<1>9. SlotsOwn'
  BY <1>1, <1>7, <1>8 DEF BlobInv, SlotsOwn
<1>10. TasksOwn'
  BY <1>1, <1>7, <1>8 DEF BlobInv, TasksOwn, Live
<1>11. MakersOwn'
  <2>1. blobSlots[n].used /\ blobSlots[n].task = NO_TASK
    BY <1>1 DEF BlobInv, MakersOwn, Preparing
  <2>2. \A k \in Makers : k = m
    BY DEF OneMaker
  <2>3. maker'[m].slot = n /\ \A i \in BlobIds : Live(i)' => blobTcb'[i].slot # n
    BY <1>1, <1>4, <1>6, <1>7, <1>8
  <2> QED
    BY <1>4, <1>6, <2>1, <2>2, <2>3 DEF MakersOwn, Preparing
<1>12. SemaphoresOwn'
  BY <1>1, <1>7 DEF BlobInv, SemaphoresOwn
<1>13. Unentered'
  BY <1>1 DEF BlobInv, Unentered
<1> QED
  BY <1>5, <1>9, <1>10, <1>11, <1>12, <1>13 DEF BlobInv

LEMMA SpawnBlob ==
  ASSUME OneMaker, BlobInv, NEW m \in Makers, Spawn(m)
  PROVE  BlobInv'
<1> DEFINE ids == {i \in BlobIds : blobTcb[i].at = "none"}
           id == Least(ids)
           n == maker[m].slot
<1>0. n \in SlotNos /\ maker[m] \in [at : {"idle", "claimed", "stored", "spawned", "deleting"}, slot : SlotNos,
                           id : BlobId, made : Nat]
  BY DEF BlobInv, BlobTyped
<1>1. CASE ids # {}
  <2> DEFINE t == [NoBlobTask EXCEPT !.at = "ready", !.slot = n, !.made = maker[m].made]
             w == [maker[m] EXCEPT !.at = "spawned", !.id = id]
  <2>1. id \in BlobIds /\ blobTcb[id].at = "none"
    <3>1. ids \in SUBSET Nat
      BY BlobAssumption
    <3>2. id \in ids
      BY <1>1, <3>1, LeastIn
    <3> QED
      BY <3>2
  <2>2. /\ blobTcb' = [blobTcb EXCEPT ![id] = t]
        /\ maker' = [maker EXCEPT ![m] = w]
        /\ maker[m].at = "stored" /\ UNCHANGED <<blobSlots, semphrs, made>>
    BY <1>0, <1>1 DEF Spawn, BlobInv, BlobTyped
  <2> HIDE DEF id, ids
  <2>3. /\ t \in [at : {"none", "ready", "in", "left"}, slot : SlotNos, made : Nat, entry : Nat,
                              task : BlobId, sem : Nat]
        /\ t.at = "ready" /\ t.sem = 0 /\ t.slot = n /\ t.made = maker[m].made
        /\ w \in [at : {"idle", "claimed", "stored", "spawned", "deleting"}, slot : SlotNos, id : BlobId, made : Nat]
        /\ w.at = "spawned" /\ w.slot = n /\ w.id = id
    BY <1>0, <2>1 DEF NoBlobTask, BlobId
  <2> HIDE DEF t, w
  <2>4. BlobTyped'
    BY <1>0, <2>1, <2>2, <2>3 DEF BlobInv, BlobTyped, BlobId
  <2>5. maker'[m] = w /\ blobTcb'[id] = t /\ \A i \in BlobIds \ {id} : blobTcb'[i] = blobTcb[i]
    BY <2>1, <2>2 DEF BlobInv, BlobTyped
  <2>6. /\ \A i \in BlobIds : Runs(i)' = Runs(i) /\ (Live(i)' = (Live(i) \/ i = id))
        /\ ~Runs(id) /\ ~Live(id)
    BY <2>1, <2>2, <2>3, <2>5 DEF OneMaker, Runs, Live, Deleting
  <2>7. /\ \A i \in BlobIds : Live(i) => blobTcb[i].slot # n
        /\ blobSlots[n].used /\ blobSlots[n].task = NO_TASK /\ blobSlots[n].entry = maker[m].made
    BY <2>2 DEF BlobInv, MakersOwn, Preparing
  <2>8. SlotsOwn'
    <3>1. ASSUME NEW i \in BlobIds, Live(i)'
          PROVE  LET z == blobSlots'[blobTcb'[i].slot]
                 IN  z.used /\ z.entry = blobTcb'[i].made /\ z.task \in {NO_TASK, i}
      <4>1. CASE i = id
        BY <2>2, <2>3, <2>5, <2>7, <4>1
      <4>2. CASE i # id
        <5>1. Live(i) /\ blobTcb'[i] = blobTcb[i]
          BY <2>5, <2>6, <3>1, <4>2
        <5> QED
          BY <2>2, <5>1 DEF BlobInv, SlotsOwn
      <4> QED
        BY <4>1, <4>2
    <3>2. ASSUME NEW i \in BlobIds, NEW j \in BlobIds, Live(i)', Live(j)', i # j
          PROVE  blobTcb'[i].slot # blobTcb'[j].slot
      <4>1. \A k \in {i, j} : k = id \/ (Live(k) /\ blobTcb'[k] = blobTcb[k])
        BY <2>5, <2>6, <3>2
      <4> QED
        BY <2>3, <2>5, <2>7, <3>2, <4>1 DEF BlobInv, SlotsOwn
    <3> QED
      BY <3>1, <3>2 DEF SlotsOwn
  <2>9. TasksOwn'
    BY <2>2, <2>5, <2>6 DEF BlobInv, TasksOwn
  <2>10. MakersOwn'
    <3>1. \A k \in Makers : k = m
      BY DEF OneMaker
    <3>2. \A i \in BlobIds : Live(i)' /\ blobTcb'[i].slot = n => i = id
      BY <2>5, <2>6, <2>7
    <3> QED
      BY <2>1, <2>3, <2>5, <3>1, <3>2 DEF MakersOwn, Preparing
  <2>11. SemaphoresOwn'
    BY <2>2, <2>5, <2>6 DEF BlobInv, SemaphoresOwn
  <2>12. Unentered'
    BY <2>3, <2>5 DEF BlobInv, Unentered
  <2> QED
    BY <2>4, <2>8, <2>9, <2>10, <2>11, <2>12 DEF BlobInv
<1>2. CASE ids = {}
  <2>1. /\ blobSlots' = [blobSlots EXCEPT ![n] = FREE]
        /\ maker' = [maker EXCEPT ![m] = IdleMaker]
        /\ maker[m].at = "stored" /\ UNCHANGED <<blobTcb, semphrs, made>>
    BY <1>2 DEF Spawn
  <2>2. IdleMaker = [at |-> "idle", slot |-> 1, id |-> NO_TASK, made |-> 0] /\ 1 \in SlotNos
        /\ FREE \in [used : BOOLEAN, entry : Nat, task : BlobId]
    BY BlobAssumption DEF IdleMaker, FREE, SlotNos, BlobId
  <2>3. BlobTyped'
    BY <1>0, <2>1, <2>2 DEF BlobInv, BlobTyped, BlobId
  <2>4. maker'[m].at = "idle"
    BY <2>1, <2>2 DEF BlobInv, BlobTyped
  <2>5. \A i \in BlobIds : Runs(i)' = Runs(i) /\ Live(i)' = Live(i)
    BY <2>1, <2>4, SameTasks
  <2>6. \A i \in BlobIds : Live(i) => blobSlots'[blobTcb[i].slot] = blobSlots[blobTcb[i].slot]
    BY <2>1 DEF BlobInv, BlobTyped, MakersOwn, Preparing
  <2>7. SlotsOwn'
    BY <2>1, <2>5, <2>6 DEF BlobInv, SlotsOwn
  <2>8. TasksOwn'
    BY <2>1, <2>5, <2>6 DEF BlobInv, TasksOwn, Live
  <2>9. MakersOwn'
    BY <2>4 DEF OneMaker, MakersOwn, Preparing
  <2>10. SemaphoresOwn'
    BY <2>1, <2>5 DEF BlobInv, SemaphoresOwn
  <2>11. Unentered'
    BY <2>1 DEF BlobInv, Unentered
  <2> QED
    BY <2>3, <2>7, <2>8, <2>9, <2>10, <2>11 DEF BlobInv
<1> QED
  BY <1>1, <1>2

LEMMA RecordBlob ==
  ASSUME OneMaker, BlobInv, NEW m \in Makers, RecordTask(m)
  PROVE  BlobInv'
<1> DEFINE n == maker[m].slot
           t == IF blobSlots[n].task = NO_TASK THEN maker[m].id ELSE blobSlots[n].task
           s == [blobSlots[n] EXCEPT !.task = t]
           w == [maker[m] EXCEPT !.at = "idle"]
<1>0. n \in SlotNos /\ maker[m] \in [at : {"idle", "claimed", "stored", "spawned", "deleting"}, slot : SlotNos,
                           id : BlobId, made : Nat] /\ blobSlots[n] \in [used : BOOLEAN, entry : Nat, task : BlobId]
  BY DEF BlobInv, BlobTyped
<1>1. /\ blobSlots' = [blobSlots EXCEPT ![n] = s]
      /\ maker' = [maker EXCEPT ![m] = w]
      /\ maker[m].at = "spawned" /\ UNCHANGED <<blobTcb, semphrs, made>>
  BY <1>0 DEF RecordTask, BlobInv, BlobTyped
<1>2. maker[m].id \in BlobIds /\ \A i \in BlobIds : Live(i) /\ blobTcb[i].slot = n => i = maker[m].id
  BY <1>1 DEF BlobInv, MakersOwn
<1>3. t \in BlobId
  BY <1>0, <1>2 DEF BlobId
<1>4. /\ s \in [used : BOOLEAN, entry : Nat, task : BlobId] /\ s.entry = blobSlots[n].entry
      /\ s.used = blobSlots[n].used /\ s.task = t
      /\ w \in [at : {"idle", "claimed", "stored", "spawned", "deleting"}, slot : SlotNos, id : BlobId, made : Nat]
      /\ w.at = "idle"
  BY <1>0, <1>3
<1> HIDE DEF s, w
<1>5. BlobTyped'
  BY <1>1, <1>0, <1>4 DEF BlobInv, BlobTyped
<1>6. maker'[m] = w /\ blobSlots'[n] = s /\ \A k \in SlotNos \ {n} : blobSlots'[k] = blobSlots[k]
  BY <1>1, <1>0 DEF BlobInv, BlobTyped
<1>7. \A i \in BlobIds : Runs(i)' = Runs(i) /\ Live(i)' = Live(i)
  BY <1>1, <1>4, <1>6, SameTasks
<1>8. ASSUME NEW i \in BlobIds, Live(i)
      PROVE  /\ blobSlots'[blobTcb[i].slot].used = blobSlots[blobTcb[i].slot].used
             /\ blobSlots'[blobTcb[i].slot].entry = blobSlots[blobTcb[i].slot].entry
             /\ blobSlots'[blobTcb[i].slot].task \in {i, blobSlots[blobTcb[i].slot].task}
  <2>1. blobTcb[i].slot \in SlotNos
    BY DEF BlobInv, BlobTyped
  <2>2. CASE blobTcb[i].slot = n
    BY <1>2, <1>4, <1>6, <1>8, <2>2
  <2>3. CASE blobTcb[i].slot # n
    BY <1>6, <2>1, <2>3
  <2> QED
    BY <2>2, <2>3
<1>9. SlotsOwn'
  BY <1>1, <1>7, <1>8 DEF BlobInv, SlotsOwn
<1>10. TasksOwn'
  BY <1>1, <1>7, <1>8 DEF BlobInv, TasksOwn, Live
<1>11. MakersOwn'
  BY <1>4, <1>6 DEF OneMaker, MakersOwn, Preparing
<1>12. SemaphoresOwn'
  BY <1>1, <1>7 DEF BlobInv, SemaphoresOwn
<1>13. Unentered'
  BY <1>1 DEF BlobInv, Unentered
<1> QED
  BY <1>5, <1>9, <1>10, <1>11, <1>12, <1>13 DEF BlobInv

(* Giving back task j's slot and semaphore while j stops being live.       *)
LEMMA LeaveBlob ==
  ASSUME BlobInv, NEW j \in BlobIds, release_slot_of(j), Runs(j), ~Live(j)', ~Runs(j)',
         \A i \in BlobIds \ {j} : Runs(i)' = Runs(i) /\ Live(i)' = Live(i) /\ blobTcb'[i] = blobTcb[i]
  PROVE  /\ SlotsOwn' /\ TasksOwn' /\ SemaphoresOwn'
         /\ \A n \in SlotNos : blobSlots[n].task # j => blobSlots'[n] = blobSlots[n]
         /\ blobSlots' \in [SlotNos -> [used : BOOLEAN, entry : Nat, task : BlobId]]
         /\ semphrs' \in [BlobIds -> Nat]
<1>1. /\ semphrs' = [i \in BlobIds |-> IF i = j THEN 0 ELSE semphrs[i]]
      /\ blobSlots' = [n \in SlotNos |->
                         IF blobSlots[n].used /\ blobSlots[n].task = j THEN FREE ELSE blobSlots[n]]
  BY DEF release_slot_of
<1>2. \A n \in SlotNos : blobSlots[n].task # j => blobSlots'[n] = blobSlots[n]
  BY <1>1
<1>3. blobSlots' \in [SlotNos -> [used : BOOLEAN, entry : Nat, task : BlobId]] /\ semphrs' \in [BlobIds -> Nat]
  BY <1>1 DEF BlobInv, BlobTyped, FREE, BlobId
<1>4. ASSUME NEW i \in BlobIds, Live(i)'
      PROVE  i # j /\ Live(i) /\ blobTcb'[i] = blobTcb[i] /\ blobSlots'[blobTcb[i].slot] = blobSlots[blobTcb[i].slot]
  <2>1. i # j /\ Live(i) /\ blobTcb'[i] = blobTcb[i] /\ blobTcb[i].slot \in SlotNos
    BY <1>4 DEF BlobInv, BlobTyped
  <2>2. blobSlots[blobTcb[i].slot].task # j
    BY <2>1, NoTaskIsNoId DEF BlobInv, SlotsOwn
  <2> QED
    BY <1>2, <2>1, <2>2
<1>5. SlotsOwn'
  BY <1>4 DEF BlobInv, SlotsOwn
<1>6. TasksOwn'
  BY <1>4 DEF BlobInv, TasksOwn, Live
<1>7. SemaphoresOwn'
  BY <1>1 DEF BlobInv, SemaphoresOwn
<1> QED
  BY <1>2, <1>3, <1>5, <1>6, <1>7

LEMMA TrampolineBlob ==
  ASSUME OneMaker, BlobInv, NEW j \in BlobIds, trampoline(j)
  PROVE  BlobInv'
<1> DEFINE n == blobTcb[j].slot
           t == IF blobSlots[n].task = NO_TASK THEN j ELSE blobSlots[n].task
           s == [blobSlots[n] EXCEPT !.task = t]
           b == [blobTcb[j] EXCEPT !.at = "in", !.entry = blobSlots[n].entry, !.task = t]
<1>0. /\ n \in SlotNos /\ blobSlots[n] \in [used : BOOLEAN, entry : Nat, task : BlobId]
      /\ blobTcb[j] \in [at : {"none", "ready", "in", "left"}, slot : SlotNos, made : Nat, entry : Nat,
                              task : BlobId, sem : Nat]
  BY DEF BlobInv, BlobTyped
<1>1. /\ blobSlots' = [blobSlots EXCEPT ![n] = s] /\ blobTcb' = [blobTcb EXCEPT ![j] = b]
      /\ UNCHANGED <<maker, semphrs, made>> /\ blobTcb[j].at = "ready"
  BY <1>0 DEF trampoline, BlobInv, BlobTyped
<1>2. Live(j) /\ ~Runs(j) /\ t = j /\ blobSlots[n].used /\ blobSlots[n].entry = blobTcb[j].made
  BY <1>1 DEF Live, Runs, BlobInv, SlotsOwn
<1>3. /\ s \in [used : BOOLEAN, entry : Nat, task : BlobId] /\ s.used /\ s.entry = blobTcb[j].made /\ s.task = j
      /\ b \in [at : {"none", "ready", "in", "left"}, slot : SlotNos, made : Nat, entry : Nat,
                              task : BlobId, sem : Nat]
      /\ b.at = "in" /\ b.slot = n /\ b.made = blobTcb[j].made /\ b.entry = blobTcb[j].made /\ b.task = j
      /\ b.sem = blobTcb[j].sem
  BY <1>0, <1>2 DEF BlobId
<1> HIDE DEF s, b, t
<1>4. BlobTyped'
  BY <1>0, <1>1, <1>3 DEF BlobInv, BlobTyped
<1>5. /\ blobTcb'[j] = b /\ \A i \in BlobIds \ {j} : blobTcb'[i] = blobTcb[i]
      /\ blobSlots'[n] = s /\ \A k \in SlotNos \ {n} : blobSlots'[k] = blobSlots[k]
  BY <1>0, <1>1 DEF BlobInv, BlobTyped
<1>6. ~Deleting(j)
  BY <1>1 DEF Deleting, BlobInv, MakersOwn
<1>7. /\ \A i \in BlobIds \ {j} : Runs(i)' = Runs(i) /\ Live(i)' = Live(i)
      /\ Runs(j)' /\ Live(j)'
  BY <1>1, <1>3, <1>5, <1>6 DEF Runs, Live, Deleting
<1>8. ASSUME NEW i \in BlobIds \ {j}, Live(i)
      PROVE  blobTcb[i].slot # n /\ blobSlots'[blobTcb[i].slot] = blobSlots[blobTcb[i].slot]
  BY <1>2, <1>5, <1>8 DEF BlobInv, BlobTyped, SlotsOwn
<1>9. SlotsOwn'
  <2>1. ASSUME NEW i \in BlobIds, Live(i)'
        PROVE  LET z == blobSlots'[blobTcb'[i].slot]
               IN  z.used /\ z.entry = blobTcb'[i].made /\ z.task \in {NO_TASK, i}
    BY <1>3, <1>5, <1>7, <1>8, <2>1 DEF BlobInv, SlotsOwn
  <2>2. ASSUME NEW i \in BlobIds, NEW k \in BlobIds, Live(i)', Live(k)', i # k
        PROVE  blobTcb'[i].slot # blobTcb'[k].slot
    BY <1>3, <1>5, <1>7, <1>8, <2>2 DEF BlobInv, SlotsOwn
  <2> QED
    BY <2>1, <2>2 DEF SlotsOwn
<1>10. TasksOwn'
  <2>1. blobTcb[j].sem = 0
    BY <1>1 DEF BlobInv, Unentered
  <2> QED
    BY <1>3, <1>5, <1>7, <1>8, <2>1 DEF BlobInv, TasksOwn, Live
<1>11. MakersOwn'
  <2>1. ASSUME NEW m \in Makers, Preparing(m)
        PROVE  maker[m].slot # n /\ blobSlots'[maker[m].slot] = blobSlots[maker[m].slot]
    BY <1>2, <1>5, <2>1 DEF BlobInv, BlobTyped, MakersOwn
  <2>2. \A i \in BlobIds : (Live(i)' <=> Live(i)) /\ blobTcb'[i].slot = blobTcb[i].slot
    <3>1. \A i \in BlobIds \ {j} : (Live(i)' <=> Live(i)) /\ blobTcb'[i].slot = blobTcb[i].slot
      BY <1>5, <1>7
    <3> QED
      BY <1>2, <1>3, <1>5, <1>7, <3>1
  <2>3. \A i \in BlobIds : blobTcb[i].at = "in" => blobTcb'[i].at = "in"
    BY <1>3, <1>5
  <2> QED
    BY <1>1, <2>1, <2>2, <2>3 DEF BlobInv, MakersOwn, Preparing
<1>12. SemaphoresOwn'
  BY <1>1, <1>2, <1>3, <1>5, <1>7 DEF BlobInv, SemaphoresOwn
<1>13. Unentered'
  BY <1>3, <1>5 DEF BlobInv, Unentered
<1> QED
  BY <1>4, <1>9, <1>10, <1>11, <1>12, <1>13 DEF BlobInv

LEMMA SemaphoreBlob ==
  ASSUME OneMaker, BlobInv, NEW j \in BlobIds, wifi_thread_semphr_get(j)
  PROVE  BlobInv'
<1> DEFINE s == IF semphrs[j] # 0 THEN semphrs[j] ELSE blobTcb[j].made
           b == [blobTcb[j] EXCEPT !.sem = s]
<1>0. blobTcb[j] \in [at : {"none", "ready", "in", "left"}, slot : SlotNos, made : Nat, entry : Nat,
                              task : BlobId, sem : Nat]
  BY DEF BlobInv, BlobTyped
<1>1. /\ blobTcb' = [blobTcb EXCEPT ![j] = b] /\ semphrs' = [semphrs EXCEPT ![j] = s] /\ Runs(j)
      /\ UNCHANGED <<blobSlots, maker, made>>
  BY <1>0 DEF wifi_thread_semphr_get, BlobInv, BlobTyped
<1>2. s = blobTcb[j].made
  BY <1>1 DEF BlobInv, SemaphoresOwn
<1>3. /\ b \in [at : {"none", "ready", "in", "left"}, slot : SlotNos, made : Nat, entry : Nat,
                              task : BlobId, sem : Nat]
      /\ b.at = blobTcb[j].at /\ b.slot = blobTcb[j].slot /\ b.made = blobTcb[j].made
      /\ b.entry = blobTcb[j].entry /\ b.task = blobTcb[j].task /\ b.sem = blobTcb[j].made
  BY <1>0, <1>2
<1> HIDE DEF s, b
<1>4. BlobTyped'
  BY <1>0, <1>1, <1>2, <1>3 DEF BlobInv, BlobTyped
<1>5. blobTcb'[j] = b /\ semphrs'[j] = s /\ \A i \in BlobIds \ {j} : blobTcb'[i] = blobTcb[i] /\ semphrs'[i] = semphrs[i]
  BY <1>1 DEF BlobInv, BlobTyped
<1>6. \A i \in BlobIds : /\ Runs(i)' = Runs(i) /\ Live(i)' = Live(i) /\ blobTcb'[i].slot = blobTcb[i].slot
                         /\ blobTcb'[i].made = blobTcb[i].made /\ blobTcb'[i].entry = blobTcb[i].entry
                         /\ blobTcb'[i].task = blobTcb[i].task /\ blobTcb'[i].at = blobTcb[i].at
  BY <1>1, <1>3, <1>5 DEF Runs, Live, Deleting
<1>7. SlotsOwn'
  BY <1>1, <1>6 DEF BlobInv, SlotsOwn
<1>8. TasksOwn'
  BY <1>1, <1>3, <1>5, <1>6 DEF BlobInv, TasksOwn
<1>9. MakersOwn'
  BY <1>1, <1>6 DEF BlobInv, MakersOwn, Preparing
<1>10. SemaphoresOwn'
  BY <1>1, <1>2, <1>5, <1>6 DEF BlobInv, SemaphoresOwn
<1>11. Unentered'
  BY <1>1, <1>5, <1>6 DEF BlobInv, Unentered, Runs
<1> QED
  BY <1>4, <1>7, <1>8, <1>9, <1>10, <1>11 DEF BlobInv

LEMMA ReturnBlob ==
  ASSUME OneMaker, BlobInv, NEW j \in BlobIds, EntryReturns(j) \/ DeleteNull(j)
  PROVE  BlobInv'
<1> DEFINE b == [blobTcb[j] EXCEPT !.at = "left"]
<1>0. blobTcb[j] \in [at : {"none", "ready", "in", "left"}, slot : SlotNos, made : Nat, entry : Nat,
                              task : BlobId, sem : Nat]
  BY DEF BlobInv, BlobTyped
<1>1. /\ Runs(j) /\ release_slot_of(j) /\ UNCHANGED <<maker, made>>
      /\ blobTcb' = [blobTcb EXCEPT ![j] = b]
  <2>1. Runs(j)
    BY DEF EntryReturns, DeleteNull
  <2>2. blobTcb[j].task = j
    BY <2>1 DEF BlobInv, TasksOwn
  <2> QED
    BY <1>0, <2>1, <2>2 DEF EntryReturns, DeleteNull, BlobInv, BlobTyped
<1>2. /\ b \in [at : {"none", "ready", "in", "left"}, slot : SlotNos, made : Nat, entry : Nat,
                              task : BlobId, sem : Nat]
      /\ b.at = "left"
  BY <1>0
<1> HIDE DEF b
<1>3. blobTcb'[j] = b /\ \A i \in BlobIds \ {j} : blobTcb'[i] = blobTcb[i]
  BY <1>1 DEF BlobInv, BlobTyped
<1>4. /\ ~Live(j)' /\ ~Runs(j)'
      /\ \A i \in BlobIds \ {j} : Runs(i)' = Runs(i) /\ Live(i)' = Live(i)
  BY <1>1, <1>2, <1>3 DEF Runs, Live, Deleting
<1>5. /\ SlotsOwn' /\ TasksOwn' /\ SemaphoresOwn'
      /\ \A n \in SlotNos : blobSlots[n].task # j => blobSlots'[n] = blobSlots[n]
      /\ blobSlots' \in [SlotNos -> [used : BOOLEAN, entry : Nat, task : BlobId]]
      /\ semphrs' \in [BlobIds -> Nat]
  BY <1>1, <1>3, <1>4, LeaveBlob
<1>6. BlobTyped'
  BY <1>1, <1>2, <1>5 DEF BlobInv, BlobTyped
<1>7. MakersOwn'
  <2>1. ASSUME NEW m \in Makers, Preparing(m)
        PROVE  blobSlots'[maker[m].slot] = blobSlots[maker[m].slot]
    BY <1>5, <2>1, NoTaskIsNoId DEF BlobInv, BlobTyped, MakersOwn
  <2>2. \A i \in BlobIds : Live(i)' => Live(i) /\ blobTcb'[i] = blobTcb[i]
    BY <1>3, <1>4
  <2>3. \A m \in Makers : maker[m].at = "deleting" => maker[m].id # j
    BY <1>1 DEF Runs, Deleting
  <2> QED
    BY <1>1, <1>3, <2>1, <2>2, <2>3 DEF BlobInv, MakersOwn, Preparing
<1>8. Unentered'
  BY <1>2, <1>3 DEF BlobInv, Unentered
<1> QED
  BY <1>5, <1>6, <1>7, <1>8 DEF BlobInv

LEMMA DeleteHandleBlob ==
  ASSUME OneMaker, BlobInv, NEW m \in Makers, DeleteHandle(m)
  PROVE  BlobInv'
<1> DEFINE w == [maker[m] EXCEPT !.at = "deleting"]
<1>0. maker[m] \in [at : {"idle", "claimed", "stored", "spawned", "deleting"}, slot : SlotNos, id : BlobId, made : Nat]
  BY DEF BlobInv, BlobTyped
<1> PICK j \in BlobIds : j = maker[m].id
  BY <1>0 DEF DeleteHandle, BlobId
<1>1. /\ j \in BlobIds /\ maker[m].at = "idle" /\ blobTcb[j].at = "in" /\ release_slot_of(j)
      /\ maker' = [maker EXCEPT ![m] = w] /\ UNCHANGED <<blobTcb, made>>
  BY <1>0 DEF DeleteHandle, BlobId, BlobInv, BlobTyped
<1>2. \A k \in Makers : k = m
  BY DEF OneMaker
<1>3. /\ w \in [at : {"idle", "claimed", "stored", "spawned", "deleting"}, slot : SlotNos, id : BlobId, made : Nat]
      /\ w.at = "deleting" /\ w.id = j
  BY <1>0
<1> HIDE DEF w
<1>4. maker'[m] = w
  BY <1>1 DEF BlobInv, BlobTyped
<1>5. /\ Runs(j) /\ ~Live(j)' /\ ~Runs(j)'
      /\ \A i \in BlobIds \ {j} : Runs(i)' = Runs(i) /\ Live(i)' = Live(i) /\ blobTcb'[i] = blobTcb[i]
  BY <1>1, <1>2, <1>3, <1>4 DEF Runs, Live, Deleting
<1>6. /\ SlotsOwn' /\ TasksOwn' /\ SemaphoresOwn'
      /\ blobSlots' \in [SlotNos -> [used : BOOLEAN, entry : Nat, task : BlobId]]
      /\ semphrs' \in [BlobIds -> Nat]
  BY <1>1, <1>5, LeaveBlob
<1>7. BlobTyped'
  BY <1>1, <1>3, <1>6 DEF BlobInv, BlobTyped
<1>8. MakersOwn'
  BY <1>1, <1>2, <1>3, <1>4 DEF MakersOwn, Preparing
<1>9. Unentered'
  BY <1>1 DEF BlobInv, Unentered
<1> QED
  BY <1>6, <1>7, <1>8, <1>9 DEF BlobInv

(* The kernel's task goes: it was not live any more.                       *)
LEMMA GoneBlob ==
  ASSUME OneMaker, BlobInv, NEW j \in BlobIds, ~Live(j),
         blobTcb' = [blobTcb EXCEPT ![j] = NoBlobTask], UNCHANGED <<blobSlots, semphrs, made>>,
         \/ UNCHANGED maker /\ ~Deleting(j)
         \/ \E m \in Makers : maker[m].at = "deleting" /\ maker[m].id = j /\ maker' = [maker EXCEPT ![m] = IdleMaker]
  PROVE  BlobInv'
<1>0. /\ NoBlobTask \in [at : {"none", "ready", "in", "left"}, slot : SlotNos, made : Nat, entry : Nat,
                              task : BlobId, sem : Nat]
      /\ NoBlobTask.at = "none" /\ NoBlobTask.sem = 0
      /\ IdleMaker \in [at : {"idle", "claimed", "stored", "spawned", "deleting"}, slot : SlotNos, id : BlobId, made : Nat]
      /\ IdleMaker.at = "idle"
  BY BlobAssumption DEF NoBlobTask, SlotNos, BlobId, IdleMaker
<1>1. BlobTyped'
  <2>1. maker' \in [Makers -> [at : {"idle", "claimed", "stored", "spawned", "deleting"}, slot : SlotNos,
                               id : BlobId, made : Nat]]
    BY <1>0 DEF BlobInv, BlobTyped
  <2> QED
    BY <1>0, <2>1 DEF BlobInv, BlobTyped
<1>2. blobTcb'[j] = NoBlobTask /\ \A i \in BlobIds \ {j} : blobTcb'[i] = blobTcb[i]
  BY DEF BlobInv, BlobTyped
<1>3. \A m \in Makers : \/ maker'[m] = maker[m] /\ ~(maker[m].at = "deleting" /\ maker[m].id = j)
                        \/ maker'[m] = IdleMaker /\ maker[m].at = "deleting" /\ maker[m].id = j
  BY DEF OneMaker, Deleting, BlobInv, BlobTyped
<1>4. /\ ~Runs(j) /\ ~Live(j)' /\ ~Runs(j)'
      /\ \A i \in BlobIds \ {j} : Runs(i)' = Runs(i) /\ Live(i)' = Live(i)
  BY <1>0, <1>2, <1>3 DEF Runs, Live, Deleting
<1>5. SlotsOwn'
  BY <1>2, <1>4 DEF BlobInv, SlotsOwn
<1>6. TasksOwn'
  BY <1>2, <1>4 DEF BlobInv, TasksOwn
<1>7. MakersOwn'
  BY <1>0, <1>2, <1>3, <1>4 DEF BlobInv, MakersOwn, Preparing
<1>8. SemaphoresOwn'
  BY <1>2, <1>4 DEF BlobInv, SemaphoresOwn
<1>9. Unentered'
  BY <1>0, <1>2 DEF BlobInv, Unentered
<1> QED
  BY <1>1, <1>5, <1>6, <1>7, <1>8, <1>9 DEF BlobInv

LEMMA NextBlob ==
  ASSUME OneMaker
  PROVE  BlobInv /\ [BlobNext]_blobVars => BlobInv'
<1> SUFFICES ASSUME BlobInv, [BlobNext]_blobVars PROVE BlobInv'
  OBVIOUS
<1>1. CASE UNCHANGED blobVars
  BY <1>1 DEF blobVars, BlobInv, BlobTyped, SlotsOwn, TasksOwn, MakersOwn, SemaphoresOwn, Unentered,
              Live, Runs, Deleting, Preparing
<1>2. ASSUME NEW i \in BlobIds, delete_self(i) PROVE BlobInv'
  <2>1. /\ ~Live(i) /\ ~Deleting(i) /\ blobTcb' = [blobTcb EXCEPT ![i] = NoBlobTask]
        /\ UNCHANGED <<blobSlots, maker, semphrs, made>>
    BY <1>2 DEF delete_self, Live, Runs, Deleting, BlobInv, MakersOwn
  <2> QED
    BY <2>1, GoneBlob
<1>3. ASSUME NEW m \in Makers, delete_task(m) PROVE BlobInv'
  <2>1. /\ maker[m].id \in BlobIds /\ ~Live(maker[m].id)
        /\ blobTcb' = [blobTcb EXCEPT ![maker[m].id] = NoBlobTask]
        /\ maker[m].at = "deleting" /\ maker' = [maker EXCEPT ![m] = IdleMaker]
        /\ UNCHANGED <<blobSlots, semphrs, made>>
    BY <1>3 DEF delete_task, Live, Runs, Deleting, BlobInv, MakersOwn
  <2> QED
    BY <2>1, GoneBlob
<1> QED
  BY <1>1, <1>2, <1>3, ClaimBlob, StoreBlob, SpawnBlob, RecordBlob, DeleteHandleBlob, TrampolineBlob,
     SemaphoreBlob, ReturnBlob DEF BlobNext

(* A task of the library runs its own entry under its own id, with its own *)
(* slot and a semaphore made for it, for any slots, ids and number of      *)
(* creates, as long as one task of the library creates and deletes.        *)
THEOREM BlobTasksAreOwn ==
  ASSUME OneMaker
  PROVE  BlobSpec => []BlobTasksOwn
<1>1. BlobInv => BlobTasksOwn
  <2> SUFFICES ASSUME BlobInv, NEW i \in BlobIds, Runs(i)
               PROVE  /\ blobTcb[i].entry = blobTcb[i].made /\ blobTcb[i].task = i
                      /\ blobTcb[i].sem \in {0, blobTcb[i].made}
                      /\ blobSlots[blobTcb[i].slot] = [used |-> TRUE, entry |-> blobTcb[i].made, task |-> i]
    BY DEF BlobTasksOwn
  <2>1. Live(i)
    BY DEF Live
  <2>2. blobSlots[blobTcb[i].slot] \in [used : BOOLEAN, entry : Nat, task : BlobId]
    BY DEF BlobInv, BlobTyped
  <2> QED
    BY <2>1, <2>2 DEF BlobInv, SlotsOwn, TasksOwn
<1> QED
  BY <1>1, InitBlob, NextBlob, PTL DEF BlobSpec

(* The glue keeps its promises to the Wi-Fi library (tasks.rs,
   ets_timer.rs, events.rs, net.rs), for any timers, queues, rings and
   task table and one task that creates tasks. *)
THEOREM GlueIsRight == ASSUME OneMaker PROVE GlueSpec => []GlueRight
  BY InputIsInOrder, TimersLateByBackstop, BlobTasksAreOwn, PTL DEF GlueSpec, GlueRight

(***************************************************************************)
(* Units and pins of the RP2040.                                           *)
(***************************************************************************)
ItemsOf(s) == {s[i] : i \in DOMAIN s}
Once1(s) == \A i, j \in DOMAIN s : s[i] = s[j] => i = j
Things == DOMAIN Group \cup {f[o].unit : f \in Plans, o \in Openers}
Whole(o) == IF Kind(o) = "pio" THEN {Unit(o)} \cup PinsOf(o) ELSE ItemsOf(ClaimOrder(o))
RetiredOf == DOMAIN retired \cup UNION {retired[b] : b \in DOMAIN retired}
OpenerPcs == {"closed", "claim", "claim!", "init", "open", "release", "release!", "pin", "pin!", "pio", "edge"}

(* What an opener o whose record is s has, by where it is: while claiming, *)
(* the first claims of its order.                                          *)
SoFar(c, d, s) ==
  /\ s.todo # <<>> /\ d \in Nat
  /\ \A i \in 1 .. Len(s.todo) : s.todo[i] = c[d + i]
  /\ \A x : x \in s.owned <=> \E i \in 1 .. d : x = c[i]
ClaimsSoFar(o, s) == SoFar(ClaimOrder(o), Len(ClaimOrder(o)) - Len(s.todo), s)
HasWhatItShould(o, s) ==
  /\ s.pc = "closed" => s.owned = {}
  /\ s.pc \in {"claim", "claim!"} => Kind(o) # "pio" /\ ClaimsSoFar(o, s)
  /\ s.pc = "init" => s.owned = Whole(o)
  /\ s.pc \in {"open", "edge", "pin", "pin!"} =>
       IF Kind(o) = "adc" THEN Unit(o) \in s.owned /\ s.owned \subseteq {Unit(o)} \cup PinsOf(o)
                          ELSE s.owned = Whole(o)
  /\ s.pc \in {"pin", "pin!"} => Kind(o) = "adc" /\ s.todo = plan[o].pins
  /\ s.pc = "edge" => Kind(o) = "pin"
  /\ s.pc \in {"release", "release!"} =>
       Kind(o) # "pio" /\ s.todo # <<>> /\ Once1(s.todo) /\ ItemsOf(s.todo) = s.owned
  /\ s.pc = "pio" => Kind(o) = "pio" /\ s.owned = {}

OpenerRec == [pc : OpenerPcs, todo : Seq(Things), owned : SUBSET Things, opens : Nat, seen : SUBSET AllPins]
Others(o) == UNION {opener[k].owned : k \in Openers \ {o}}

ClaimsTyped ==
  /\ plan \in Plans
  /\ opener \in [Openers -> OpenerRec]
  /\ pads \in [AllPins -> Openers \cup {NoOpener}]
  /\ edges.on \subseteq AllPins
ClaimsApart ==
  /\ \A o, k \in Openers : o # k => opener[o].owned \cap opener[k].owned = {}
  /\ \A o \in Openers : opener[o].owned \cap RetiredOf = {}
OwnedOf == UNION {opener[o].owned : o \in Openers}
ClaimsAre == claims = OwnedOf \cup RetiredOf
PadsKept ==
  \A o \in Openers : opener[o].pc = "open" /\ (Routes(o) \/ Kind(o) = "pio") =>
    \A p \in PinsOf(o) : pads[p] = o \/ \E u \in {o, pads[p]} : u # NoOpener /\ Kind(u) = "uart"
ClaimInv ==
  /\ ClaimsTyped /\ ClaimsApart /\ ClaimsAre /\ PadsKept
  /\ \A o \in Openers : HasWhatItShould(o, opener[o])

(* The plan, opened up.                                                    *)
LEMMA PlanIs ==
  ASSUME plan \in Plans, NEW o \in Openers
  PROVE  /\ Kind(o) \in {"i2c", "spi", "pwm", "adc", "uart", "pio", "pin"}
         /\ plan[o].pins \in Seq(DOMAIN Group) /\ plan[o].pins \in Seq(Things) /\ Unit(o) \in Things
         /\ DOMAIN plan[o].pins = 1 .. Len(plan[o].pins) /\ Len(plan[o].pins) \in Nat
         /\ PinsOf(o) \subseteq DOMAIN Group /\ PinsOf(o) \subseteq AllPins /\ PinsOf(o) \subseteq Things
         /\ Once1(plan[o].pins)
         /\ Kind(o) = "pin" => plan[o].pins = <<Unit(o)>>
         /\ Kind(o) # "pin" => Unit(o) \notin PinsOf(o)
         /\ Kind(o) = "adc" => Len(plan[o].pins) = 1
<1>1. plan[o].pins \in Seq(DOMAIN Group)
  BY PlansAssumption
<1>2. DOMAIN Group \subseteq Things /\ Unit(o) \in Things
  BY DEF Things, Unit
<1>3. plan[o].pins \in Seq(Things) /\ DOMAIN plan[o].pins = 1 .. Len(plan[o].pins) /\ Len(plan[o].pins) \in Nat
      /\ PinsOf(o) \subseteq DOMAIN Group
  BY <1>1, <1>2 DEF PinsOf
<1>4. PinsOf(o) \subseteq AllPins
  BY DEF AllPins
<1>5. Once1(plan[o].pins)
  BY PlansAssumption, Zenon DEF Once1
<1>6. /\ Kind(o) \in {"i2c", "spi", "pwm", "adc", "uart", "pio", "pin"}
      /\ Kind(o) = "pin" => plan[o].pins = <<Unit(o)>>
      /\ Kind(o) # "pin" => Unit(o) \notin DOMAIN Group
      /\ Kind(o) = "adc" => Len(plan[o].pins) = 1
  BY PlansAssumption DEF Kind, Unit
<1> QED
  BY <1>1, <1>2, <1>3, <1>4, <1>5, <1>6

LEMMA OrderIs ==
  ASSUME plan \in Plans, NEW o \in Openers, Kind(o) # "pio"
  PROVE  /\ ClaimOrder(o) \in Seq(Things) /\ Len(ClaimOrder(o)) \in Nat \ {0}
         /\ Kind(o) \in {"i2c", "spi"} =>
              /\ Len(ClaimOrder(o)) = Len(plan[o].pins) + 1 /\ ClaimOrder(o)[1] = Unit(o)
              /\ \A i \in 1 .. Len(plan[o].pins) : ClaimOrder(o)[i + 1] = plan[o].pins[i]
         /\ Kind(o) = "pwm" =>
              /\ Len(ClaimOrder(o)) = Len(plan[o].pins) + 1
              /\ ClaimOrder(o)[Len(plan[o].pins) + 1] = Unit(o)
              /\ \A i \in 1 .. Len(plan[o].pins) : ClaimOrder(o)[i] = plan[o].pins[i]
         /\ Kind(o) \in {"adc", "uart", "pin"} => ClaimOrder(o) = <<Unit(o)>>
<1> USE PlanIs
<1>1. CASE Kind(o) \in {"i2c", "spi"}
  <2>1. ClaimOrder(o) = <<Unit(o)>> \o plan[o].pins
    BY <1>1 DEF ClaimOrder
  <2> QED
    BY <1>1, <2>1
<1>2. CASE Kind(o) = "pwm"
  <2>1. ClaimOrder(o) = plan[o].pins \o <<Unit(o)>>
    BY <1>2 DEF ClaimOrder
  <2> QED
    BY <1>2, <2>1
<1>3. CASE Kind(o) \in {"adc", "uart", "pin"}
  <2>1. ClaimOrder(o) = <<Unit(o)>>
    BY <1>3 DEF ClaimOrder
  <2> QED
    BY <1>3, <2>1
<1> QED
  BY <1>1, <1>2, <1>3

LEMMA WholeIs ==
  ASSUME plan \in Plans, NEW o \in Openers
  PROVE  /\ Kind(o) \in {"i2c", "spi", "pwm", "pio"} => Whole(o) = {Unit(o)} \cup PinsOf(o)
         /\ Kind(o) = "pin" => Whole(o) = PinsOf(o) /\ PinsOf(o) = {Unit(o)}
         /\ Kind(o) \in {"adc", "uart"} => Whole(o) = {Unit(o)}
         /\ Whole(o) \subseteq Things
<1> USE PlanIs
<1>1. CASE Kind(o) \in {"i2c", "spi"}
  <2>1. ClaimOrder(o) = <<Unit(o)>> \o plan[o].pins
    BY <1>1 DEF ClaimOrder
  <2>2. DOMAIN ClaimOrder(o) = 1 .. Len(plan[o].pins) + 1
    BY <2>1
  <2>3. ItemsOf(ClaimOrder(o)) \subseteq {Unit(o)} \cup PinsOf(o)
    BY <2>1, <2>2 DEF ItemsOf, PinsOf
  <2>4. Unit(o) \in ItemsOf(ClaimOrder(o))
    <3>1. 1 \in DOMAIN ClaimOrder(o) /\ ClaimOrder(o)[1] = Unit(o)
      BY <2>1, <2>2
    <3> QED
      BY <3>1 DEF ItemsOf
  <2>5. ASSUME NEW i \in DOMAIN plan[o].pins PROVE plan[o].pins[i] \in ItemsOf(ClaimOrder(o))
    <3>1. i + 1 \in DOMAIN ClaimOrder(o) /\ ClaimOrder(o)[i + 1] = plan[o].pins[i]
      BY <2>1, <2>2
    <3> QED
      BY <3>1 DEF ItemsOf
  <2> QED
    BY <1>1, <2>3, <2>4, <2>5 DEF Whole, PinsOf
<1>2. CASE Kind(o) = "pwm"
  <2>1. ClaimOrder(o) = plan[o].pins \o <<Unit(o)>>
    BY <1>2 DEF ClaimOrder
  <2>2. DOMAIN ClaimOrder(o) = 1 .. Len(plan[o].pins) + 1
    BY <2>1
  <2>3. ItemsOf(ClaimOrder(o)) \subseteq {Unit(o)} \cup PinsOf(o)
    BY <2>1, <2>2 DEF ItemsOf, PinsOf
  <2>4. Unit(o) \in ItemsOf(ClaimOrder(o))
    <3>1. Len(plan[o].pins) + 1 \in DOMAIN ClaimOrder(o) /\ ClaimOrder(o)[Len(plan[o].pins) + 1] = Unit(o)
      BY <2>1, <2>2
    <3> QED
      BY <3>1 DEF ItemsOf
  <2>5. ASSUME NEW i \in DOMAIN plan[o].pins PROVE plan[o].pins[i] \in ItemsOf(ClaimOrder(o))
    <3>1. i \in DOMAIN ClaimOrder(o) /\ ClaimOrder(o)[i] = plan[o].pins[i]
      BY <2>1, <2>2
    <3> QED
      BY <3>1 DEF ItemsOf
  <2> QED
    BY <1>2, <2>3, <2>4, <2>5 DEF Whole, PinsOf
<1>3. CASE Kind(o) \in {"adc", "uart", "pin"}
  <2>1. ClaimOrder(o) = <<Unit(o)>>
    BY <1>3 DEF ClaimOrder
  <2>2. ItemsOf(ClaimOrder(o)) = {Unit(o)}
    BY <2>1 DEF ItemsOf
  <2>3. Kind(o) = "pin" => PinsOf(o) = {Unit(o)}
    BY DEF PinsOf
  <2> QED
    BY <1>3, <2>2, <2>3 DEF Whole
<1>4. CASE Kind(o) = "pio"
  BY <1>4 DEF Whole
<1> QED
  BY <1>1, <1>2, <1>3, <1>4

LEMMA PlanKept ==
  ASSUME plan' = plan, NEW o \in Openers
  PROVE  /\ Kind(o)' = Kind(o) /\ Unit(o)' = Unit(o) /\ PinsOf(o)' = PinsOf(o)
         /\ ClaimOrder(o)' = ClaimOrder(o) /\ Whole(o)' = Whole(o) /\ Routes(o)' = Routes(o)
<1>1. Kind(o)' = Kind(o) /\ Unit(o)' = Unit(o) /\ PinsOf(o)' = PinsOf(o)
  BY DEF Kind, Unit, PinsOf
<1>2. ClaimOrder(o)' = ClaimOrder(o)
  BY <1>1 DEF ClaimOrder
<1> QED
  BY <1>1, <1>2 DEF Whole, Routes

LEMMA PinsKept == ASSUME plan' = plan PROVE AllPins' = AllPins
  BY PlanKept DEF AllPins

(* What the ownership of one opener and that of the rest make together.    *)
LEMMA Shares ==
  ASSUME ClaimInv, NEW o \in Openers
  PROVE  /\ opener[o].owned \cap Others(o) = {} /\ RetiredOf \cap Others(o) = {}
         /\ opener[o].owned \cap RetiredOf = {}
         /\ claims = Others(o) \cup opener[o].owned \cup RetiredOf
<1>1. OwnedOf = Others(o) \cup opener[o].owned
  BY DEF Others, OwnedOf
<1>2. opener[o].owned \cap Others(o) = {} /\ RetiredOf \cap Others(o) = {} /\ opener[o].owned \cap RetiredOf = {}
  BY DEF ClaimInv, ClaimsApart, Others
<1> QED
  BY <1>1, <1>2 DEF ClaimInv, ClaimsAre

(* A step of one opener keeps the invariant when what it has then is its   *)
(* own, the bits are exactly those owned or retired, and it has routed     *)
(* only pads it owns, or is a UART.                                        *)
LEMMA ClaimStep ==
  ASSUME ClaimInv, NEW o \in Openers, NEW s \in OpenerRec, opener' = [opener EXCEPT ![o] = s], plan' = plan,
         HasWhatItShould(o, s),
         s.owned \cap Others(o) = {}, RetiredOf' \cap Others(o) = {}, s.owned \cap RetiredOf' = {},
         claims' = Others(o) \cup s.owned \cup RetiredOf',
         pads' \in [AllPins -> Openers \cup {NoOpener}],
         \A p \in AllPins : pads'[p] = pads[p] \/ (pads'[p] = o /\ (Kind(o) = "uart" \/ p \in s.owned)),
         s.pc = "open" /\ (Routes(o) \/ Kind(o) = "pio") => \A p \in PinsOf(o) : pads'[p] = o,
         edges'.on \subseteq AllPins
  PROVE  ClaimInv'
<1> USE DEF ClaimInv
<1>0. opener \in [Openers -> OpenerRec] /\ plan \in Plans
  BY DEF ClaimsTyped
<1>1. opener'[o] = s /\ \A k \in Openers : k # o => opener'[k] = opener[k]
  BY <1>0
<1>2. OpenerRec' = OpenerRec
  BY PinsKept DEF OpenerRec
<1>3. ClaimsTyped'
  <2>1. opener' \in [Openers -> OpenerRec]
    BY <1>0
  <2> QED
    BY <1>0, <1>2, <2>1, PinsKept DEF ClaimsTyped
<1>4. ClaimsApart'
  <2>1. \A k \in Openers : k # o => opener[k].owned \cap s.owned = {} /\ opener[k].owned \cap RetiredOf' = {}
    BY DEF Others
  <2> QED
    BY <1>1, <2>1 DEF ClaimsApart
<1>5. ClaimsAre'
  <2>1. OwnedOf' = Others(o) \cup s.owned
    BY <1>1 DEF Others, OwnedOf
  <2> QED
    BY <2>1 DEF ClaimsAre
<1>6. ASSUME NEW k \in Openers PROVE HasWhatItShould(k, opener[k])'
  <2>1. HasWhatItShould(k, opener'[k])
    BY <1>1
  <2>2. ClaimsSoFar(k, opener'[k]) => ClaimsSoFar(k, opener[k])'
    BY PlanKept DEF ClaimsSoFar
  <2> QED
    BY <2>1, <2>2, PlanKept DEF HasWhatItShould
<1>7. PadsKept'
  <2> SUFFICES ASSUME NEW k \in Openers, opener'[k].pc = "open", Routes(k) \/ Kind(k) = "pio", NEW p \in PinsOf(k)
               PROVE  pads'[p] = k \/ \E u \in {k, pads'[p]} : u # NoOpener /\ Kind(u)' = "uart"
    BY PlanKept DEF PadsKept
  <2>0. p \in AllPins /\ NoOpener \notin Openers
    BY <1>0, PlanIs, ClaimAssumption
  <2>1. CASE k = o
    BY <2>1, <1>1
  <2>2. CASE Kind(k) = "uart"
    BY <2>2, <2>0, PlanKept
  <2>3. CASE k # o /\ Kind(k) # "uart"
    <3>1. opener[k].pc = "open" /\ opener[k].owned = Whole(k)
      BY <2>3, <1>1 DEF HasWhatItShould, Routes
    <3>2. p \in opener[k].owned
      BY <3>1, <2>3, <1>0, WholeIs DEF Routes
    <3>3. p \notin s.owned
      BY <3>2, <2>3 DEF Others
    <3>4. CASE pads'[p] = pads[p]
      <4>1. pads[p] = k \/ \E u \in {k, pads[p]} : u # NoOpener /\ Kind(u) = "uart"
        BY <3>1 DEF PadsKept
      <4>2. pads[p] = NoOpener \/ pads[p] \in Openers
        BY <2>0 DEF ClaimsTyped
      <4> QED
        BY <3>4, <4>1, <4>2, PlanKept
    <3>5. CASE pads'[p] = o /\ Kind(o) = "uart"
      BY <3>5, <2>0, PlanKept
    <3> QED
      BY <3>3, <3>4, <3>5, <2>0
  <2> QED
    BY <2>1, <2>2, <2>3
<1> QED
  BY <1>3, <1>4, <1>5, <1>6, <1>7

(* ... and when it touches no pad and its accounts do not change.          *)
LEMMA QuietOpener ==
  ASSUME ClaimInv, NEW o \in Openers, NEW s \in OpenerRec, opener' = [opener EXCEPT ![o] = s], plan' = plan,
         HasWhatItShould(o, s), s.owned = opener[o].owned, claims' = claims, retired' = retired, pads' = pads,
         s.pc = "open" => ~Routes(o) /\ Kind(o) # "pio", edges'.on \subseteq AllPins
  PROVE  ClaimInv'
<1>1. RetiredOf' = RetiredOf
  BY DEF RetiredOf
<1>2. pads \in [AllPins -> Openers \cup {NoOpener}]
  BY DEF ClaimInv, ClaimsTyped
<1> QED
  BY <1>1, <1>2, Shares, ClaimStep

LEMMA TableIs ==
  ASSUME ClaimInv, NEW o \in Openers, NEW r, Reaping(o, r)
  PROVE  /\ Table(o, r) = Others(o) \cup opener[o].owned \cup RetiredOf'
         /\ RetiredOf' \subseteq RetiredOf
<1>1. CASE Reaps(o, r)
  <2>1. RetiredOf' = {}
    BY <1>1 DEF RetiredOf, Reaping
  <2>2. Table(o, r) = claims \ RetiredOf
    BY <1>1 DEF Table, Reaped, RetiredOf
  <2> QED
    BY <2>1, <2>2, Shares
<1>2. CASE ~Reaps(o, r)
  <2>1. RetiredOf' = RetiredOf /\ Table(o, r) = claims
    BY <1>2 DEF RetiredOf, Reaping, Table
  <2> QED
    BY <2>1, Shares
<1> QED
  BY <1>1, <1>2

(* Lists of things to release: each once, and what they hold.              *)
LEMMA TailIs ==
  ASSUME NEW T, NEW q \in Seq(T), q # <<>>, Once1(q)
  PROVE  /\ Once1(Tail(q)) /\ ItemsOf(Tail(q)) = ItemsOf(q) \ {Head(q)} /\ Head(q) \in ItemsOf(q)
         /\ Tail(q) \in Seq(T) /\ (Tail(q) = <<>> => ItemsOf(Tail(q)) = {})
<1>1. Len(q) \in Nat /\ Len(q) > 0 /\ Tail(q) \in Seq(T) /\ Len(Tail(q)) = Len(q) - 1 /\ Head(q) = q[1]
      /\ DOMAIN q = 1 .. Len(q) /\ DOMAIN Tail(q) = 1 .. Len(q) - 1
  OBVIOUS
<1>2. \A i \in 1 .. Len(q) - 1 : Tail(q)[i] = q[i + 1]
  BY <1>1
<1>3. Once1(Tail(q))
  <2> SUFFICES ASSUME NEW i \in 1 .. Len(q) - 1, NEW j \in 1 .. Len(q) - 1, Tail(q)[i] = Tail(q)[j]
               PROVE  i = j
    BY <1>1 DEF Once1
  <2>1. i + 1 \in DOMAIN q /\ j + 1 \in DOMAIN q /\ q[i + 1] = q[j + 1]
    BY <1>1, <1>2
  <2>2. i + 1 = j + 1
    BY <2>1 DEF Once1
  <2> QED
    BY <2>2
<1>4. Head(q) \in ItemsOf(q)
  BY <1>1 DEF ItemsOf
<1>5. \A x \in ItemsOf(Tail(q)) : x \in ItemsOf(q) /\ x # Head(q)
  <2> SUFFICES ASSUME NEW i \in 1 .. Len(q) - 1 PROVE Tail(q)[i] \in ItemsOf(q) /\ Tail(q)[i] # Head(q)
    BY <1>1 DEF ItemsOf
  <2>1. i + 1 \in DOMAIN q /\ 1 \in DOMAIN q /\ i + 1 # 1 /\ Tail(q)[i] = q[i + 1]
    BY <1>1, <1>2
  <2>2. q[i + 1] # q[1]
    BY <2>1 DEF Once1
  <2> QED
    BY <2>1, <2>2, <1>1 DEF ItemsOf
<1>6. \A x \in ItemsOf(q) : x # Head(q) => x \in ItemsOf(Tail(q))
  <2> SUFFICES ASSUME NEW i \in 1 .. Len(q), q[i] # Head(q) PROVE q[i] \in ItemsOf(Tail(q))
    BY <1>1 DEF ItemsOf
  <2>1. i # 1 /\ i - 1 \in DOMAIN Tail(q)
    BY <1>1
  <2>2. Tail(q)[i - 1] = q[(i - 1) + 1]
    BY <1>1, <1>2, <2>1
  <2>3. (i - 1) + 1 = i
    OBVIOUS
  <2> QED
    BY <2>1, <2>2, <2>3 DEF ItemsOf
<1>7. Tail(q) = <<>> => ItemsOf(Tail(q)) = {}
  BY DEF ItemsOf
<1> QED
  BY <1>1, <1>3, <1>4, <1>5, <1>6, <1>7

LEMMA LastOn ==
  ASSUME NEW T, NEW q \in Seq(T), NEW u \in T, Once1(q), u \notin ItemsOf(q)
  PROVE  /\ Once1(q \o <<u>>) /\ ItemsOf(q \o <<u>>) = ItemsOf(q) \cup {u}
         /\ q \o <<u>> \in Seq(T) /\ q \o <<u>> # <<>>
<1> DEFINE w == q \o <<u>>
<1>1. /\ w \in Seq(T) /\ DOMAIN w = 1 .. Len(q) + 1 /\ w[Len(q) + 1] = u /\ DOMAIN q = 1 .. Len(q)
      /\ Len(w) = Len(q) + 1 /\ Len(q) \in Nat
      /\ \A i \in 1 .. Len(q) : w[i] = q[i]
  OBVIOUS
<1>2. w # <<>>
  BY <1>1
<1> HIDE DEF w
<1>3. \A i \in 1 .. Len(q) : w[i] # u
  BY <1>1 DEF ItemsOf
<1>4. Once1(w)
  BY <1>1, <1>3 DEF Once1
<1>5. ItemsOf(w) = ItemsOf(q) \cup {u}
  <2>1. \A x \in ItemsOf(w) : x \in ItemsOf(q) \cup {u}
    BY <1>1 DEF ItemsOf
  <2>2. \A x \in ItemsOf(q) : x \in ItemsOf(w)
    <3> SUFFICES ASSUME NEW i \in 1 .. Len(q) PROVE q[i] \in ItemsOf(w)
      BY <1>1 DEF ItemsOf
    <3>1. i \in DOMAIN w /\ w[i] = q[i]
      BY <1>1
    <3> QED
      BY <3>1 DEF ItemsOf
  <2>3. u \in ItemsOf(w)
    <3>1. Len(q) + 1 \in DOMAIN w
      BY <1>1
    <3> QED
      BY <3>1, <1>1 DEF ItemsOf
  <2> QED
    BY <2>1, <2>2, <2>3
<1> QED
  BY <1>1, <1>2, <1>4, <1>5 DEF w

LEMMA FirstOn ==
  ASSUME NEW T, NEW q \in Seq(T), NEW u \in T, Once1(q), u \notin ItemsOf(q)
  PROVE  /\ Once1(<<u>> \o q) /\ ItemsOf(<<u>> \o q) = ItemsOf(q) \cup {u}
         /\ <<u>> \o q \in Seq(T) /\ <<u>> \o q # <<>>
<1> DEFINE w == <<u>> \o q
<1>1. /\ w \in Seq(T) /\ DOMAIN w = 1 .. Len(q) + 1 /\ w[1] = u /\ DOMAIN q = 1 .. Len(q)
      /\ Len(w) = Len(q) + 1 /\ Len(q) \in Nat
      /\ \A i \in 1 .. Len(q) : w[i + 1] = q[i]
  OBVIOUS
<1>2. w # <<>>
  BY <1>1
<1> HIDE DEF w
<1>3. \A i \in 1 .. Len(q) + 1 : i # 1 => i - 1 \in DOMAIN q /\ w[i] = q[i - 1]
  <2> SUFFICES ASSUME NEW i \in 1 .. Len(q) + 1, i # 1 PROVE i - 1 \in DOMAIN q /\ w[i] = q[i - 1]
    OBVIOUS
  <2>1. i - 1 \in 1 .. Len(q) /\ (i - 1) + 1 = i
    BY <1>1
  <2>2. w[(i - 1) + 1] = q[i - 1]
    BY <2>1, <1>1
  <2> QED
    BY <2>1, <2>2, <1>1
<1>4. Once1(w)
  <2> SUFFICES ASSUME NEW i \in 1 .. Len(q) + 1, NEW j \in 1 .. Len(q) + 1, w[i] = w[j] PROVE i = j
    BY <1>1 DEF Once1
  <2>1. CASE i # 1 /\ j # 1
    <3>1. i - 1 = j - 1
      BY <1>3, <2>1 DEF Once1
    <3> QED
      BY <3>1
  <2>2. CASE i = 1 \/ j = 1
    <3>1. \A h \in 1 .. Len(q) + 1 : h # 1 => w[h] # u
      BY <1>3 DEF ItemsOf
    <3> QED
      BY <2>2, <3>1, <1>1
  <2> QED
    BY <2>1, <2>2
<1>5. ItemsOf(w) = ItemsOf(q) \cup {u}
  <2>1. \A x \in ItemsOf(w) : x \in ItemsOf(q) \cup {u}
    <3>1. \A i \in 1 .. Len(q) + 1 : w[i] \in ItemsOf(q) \cup {u}
      <4> SUFFICES ASSUME NEW i \in 1 .. Len(q) + 1, i # 1 PROVE w[i] \in ItemsOf(q)
        BY <1>1
      <4> QED
        BY <1>3 DEF ItemsOf
    <3> QED
      BY <3>1, <1>1 DEF ItemsOf
  <2>2. \A x \in ItemsOf(q) : x \in ItemsOf(w)
    <3> SUFFICES ASSUME NEW i \in 1 .. Len(q) PROVE q[i] \in ItemsOf(w)
      BY <1>1 DEF ItemsOf
    <3>1. i + 1 \in DOMAIN w /\ w[i + 1] = q[i]
      BY <1>1
    <3> QED
      BY <3>1 DEF ItemsOf
  <2>3. u \in ItemsOf(w)
    <3>1. 1 \in DOMAIN w
      BY <1>1
    <3> QED
      BY <3>1, <1>1 DEF ItemsOf
  <2> QED
    BY <2>1, <2>2, <2>3
<1> QED
  BY <1>1, <1>2, <1>4, <1>5 DEF w

LEMMA FirstFew ==
  ASSUME NEW T, NEW q \in Seq(T), Once1(q), NEW n \in Int, n <= Len(q)
  PROVE  /\ SubSeq(q, 1, n) \in Seq(T) /\ Once1(SubSeq(q, 1, n))
         /\ \A x : x \in ItemsOf(SubSeq(q, 1, n)) <=> \E i \in 1 .. n : x = q[i]
<1> DEFINE w == SubSeq(q, 1, n)
<1>1. /\ w \in Seq(T) /\ DOMAIN w = 1 .. n /\ DOMAIN q = 1 .. Len(q) /\ Len(q) \in Nat
      /\ \A i \in 1 .. n : w[i] = q[i]
  OBVIOUS
<1> HIDE DEF w
<1>2. Once1(w)
  BY <1>1 DEF Once1
<1>3. \A x : x \in ItemsOf(w) <=> \E i \in 1 .. n : x = q[i]
  BY <1>1 DEF ItemsOf
<1> QED
  BY <1>1, <1>2, <1>3 DEF w

(* A roll-back after d claims gives back exactly those.  (The claims of a  *)
(* pwm open are its last: nothing fails after them.)                       *)
LEMMA RollBackIs ==
  ASSUME plan \in Plans, NEW o \in Openers, Kind(o) # "pio", NEW d \in 0 .. Len(ClaimOrder(o)),
         d < Len(ClaimOrder(o)) \/ Routes(o),
         \A x : x \in opener[o].owned <=> \E i \in 1 .. d : x = ClaimOrder(o)[i]
  PROVE  /\ RollBack(o, d + 1) \in Seq(Things) /\ Once1(RollBack(o, d + 1))
         /\ ItemsOf(RollBack(o, d + 1)) = opener[o].owned
<1> DEFINE n == PinsBefore(o, d + 1)
           pre == SubSeq(plan[o].pins, 1, n)
<1>0. /\ plan[o].pins \in Seq(Things) /\ Len(plan[o].pins) \in Nat /\ Once1(plan[o].pins) /\ Unit(o) \in Things
      /\ DOMAIN plan[o].pins = 1 .. Len(plan[o].pins) /\ Len(ClaimOrder(o)) \in Nat
  BY PlanIs, OrderIs
<1>1. /\ n \in Int /\ n <= Len(plan[o].pins)
      /\ \A x : x \in opener[o].owned <=>
           (x = Unit(o) /\ Unit(o) \in opener[o].owned) \/ \E i \in 1 .. n : x = plan[o].pins[i]
      /\ \A i \in 1 .. n : plan[o].pins[i] # Unit(o)
  <2>1. CASE Kind(o) \in {"i2c", "spi"}
    <3>1. n = d - 1
      BY <2>1 DEF PinsBefore
    <3>2. n <= Len(plan[o].pins) /\ n \in Int
      BY <2>1, <3>1, <1>0, OrderIs
    <3> HIDE DEF n
    <3>3. \A i \in 1 .. n : i \in DOMAIN plan[o].pins /\ plan[o].pins[i] \in PinsOf(o)
      BY <3>2, <1>0 DEF PinsOf
    <3>4. \A i \in 1 .. n : plan[o].pins[i] # Unit(o)
      BY <3>3, <2>1, PlanIs
    <3>5. ASSUME NEW x, x \in opener[o].owned
          PROVE  (x = Unit(o) /\ Unit(o) \in opener[o].owned) \/ \E i \in 1 .. n : x = plan[o].pins[i]
      <4>1. PICK i \in 1 .. d : x = ClaimOrder(o)[i]
        BY <3>5
      <4>2. CASE i = 1
        BY <4>1, <4>2, <2>1, <3>5, OrderIs
      <4>3. CASE i # 1
        <5>1. i - 1 \in 1 .. n /\ i - 1 \in 1 .. Len(plan[o].pins) /\ (i - 1) + 1 = i
          BY <4>3, <3>1, <3>2, <1>0
        <5>2. ClaimOrder(o)[(i - 1) + 1] = plan[o].pins[i - 1]
          BY <5>1, <2>1, OrderIs
        <5> QED
          BY <5>1, <5>2, <4>1
      <4> QED
        BY <4>2, <4>3
    <3>6. ASSUME NEW i \in 1 .. n PROVE plan[o].pins[i] \in opener[o].owned
      <4>0. i + 1 \in 1 .. d /\ i \in 1 .. Len(plan[o].pins)
        BY <3>1, <3>2, <1>0
      <4>1. i + 1 \in 1 .. d /\ ClaimOrder(o)[i + 1] = plan[o].pins[i]
        BY <2>1, <4>0, OrderIs
      <4> QED
        BY <4>1
    <3> QED
      BY <3>2, <3>4, <3>5, <3>6
  <2>2. CASE Kind(o) = "pwm"
    <3>1. n = d /\ d < Len(ClaimOrder(o))
      BY <2>2 DEF PinsBefore, Routes
    <3>2. n <= Len(plan[o].pins) /\ n \in Int
      BY <2>2, <3>1, <1>0, OrderIs
    <3> HIDE DEF n
    <3>3. \A i \in 1 .. n : i \in DOMAIN plan[o].pins /\ plan[o].pins[i] \in PinsOf(o)
      BY <3>2, <1>0 DEF PinsOf
    <3>4. \A i \in 1 .. n : plan[o].pins[i] # Unit(o)
      BY <3>3, <2>2, PlanIs
    <3>5. \A i \in 1 .. n : ClaimOrder(o)[i] = plan[o].pins[i]
      BY <2>2, <3>2, <1>0, OrderIs
    <3> QED
      BY <3>1, <3>2, <3>4, <3>5
  <2>3. CASE Kind(o) \in {"adc", "uart", "pin"}
    <3>1. n = 0 /\ ClaimOrder(o) = <<Unit(o)>>
      BY <2>3, OrderIs DEF PinsBefore
    <3>2. \A i \in 1 .. d : ClaimOrder(o)[i] = Unit(o)
      BY <3>1
    <3> QED
      BY <3>1, <3>2, <1>0
  <2> QED
    BY <2>1, <2>2, <2>3, PlanIs
<1> HIDE DEF n
<1>2. pre \in Seq(Things) /\ Once1(pre) /\ \A x : x \in ItemsOf(pre) <=> \E i \in 1 .. n : x = plan[o].pins[i]
  BY <1>0, <1>1, FirstFew
<1> HIDE DEF pre
<1>3. CASE Unit(o) \in opener[o].owned
  <2>1. RollBack(o, d + 1) = pre \o <<Unit(o)>>
    BY <1>3 DEF RollBack, pre, n
  <2>2. Unit(o) \notin ItemsOf(pre)
    BY <1>1, <1>2
  <2>3. Once1(pre \o <<Unit(o)>>) /\ ItemsOf(pre \o <<Unit(o)>>) = ItemsOf(pre) \cup {Unit(o)}
        /\ pre \o <<Unit(o)>> \in Seq(Things)
    BY <2>2, <1>0, <1>2, LastOn
  <2>4. ItemsOf(pre) \cup {Unit(o)} = opener[o].owned
    BY <1>1, <1>2, <1>3
  <2> QED
    BY <2>1, <2>3, <2>4
<1>4. CASE Unit(o) \notin opener[o].owned
  <2>1. RollBack(o, d + 1) = pre
    <3>1. RollBack(o, d + 1) = pre \o <<>>
      BY <1>4 DEF RollBack, pre, n
    <3> QED
      BY <3>1, <1>2
  <2>2. ItemsOf(pre) = opener[o].owned
    BY <1>1, <1>2, <1>4
  <2> QED
    BY <2>1, <2>2, <1>2
<1> QED
  BY <1>3, <1>4

(* The first and the last of the claims.                                   *)
LEMMA OwnedWhole ==
  ASSUME plan \in Plans, NEW o \in Openers, Kind(o) # "pio"
  PROVE  \A x : x \in Whole(o) <=> \E i \in 1 .. Len(ClaimOrder(o)) : x = ClaimOrder(o)[i]
<1>1. DOMAIN ClaimOrder(o) = 1 .. Len(ClaimOrder(o))
  BY OrderIs
<1> QED
  BY <1>1 DEF Whole, ItemsOf

(* Drop gives back all that is owned.                                      *)
LEMMA DropOrderIs ==
  ASSUME ClaimInv, NEW o \in Openers, opener[o].pc = "open", Kind(o) \in {"i2c", "spi", "pwm", "adc"}
  PROVE  /\ DropOrder(o) \in Seq(Things) /\ Once1(DropOrder(o)) /\ DropOrder(o) # <<>>
         /\ ItemsOf(DropOrder(o)) = opener[o].owned
<1>0. plan \in Plans
  BY DEF ClaimInv, ClaimsTyped
<1>1. /\ plan[o].pins \in Seq(Things) /\ Once1(plan[o].pins) /\ Unit(o) \in Things
      /\ Unit(o) \notin PinsOf(o) /\ ItemsOf(plan[o].pins) = PinsOf(o)
  BY <1>0, PlanIs DEF ItemsOf, PinsOf
<1>2. CASE Kind(o) = "pwm"
  <2>1. DropOrder(o) = <<Unit(o)>> \o plan[o].pins
    BY <1>2 DEF DropOrder
  <2>2. opener[o].owned = {Unit(o)} \cup PinsOf(o)
    BY <1>0, <1>2, WholeIs DEF ClaimInv, HasWhatItShould
  <2> QED
    BY <2>1, <2>2, <1>1, FirstOn
<1>3. CASE Kind(o) # "pwm" /\ PinsOf(o) \subseteq opener[o].owned
  <2>1. DropOrder(o) = plan[o].pins \o <<Unit(o)>>
    BY <1>3 DEF DropOrder
  <2>2. opener[o].owned = {Unit(o)} \cup PinsOf(o)
    BY <1>0, <1>3, WholeIs DEF ClaimInv, HasWhatItShould
  <2> QED
    BY <2>1, <2>2, <1>1, LastOn
<1>4. CASE Kind(o) # "pwm" /\ ~(PinsOf(o) \subseteq opener[o].owned)
  <2>1. DropOrder(o) = <<>> \o <<Unit(o)>>
    BY <1>4 DEF DropOrder
  <2>2. DropOrder(o) = <<Unit(o)>>
    BY <2>1
  <2>3. Kind(o) = "adc"
    BY <1>0, <1>4, WholeIs DEF ClaimInv, HasWhatItShould
  <2>4. PinsOf(o) = {plan[o].pins[1]}
    BY <1>0, <2>3, PlanIs DEF PinsOf
  <2>5. opener[o].owned = {Unit(o)}
    BY <2>3, <2>4, <1>4 DEF ClaimInv, HasWhatItShould
  <2> QED
    BY <2>2, <2>5, <1>1 DEF Once1, ItemsOf
<1> QED
  BY <1>2, <1>3, <1>4

LEMMA ClaimsBegin == ClaimInit => ClaimInv
<1> SUFFICES ASSUME ClaimInit PROVE ClaimInv
  OBVIOUS
<1> USE DEF ClaimInit
<1>1. \A o \in Openers : opener[o] = NotOpen
  OBVIOUS
<1>2. NotOpen \in OpenerRec /\ NotOpen.pc = "closed" /\ NotOpen.owned = {}
  BY DEF NotOpen, OpenerRec, OpenerPcs
<1>3. ClaimsTyped
  BY <1>2 DEF ClaimsTyped
<1>4. RetiredOf = {} /\ OwnedOf = {}
  BY <1>1, <1>2 DEF RetiredOf, OwnedOf
<1>5. ClaimsApart /\ ClaimsAre
  BY <1>1, <1>2, <1>4 DEF ClaimsApart, ClaimsAre
<1>6. PadsKept /\ \A o \in Openers : HasWhatItShould(o, opener[o])
  BY <1>1, <1>2 DEF PadsKept, HasWhatItShould
<1> QED
  BY <1>3, <1>5, <1>6 DEF ClaimInv

(* What every action starts from.                                          *)
LEMMA ClaimFacts ==
  ASSUME ClaimInv, NEW o \in Openers
  PROVE  /\ plan \in Plans /\ opener \in [Openers -> OpenerRec] /\ opener[o] \in OpenerRec
         /\ opener[o].pc \in OpenerPcs /\ opener[o].todo \in Seq(Things) /\ opener[o].owned \subseteq Things
         /\ opener[o].opens \in Nat /\ opener[o].seen \subseteq AllPins
         /\ pads \in [AllPins -> Openers \cup {NoOpener}] /\ edges.on \subseteq AllPins
         /\ HasWhatItShould(o, opener[o])
  BY DEF ClaimInv, ClaimsTyped, OpenerRec

LEMMA OpenUnitKeeps ==
  ASSUME ClaimInv, NEW o \in Openers, OpenUnit(o) PROVE ClaimInv'
<1> USE ClaimFacts
<1> DEFINE s == [opener[o] EXCEPT !.pc = "claim", !.todo = ClaimOrder(o), !.opens = @ + 1, !.owned = {}]
<1>1. /\ opener[o].pc = "closed" /\ Kind(o) # "pio" /\ opener' = [opener EXCEPT ![o] = s]
      /\ UNCHANGED <<claims, retired, plan, pads, edges>>
  BY DEF OpenUnit, OpenerAt, Become, claimRest
<1>2. ClaimOrder(o) \in Seq(Things) /\ Len(ClaimOrder(o)) \in Nat \ {0}
  BY <1>1, OrderIs
<1>3. s \in OpenerRec /\ s.pc = "claim" /\ s.todo = ClaimOrder(o) /\ s.owned = {}
  <2>1. PICK c : c = ClaimOrder(o) /\ c \in Seq(Things)
    BY <1>2
  <2>2. opener[o].opens + 1 \in Nat /\ {} \subseteq Things /\ "claim" \in OpenerPcs
    BY DEF OpenerPcs
  <2> QED
    BY <2>1, <2>2 DEF OpenerRec
<1>4. opener[o].owned = {}
  BY <1>1 DEF HasWhatItShould
<1> HIDE DEF s
<1>5. HasWhatItShould(o, s)
  <2>1. SoFar(ClaimOrder(o), 0, s)
    BY <1>2, <1>3 DEF SoFar
  <2> QED
    BY <1>1, <1>2, <1>3, <2>1 DEF HasWhatItShould, ClaimsSoFar
<1> QED
  BY <1>1, <1>3, <1>4, <1>5, QuietOpener

LEMMA TakeClaimLockKeeps ==
  ASSUME ClaimInv, NEW o \in Openers, TakeClaimLock(o) PROVE ClaimInv'
<1> USE ClaimFacts
<1> DEFINE s == [opener[o] EXCEPT !.pc = Locked[@]]
<1>1. /\ opener[o].pc \in {"claim", "release", "pin"} /\ opener' = [opener EXCEPT ![o] = s]
      /\ UNCHANGED <<claims, retired, plan, pads, edges>>
  BY DEF TakeClaimLock, Become, claimRest, Locked
<1>2. Locked[opener[o].pc] = CASE opener[o].pc = "claim" -> "claim!" [] opener[o].pc = "release" -> "release!"
                               [] OTHER -> "pin!"
  BY <1>1 DEF Locked
<1>3. s \in OpenerRec /\ s.pc = Locked[opener[o].pc] /\ s.todo = opener[o].todo /\ s.owned = opener[o].owned
  BY <1>1, <1>2 DEF OpenerRec, OpenerPcs
<1> HIDE DEF s
<1>4. HasWhatItShould(o, s)
  BY <1>1, <1>2, <1>3 DEF HasWhatItShould, ClaimsSoFar, SoFar
<1> QED
  BY <1>1, <1>2, <1>3, <1>4, QuietOpener

LEMMA ClaimOneKeeps ==
  ASSUME ClaimInv, NEW o \in Openers, ClaimOne(o) PROVE ClaimInv'
<1> USE ClaimFacts
<1> DEFINE r == Head(opener[o].todo)
           left == Tail(opener[o].todo)
           d == Len(ClaimOrder(o)) - Len(opener[o].todo)
           k == Len(ClaimOrder(o)) + 1 - Len(opener[o].todo)
           back == RollBack(o, k)
           no == [opener[o] EXCEPT !.todo = back, !.pc = IF back = <<>> THEN "closed" ELSE "release"]
           mine == [opener[o] EXCEPT !.owned = @ \cup {r}]
           yes == [mine EXCEPT !.todo = left, !.pc = IF left = <<>> THEN "init" ELSE "claim"]
<1>1. /\ opener[o].pc = "claim!" /\ claims' = Table(o, r) \cup {r} /\ Reaping(o, r)
      /\ r \in Table(o, r) => opener' = [opener EXCEPT ![o] = no]
      /\ r \notin Table(o, r) => opener' = [opener EXCEPT ![o] = yes]
      /\ UNCHANGED <<plan, pads, edges>>
  BY DEF ClaimOne, OpenerAt, Become, claimRest
<1>2. Kind(o) # "pio" /\ SoFar(ClaimOrder(o), d, opener[o])
  BY <1>1 DEF HasWhatItShould, ClaimsSoFar
<1>3. /\ ClaimOrder(o) \in Seq(Things) /\ Len(ClaimOrder(o)) \in Nat /\ Len(opener[o].todo) \in Nat \ {0}
      /\ d \in Nat /\ d < Len(ClaimOrder(o)) /\ k = d + 1 /\ Len(ClaimOrder(o)) = d + Len(opener[o].todo)
  BY <1>2, OrderIs DEF SoFar
<1>4. /\ r \in Things /\ r = ClaimOrder(o)[d + 1] /\ left \in Seq(Things) /\ Len(left) = Len(opener[o].todo) - 1
      /\ \A i \in 1 .. Len(left) : left[i] = opener[o].todo[i + 1]
  <2>1. r = opener[o].todo[1] /\ 1 \in 1 .. Len(opener[o].todo) /\ r \in Things
    BY <1>3
  <2>2. /\ left \in Seq(Things) /\ Len(left) = Len(opener[o].todo) - 1
        /\ \A i \in 1 .. Len(left) : left[i] = opener[o].todo[i + 1]
    BY <1>3
  <2> HIDE DEF d, r, left
  <2>3. opener[o].todo[1] = ClaimOrder(o)[d + 1]
    BY <2>1, <1>2 DEF SoFar
  <2> QED
    BY <2>1, <2>2, <2>3
<1> HIDE DEF d, k, r, left
<1>4a. PICK n \in Nat, t \in Nat \ {0}, e \in Nat, f \in Nat :
         n = Len(ClaimOrder(o)) /\ t = Len(opener[o].todo) /\ e = d /\ f = Len(left) /\ n = e + t /\ f = t - 1
  BY <1>3, <1>4
<1>5. /\ Table(o, r) = Others(o) \cup opener[o].owned \cup RetiredOf' /\ RetiredOf' \subseteq RetiredOf
      /\ opener[o].owned \cap Others(o) = {} /\ RetiredOf \cap Others(o) = {} /\ opener[o].owned \cap RetiredOf = {}
  BY <1>1, TableIs, Shares
<1>6. CASE r \in Table(o, r)
  <2>1. back \in Seq(Things) /\ Once1(back) /\ ItemsOf(back) = opener[o].owned
    <3>1. \A x : x \in opener[o].owned <=> \E i \in 1 .. d : x = ClaimOrder(o)[i]
      BY <1>2 DEF SoFar
    <3>2. d \in 0 .. Len(ClaimOrder(o)) /\ back = RollBack(o, d + 1)
      BY <1>3
    <3> HIDE DEF back
    <3> QED
      BY <3>1, <3>2, <1>2, <1>3, RollBackIs
  <2> HIDE DEF back
  <2>2. /\ no \in OpenerRec /\ no.todo = back /\ no.owned = opener[o].owned
        /\ no.pc = IF back = <<>> THEN "closed" ELSE "release"
    BY <2>1 DEF OpenerRec, OpenerPcs
  <2>3. back = <<>> => opener[o].owned = {}
    BY <2>1 DEF ItemsOf
  <2>4. opener' = [opener EXCEPT ![o] = no]
    BY <1>1, <1>6
  <2> HIDE DEF no
  <2>5. HasWhatItShould(o, no)
    BY <2>1, <2>2, <2>3, <1>2 DEF HasWhatItShould
  <2>6. claims' = Others(o) \cup no.owned \cup RetiredOf'
    BY <1>1, <1>5, <1>6, <2>2
  <2> QED
    BY <1>1, <1>5, <2>2, <2>4, <2>5, <2>6, ClaimStep
<1>7. CASE r \notin Table(o, r)
  <2>1. /\ yes \in OpenerRec /\ yes.todo = left /\ yes.owned = opener[o].owned \cup {r}
        /\ yes.pc = IF left = <<>> THEN "init" ELSE "claim"
    <3>1. mine \in OpenerRec /\ mine.owned = opener[o].owned \cup {r}
      BY <1>4 DEF OpenerRec
    <3> HIDE DEF mine
    <3> QED
      BY <3>1, <1>4 DEF OpenerRec, OpenerPcs
  <2>2. opener' = [opener EXCEPT ![o] = yes]
    BY <1>1, <1>7
  <2> HIDE DEF yes
  <2>3. \A x : x \in yes.owned <=> \E i \in 1 .. d + 1 : x = ClaimOrder(o)[i]
    <3>1. \A x : x \in opener[o].owned <=> \E i \in 1 .. d : x = ClaimOrder(o)[i]
      BY <1>2 DEF SoFar
    <3>2. \A i \in 1 .. d + 1 : i \in 1 .. d \/ i = d + 1
      BY <1>3
    <3>3. 1 .. d \subseteq 1 .. d + 1 /\ d + 1 \in 1 .. d + 1
      BY <1>3
    <3> QED
      BY <3>1, <3>2, <3>3, <2>1, <1>4
  <2>4. HasWhatItShould(o, yes)
    <3>1. CASE left = <<>>
      <4>0. f = 0
        BY <3>1, <1>4a
      <4>1. d + 1 = Len(ClaimOrder(o))
        <5>0. t = 1
          BY <4>0, <1>4a
        <5>1. e + 1 = n
          BY <5>0, <1>4a
        <5> QED
          BY <5>1, <1>4a
      <4>2. yes.owned = Whole(o)
        <5>1. \A x : x \in Whole(o) <=> \E i \in 1 .. d + 1 : x = ClaimOrder(o)[i]
          BY <4>1, <1>2, OwnedWhole
        <5>2. \A x : x \in Whole(o) <=> x \in yes.owned
          BY <5>1, <2>3, Zenon
        <5> QED
          BY <5>2
      <4> QED
        BY <4>2, <2>1, <3>1 DEF HasWhatItShould
    <3>2. CASE left # <<>>
      <4>1. Len(ClaimOrder(o)) - Len(left) = d + 1 /\ d + 1 \in Nat
        <5>0. n = e + t /\ f = t - 1
          BY <1>4a
        <5>1. n - f = e + 1 /\ e + 1 \in Nat
          BY <5>0
        <5> QED
          BY <5>1, <1>4a
      <4>2. ASSUME NEW i \in 1 .. Len(left) PROVE left[i] = ClaimOrder(o)[(d + 1) + i]
        <5>1. i + 1 \in 1 .. Len(opener[o].todo) /\ d + (i + 1) = (d + 1) + i
          BY SMTT(30), <1>4a
        <5>2. opener[o].todo[i + 1] = ClaimOrder(o)[d + (i + 1)]
          BY <5>1, <1>2 DEF SoFar
        <5> QED
          BY <5>1, <5>2, <1>4
      <4>3. SoFar(ClaimOrder(o), d + 1, yes)
        BY <4>1, <4>2, <2>1, <2>3, <3>2 DEF SoFar
      <4> QED
        BY <4>1, <4>3, <2>1, <3>2, <1>2 DEF HasWhatItShould, ClaimsSoFar
    <3> QED
      BY <3>1, <3>2
  <2>5. claims' = Others(o) \cup yes.owned \cup RetiredOf'
    BY <1>1, <1>5, <2>1
  <2>6. yes.owned \cap Others(o) = {} /\ yes.owned \cap RetiredOf' = {} /\ RetiredOf' \cap Others(o) = {}
    BY <1>5, <1>7, <2>1
  <2> QED
    BY <1>1, <2>1, <2>2, <2>4, <2>5, <2>6, ClaimStep
<1> QED
  BY <1>6, <1>7

LEMMA ReleaseOneKeeps ==
  ASSUME ClaimInv, NEW o \in Openers, ReleaseOne(o) PROVE ClaimInv'
<1> USE ClaimFacts
<1> DEFINE r == Head(opener[o].todo)
           left == Tail(opener[o].todo)
           s == [opener[o] EXCEPT !.owned = @ \ {r}, !.todo = left, !.pc = IF left = <<>> THEN "closed" ELSE "release"]
<1>1. /\ opener[o].pc = "release!" /\ claims' = Table(o, r) \ {r} /\ Reaping(o, r)
      /\ opener' = [opener EXCEPT ![o] = s] /\ UNCHANGED <<plan, pads, edges>>
  BY DEF ReleaseOne, OpenerAt, Become, claimRest
<1>2. Kind(o) # "pio" /\ opener[o].todo # <<>> /\ Once1(opener[o].todo) /\ ItemsOf(opener[o].todo) = opener[o].owned
  BY <1>1 DEF HasWhatItShould
<1>3. /\ Once1(left) /\ ItemsOf(left) = opener[o].owned \ {r} /\ r \in opener[o].owned /\ left \in Seq(Things)
      /\ (left = <<>> => ItemsOf(left) = {})
  BY <1>2, TailIs
<1>5. /\ Table(o, r) = Others(o) \cup opener[o].owned \cup RetiredOf' /\ RetiredOf' \subseteq RetiredOf
      /\ opener[o].owned \cap Others(o) = {} /\ RetiredOf \cap Others(o) = {} /\ opener[o].owned \cap RetiredOf = {}
  BY <1>1, TableIs, Shares
<1> HIDE DEF left, r
<1>6. /\ s \in OpenerRec /\ s.todo = left /\ s.owned = opener[o].owned \ {r}
      /\ s.pc = IF left = <<>> THEN "closed" ELSE "release"
  BY <1>3 DEF OpenerRec, OpenerPcs
<1> HIDE DEF s
<1>7. HasWhatItShould(o, s)
  BY <1>2, <1>3, <1>6 DEF HasWhatItShould
<1>8. claims' = Others(o) \cup s.owned \cup RetiredOf'
  BY <1>1, <1>3, <1>5, <1>6
<1>9. s.owned \cap Others(o) = {} /\ s.owned \cap RetiredOf' = {} /\ RetiredOf' \cap Others(o) = {}
  BY <1>5, <1>6
<1> QED
  BY <1>1, <1>6, <1>7, <1>8, <1>9, ClaimStep

LEMMA InitUnitKeeps ==
  ASSUME ClaimInv, NEW o \in Openers, InitUnit(o) PROVE ClaimInv'
<1> USE ClaimFacts
<1>1. /\ opener[o].pc = "init" /\ Kind(o) # "pio" /\ opener[o].owned = Whole(o)
      /\ UNCHANGED <<claims, retired, plan, edges>>
  BY DEF InitUnit, OpenerAt, HasWhatItShould
<1>2. RetiredOf' = RetiredOf
  BY <1>1 DEF RetiredOf
<1>3. ASSUME pads' = [p \in AllPins |-> IF Routes(o) /\ p \in PinsOf(o) THEN o ELSE pads[p]],
             Become(o, [opener[o] EXCEPT !.pc = "open"])
      PROVE  ClaimInv'
  <2> DEFINE s == [opener[o] EXCEPT !.pc = "open"]
  <2>1. s \in OpenerRec /\ s.pc = "open" /\ s.owned = Whole(o)
    BY <1>1 DEF OpenerRec, OpenerPcs
  <2>2. opener' = [opener EXCEPT ![o] = s]
    BY <1>3 DEF Become
  <2> HIDE DEF s
  <2>3. HasWhatItShould(o, s)
    BY <2>1, WholeIs DEF HasWhatItShould
  <2>4. pads' \in [AllPins -> Openers \cup {NoOpener}]
    BY <1>3
  <2>5. \A p \in AllPins : pads'[p] = pads[p] \/ (pads'[p] = o /\ (Kind(o) = "uart" \/ p \in s.owned))
    BY <1>3, <2>1, WholeIs DEF Routes
  <2>6. Routes(o) => \A p \in PinsOf(o) : pads'[p] = o
    BY <1>3, PlanIs
  <2> QED
    BY <1>1, <1>2, <2>1, <2>2, <2>3, <2>4, <2>5, <2>6, Shares, ClaimStep
<1>4. ASSUME Routes(o), pads' = pads,
             Become(o, [opener[o] EXCEPT !.pc = "release", !.todo = RollBack(o, Len(ClaimOrder(o)) + 1)])
      PROVE  ClaimInv'
  <2> DEFINE back == RollBack(o, Len(ClaimOrder(o)) + 1)
             s == [opener[o] EXCEPT !.pc = "release", !.todo = back]
  <2>1. back \in Seq(Things) /\ Once1(back) /\ ItemsOf(back) = opener[o].owned
    <3>1. Len(ClaimOrder(o)) \in 0 .. Len(ClaimOrder(o))
      BY <1>1, OrderIs
    <3>2. \A x : x \in opener[o].owned <=> \E i \in 1 .. Len(ClaimOrder(o)) : x = ClaimOrder(o)[i]
      BY <1>1, OwnedWhole
    <3> QED
      BY <3>1, <3>2, <1>1, <1>4, RollBackIs
  <2>2. back # <<>>
    <3>1. Unit(o) \in opener[o].owned
      BY <1>1, <1>4, WholeIs DEF Routes
    <3> HIDE DEF back
    <3> QED
      BY <3>1, <2>1 DEF ItemsOf
  <2>3. opener' = [opener EXCEPT ![o] = s]
    BY <1>4 DEF Become
  <2> HIDE DEF back
  <2>4. s \in OpenerRec /\ s.pc = "release" /\ s.owned = opener[o].owned /\ s.todo = back
    BY <2>1 DEF OpenerRec, OpenerPcs
  <2> HIDE DEF s
  <2>5. HasWhatItShould(o, s)
    BY <1>1, <2>1, <2>2, <2>4 DEF HasWhatItShould
  <2> QED
    BY <1>1, <1>4, <2>3, <2>4, <2>5, QuietOpener
<1> QED
  BY <1>3, <1>4 DEF InitUnit

LEMMA StartUnitKeeps ==
  ASSUME ClaimInv, NEW o \in Openers, StartUnit(o) PROVE ClaimInv'
<1> USE ClaimFacts
<1>1. opener[o].pc = "open" /\ UNCHANGED <<claims, retired, plan, edges>>
  BY DEF StartUnit, OpenerAt
<1>2. RetiredOf' = RetiredOf
  BY <1>1 DEF RetiredOf
<1>3. ASSUME Kind(o) \in {"pwm", "pin"}, opener' = opener,
             pads' = [p \in AllPins |-> IF p \in PinsOf(o) THEN o ELSE pads[p]]
      PROVE  ClaimInv'
  <2>1. opener' = [opener EXCEPT ![o] = opener[o]]
    BY <1>3
  <2>2. pads' \in [AllPins -> Openers \cup {NoOpener}]
    BY <1>3
  <2>3. opener[o].owned = Whole(o)
    BY <1>1, <1>3 DEF HasWhatItShould
  <2>4. \A p \in AllPins : pads'[p] = pads[p] \/ (pads'[p] = o /\ (Kind(o) = "uart" \/ p \in opener[o].owned))
    BY <1>3, <2>3, WholeIs
  <2>5. ~Routes(o) /\ Kind(o) # "pio"
    BY <1>3 DEF Routes
  <2> QED
    BY <1>1, <1>2, <2>1, <2>2, <2>4, <2>5, Shares, ClaimStep
<1>4. ASSUME Kind(o) = "adc", Become(o, [opener[o] EXCEPT !.pc = "pin", !.todo = plan[o].pins]), pads' = pads
      PROVE  ClaimInv'
  <2> DEFINE s == [opener[o] EXCEPT !.pc = "pin", !.todo = plan[o].pins]
  <2>0. plan[o].pins \in Seq(Things)
    BY PlanIs
  <2>1. s \in OpenerRec /\ s.pc = "pin" /\ s.owned = opener[o].owned /\ s.todo = plan[o].pins
    BY <2>0 DEF OpenerRec, OpenerPcs
  <2>2. opener' = [opener EXCEPT ![o] = s]
    BY <1>4 DEF Become
  <2> HIDE DEF s
  <2>3. HasWhatItShould(o, s)
    BY <1>1, <1>4, <2>1 DEF HasWhatItShould
  <2> QED
    BY <1>1, <1>4, <2>1, <2>2, <2>3, QuietOpener
<1> QED
  BY <1>3, <1>4 DEF StartUnit

LEMMA PrepareGpioKeeps ==
  ASSUME ClaimInv, NEW o \in Openers, PrepareGpio(o) PROVE ClaimInv'
<1> USE ClaimFacts
<1> DEFINE p == Head(opener[o].todo)
           free == p \notin Table(o, p)
           s == [opener[o] EXCEPT !.pc = "open", !.todo = <<>>, !.owned = IF free THEN @ \cup {p} ELSE @]
<1>1. /\ opener[o].pc = "pin!" /\ claims' = Table(o, p) \cup {p} /\ Reaping(o, p)
      /\ opener' = [opener EXCEPT ![o] = s]
      /\ pads' = IF free THEN [pads EXCEPT ![p] = o] ELSE pads
      /\ UNCHANGED <<plan, edges>>
  BY DEF PrepareGpio, OpenerAt, Become
<1>2. /\ Kind(o) = "adc" /\ opener[o].todo = plan[o].pins
      /\ Unit(o) \in opener[o].owned /\ opener[o].owned \subseteq {Unit(o)} \cup PinsOf(o)
  BY <1>1 DEF HasWhatItShould
<1>3. p \in PinsOf(o) /\ p \in AllPins /\ p \in Things
  <2>1. Len(plan[o].pins) = 1 /\ 1 \in DOMAIN plan[o].pins /\ PinsOf(o) \subseteq AllPins /\ PinsOf(o) \subseteq Things
    BY <1>2, PlanIs
  <2>2. p = plan[o].pins[1]
    BY <1>2, <2>1, PlanIs
  <2>3. p \in PinsOf(o)
    BY <2>1, <2>2 DEF PinsOf
  <2> QED
    BY <2>1, <2>3
<1>5. /\ Table(o, p) = Others(o) \cup opener[o].owned \cup RetiredOf' /\ RetiredOf' \subseteq RetiredOf
      /\ opener[o].owned \cap Others(o) = {} /\ RetiredOf \cap Others(o) = {} /\ opener[o].owned \cap RetiredOf = {}
  BY <1>1, TableIs, Shares
<1> HIDE DEF p
<1>6. /\ s \in OpenerRec /\ s.pc = "open" /\ s.owned = IF p \notin Table(o, p) THEN opener[o].owned \cup {p} ELSE opener[o].owned
  <2>1. "open" \in OpenerPcs /\ opener[o].owned \cup {p} \subseteq Things /\ <<>> \in Seq(Things)
    BY <1>3 DEF OpenerPcs
  <2>2. CASE free
    BY <2>1, <2>2 DEF OpenerRec
  <2>3. CASE ~free
    BY <2>1, <2>3 DEF OpenerRec
  <2> QED
    BY <2>2, <2>3
<1> HIDE DEF s
<1>7. HasWhatItShould(o, s)
  BY <1>2, <1>3, <1>6 DEF HasWhatItShould
<1>8. claims' = Others(o) \cup s.owned \cup RetiredOf'
  BY <1>1, <1>3, <1>5, <1>6
<1>9. s.owned \cap Others(o) = {} /\ s.owned \cap RetiredOf' = {} /\ RetiredOf' \cap Others(o) = {}
  BY <1>5, <1>6
<1>10. /\ pads' \in [AllPins -> Openers \cup {NoOpener}]
       /\ \A x \in AllPins : pads'[x] = pads[x] \/ (pads'[x] = o /\ x \in s.owned)
  BY <1>1, <1>3, <1>6
<1>11. ~Routes(o) /\ Kind(o) # "pio"
  BY <1>2 DEF Routes
<1> QED
  BY <1>1, <1>6, <1>7, <1>8, <1>9, <1>10, <1>11, ClaimStep

LEMMA DropUnitKeeps ==
  ASSUME ClaimInv, NEW o \in Openers, DropUnit(o) PROVE ClaimInv'
<1> USE ClaimFacts
<1> DEFINE s == [opener[o] EXCEPT !.pc = "release", !.todo = DropOrder(o)]
<1>1. /\ opener[o].pc = "open" /\ Kind(o) \in {"i2c", "spi", "pwm", "adc"}
      /\ opener' = [opener EXCEPT ![o] = s] /\ UNCHANGED <<claims, retired, plan, pads, edges>>
  BY DEF DropUnit, OpenerAt, Become, claimRest
<1>2. /\ DropOrder(o) \in Seq(Things) /\ Once1(DropOrder(o)) /\ DropOrder(o) # <<>>
      /\ ItemsOf(DropOrder(o)) = opener[o].owned
  BY <1>1, DropOrderIs
<1>3. s \in OpenerRec /\ s.pc = "release" /\ s.owned = opener[o].owned /\ s.todo = DropOrder(o)
  BY <1>2 DEF OpenerRec, OpenerPcs
<1> HIDE DEF s
<1>4. HasWhatItShould(o, s)
  BY <1>1, <1>2, <1>3 DEF HasWhatItShould
<1> QED
  BY <1>1, <1>3, <1>4, QuietOpener

LEMMA PioTryKeeps ==
  ASSUME ClaimInv, NEW o \in Openers, PioTry(o) PROVE ClaimInv'
<1> USE ClaimFacts
<1> DEFINE s == [opener[o] EXCEPT !.pc = "pio", !.opens = @ + 1]
<1>1. /\ opener[o].pc = "closed" /\ Kind(o) = "pio"
      /\ opener' = [opener EXCEPT ![o] = s] /\ UNCHANGED <<claims, retired, plan, pads, edges>>
  BY DEF PioTry, OpenerAt, Become, claimRest
<1>3. s \in OpenerRec /\ s.pc = "pio" /\ s.owned = opener[o].owned
  <2>1. "pio" \in OpenerPcs /\ opener[o].opens + 1 \in Nat
    BY DEF OpenerPcs
  <2> QED
    BY <2>1 DEF OpenerRec
<1> HIDE DEF s
<1>4. HasWhatItShould(o, s)
  BY <1>1, <1>3 DEF HasWhatItShould
<1> QED
  BY <1>1, <1>3, <1>4, QuietOpener

LEMMA PioClaimKeeps ==
  ASSUME ClaimInv, NEW o \in Openers, PioClaim(o) PROVE ClaimInv'
<1> USE ClaimFacts
<1> DEFINE all == {Unit(o)} \cup PinsOf(o)
           free == all \cap Reaped = {}
           s == [opener[o] EXCEPT !.pc = IF free THEN "init" ELSE "closed", !.owned = IF free THEN all ELSE {}]
<1>1. /\ opener[o].pc = "pio" /\ claims' = (IF free THEN Reaped \cup all ELSE Reaped) /\ retired' = <<>>
      /\ opener' = [opener EXCEPT ![o] = s] /\ UNCHANGED <<plan, pads, edges>>
  BY DEF PioClaim, OpenerAt, Become, claimRest
<1>2. Kind(o) = "pio" /\ opener[o].owned = {}
  BY <1>1 DEF HasWhatItShould
<1>3. all \subseteq Things /\ all = Whole(o)
  BY <1>2, PlanIs, WholeIs
<1>4. RetiredOf' = {}
  BY <1>1 DEF RetiredOf
<1>5. Reaped = Others(o)
  <2>1. Reaped = claims \ RetiredOf
    BY DEF Reaped, RetiredOf
  <2> QED
    BY <2>1, <1>2, Shares
<1> HIDE DEF all
<1>6. /\ s \in OpenerRec /\ s.pc = (IF all \cap Reaped = {} THEN "init" ELSE "closed")
      /\ s.owned = IF all \cap Reaped = {} THEN all ELSE {}
  <2>1. CASE free
    BY <2>1, <1>3 DEF OpenerRec, OpenerPcs
  <2>2. CASE ~free
    BY <2>2 DEF OpenerRec, OpenerPcs
  <2> QED
    BY <2>1, <2>2
<1> HIDE DEF s
<1>7. HasWhatItShould(o, s)
  BY <1>3, <1>6 DEF HasWhatItShould
<1>8. claims' = Others(o) \cup s.owned \cup RetiredOf'
  BY <1>1, <1>4, <1>5, <1>6
<1>9. s.owned \cap Others(o) = {} /\ s.owned \cap RetiredOf' = {} /\ RetiredOf' \cap Others(o) = {}
  BY <1>4, <1>5, <1>6
<1> QED
  BY <1>1, <1>6, <1>7, <1>8, <1>9, ClaimStep

(* A lease that is dropped passes from the owned to the retired.           *)
LEMMA RetireKeeps ==
  ASSUME ClaimInv, NEW o \in Openers, opener[o].owned = {Unit(o)} \cup PinsOf(o), RetirePio(o),
         Become(o, [opener[o] EXCEPT !.pc = "closed", !.owned = {}]), UNCHANGED <<claims, plan, pads, edges>>
  PROVE  ClaimInv'
<1> USE ClaimFacts
<1> DEFINE s == [opener[o] EXCEPT !.pc = "closed", !.owned = {}]
<1>1. opener' = [opener EXCEPT ![o] = s]
  BY DEF Become
<1>2. s \in OpenerRec /\ s.pc = "closed" /\ s.owned = {}
  <2>1. "closed" \in OpenerPcs /\ {} \subseteq Things
    BY DEF OpenerPcs
  <2> QED
    BY <2>1 DEF OpenerRec
<1> HIDE DEF s
<1>3. HasWhatItShould(o, s)
  BY <1>2 DEF HasWhatItShould
<1>4. RetiredOf' = RetiredOf \cup opener[o].owned
  <2>1. Unit(o) \notin DOMAIN retired
    BY Shares DEF RetiredOf
  <2>2. /\ DOMAIN retired' = DOMAIN retired \cup {Unit(o)} /\ retired'[Unit(o)] = PinsOf(o)
        /\ \A b \in DOMAIN retired : retired'[b] = retired[b]
    BY <2>1 DEF RetirePio
  <2> QED
    BY <2>2 DEF RetiredOf
<1> QED
  BY <1>1, <1>2, <1>3, <1>4, Shares, ClaimStep

LEMMA PioInitKeeps ==
  ASSUME ClaimInv, NEW o \in Openers, PioInit(o) PROVE ClaimInv'
<1> USE ClaimFacts
<1>1. /\ opener[o].pc = "init" /\ Kind(o) = "pio" /\ opener[o].owned = Whole(o)
      /\ UNCHANGED <<claims, plan, edges>> /\ Whole(o) = {Unit(o)} \cup PinsOf(o)
  BY WholeIs DEF PioInit, OpenerAt, HasWhatItShould
<1>2. ASSUME Become(o, [opener[o] EXCEPT !.pc = "open"]), retired' = retired,
             pads' = [p \in AllPins |-> IF p \in PinsOf(o) THEN o ELSE pads[p]]
      PROVE  ClaimInv'
  <2> DEFINE s == [opener[o] EXCEPT !.pc = "open"]
  <2>1. s \in OpenerRec /\ s.pc = "open" /\ s.owned = Whole(o)
    BY <1>1 DEF OpenerRec, OpenerPcs
  <2>2. opener' = [opener EXCEPT ![o] = s] /\ RetiredOf' = RetiredOf
    BY <1>2 DEF Become, RetiredOf
  <2> HIDE DEF s
  <2>3. HasWhatItShould(o, s)
    BY <2>1, <1>1 DEF HasWhatItShould
  <2>4. pads' \in [AllPins -> Openers \cup {NoOpener}]
    BY <1>2
  <2>5. \A p \in AllPins : pads'[p] = pads[p] \/ (pads'[p] = o /\ (Kind(o) = "uart" \/ p \in s.owned))
    BY <1>1, <1>2, <2>1
  <2>6. \A p \in PinsOf(o) : pads'[p] = o
    BY <1>2, PlanIs
  <2>7. /\ s.owned \cap Others(o) = {} /\ RetiredOf' \cap Others(o) = {} /\ s.owned \cap RetiredOf' = {}
        /\ claims' = Others(o) \cup s.owned \cup RetiredOf'
    BY <1>1, <2>1, <2>2, Shares
  <2> QED
    BY <1>1, <2>1, <2>2, <2>3, <2>4, <2>5, <2>6, <2>7, ClaimStep
<1> QED
  BY <1>1, <1>2, RetireKeeps DEF PioInit

LEMMA PioDropKeeps ==
  ASSUME ClaimInv, NEW o \in Openers, PioDrop(o) PROVE ClaimInv'
<1> USE ClaimFacts
<1>1. opener[o].pc = "open" /\ Kind(o) = "pio"
  BY DEF PioDrop, OpenerAt
<1>2. opener[o].owned = {Unit(o)} \cup PinsOf(o)
  BY <1>1, WholeIs DEF HasWhatItShould
<1> QED
  BY <1>2, RetireKeeps DEF PioDrop, claimRest

LEMMA EdgesKeep ==
  ASSUME ClaimInv, NEW o \in Openers, NEW enable \in BOOLEAN, EdgeRead(o) \/ EdgeWrite(o, enable) PROVE ClaimInv'
<1> USE ClaimFacts
<1>1. CASE EdgeRead(o)
  <2> DEFINE s == [opener[o] EXCEPT !.pc = "edge", !.seen = edges.on]
  <2>1. /\ opener[o].pc = "open" /\ Kind(o) = "pin" /\ opener' = [opener EXCEPT ![o] = s]
        /\ UNCHANGED <<claims, retired, plan, pads, edges>>
    BY <1>1 DEF EdgeRead, OpenerAt, Become, claimRest
  <2>2. s \in OpenerRec /\ s.pc = "edge" /\ s.owned = opener[o].owned
    BY DEF OpenerRec, OpenerPcs
  <2> HIDE DEF s
  <2>3. HasWhatItShould(o, s)
    BY <2>1, <2>2 DEF HasWhatItShould
  <2> QED
    BY <2>1, <2>2, <2>3, QuietOpener
<1>2. CASE EdgeWrite(o, enable)
  <2> DEFINE s == [opener[o] EXCEPT !.pc = "open", !.seen = {}]
  <2>1. /\ opener[o].pc = "edge" /\ opener' = [opener EXCEPT ![o] = s]
        /\ UNCHANGED <<claims, retired, plan, pads>>
    BY <1>2 DEF EdgeWrite, OpenerAt, Become
  <2>2. s \in OpenerRec /\ s.pc = "open" /\ s.owned = opener[o].owned
    BY DEF OpenerRec, OpenerPcs
  <2>3. edges'.on \subseteq AllPins
    BY <1>2, PlanIs DEF EdgeWrite
  <2> HIDE DEF s
  <2>4. Kind(o) = "pin" /\ HasWhatItShould(o, s)
    BY <2>1, <2>2 DEF HasWhatItShould
  <2> QED
    BY <2>1, <2>2, <2>3, <2>4, QuietOpener DEF Routes
<1> QED
  BY <1>1, <1>2

(* Init and every step keep the claims exact.                              *)
THEOREM ClaimsAreExact == ClaimSpec => []ClaimsExact
<1>1. ClaimInv /\ [ClaimNext]_claimVars => ClaimInv'
  <2> SUFFICES ASSUME ClaimInv, [ClaimNext]_claimVars PROVE ClaimInv'
    OBVIOUS
  <2>1. CASE UNCHANGED claimVars
    <3>1. ClaimInv' <=> ClaimInv
      BY <2>1 DEF claimVars, ClaimInv, ClaimsTyped, OpenerRec, ClaimsApart, ClaimsAre, PadsKept, HasWhatItShould,
                  ClaimsSoFar, RetiredOf, OwnedOf, AllPins, PinsOf, Kind, Unit, ClaimOrder, Whole, Routes
    <3> QED
      BY <3>1
  <2>2. CASE ClaimNext
    BY <2>2, OpenUnitKeeps, TakeClaimLockKeeps, ClaimOneKeeps, ReleaseOneKeeps, InitUnitKeeps, StartUnitKeeps,
       PrepareGpioKeeps, DropUnitKeeps, PioTryKeeps, PioClaimKeeps, PioInitKeeps, PioDropKeeps, EdgesKeep DEF ClaimNext
  <2> QED
    BY <2>1, <2>2
<1>2. ClaimInv => ClaimsExact
  <2> SUFFICES ASSUME ClaimInv PROVE ClaimsExact
    OBVIOUS
  <2>1. claims = (UNION {opener[o].owned : o \in Openers}) \cup DOMAIN retired \cup UNION {retired[b] : b \in DOMAIN retired}
    <3>1. claims = OwnedOf \cup RetiredOf
      BY DEF ClaimInv, ClaimsAre
    <3>3. claims = OwnedOf \cup (DOMAIN retired \cup UNION {retired[b] : b \in DOMAIN retired})
      BY <3>1 DEF RetiredOf
    <3>4. claims = OwnedOf \cup DOMAIN retired \cup UNION {retired[b] : b \in DOMAIN retired}
      BY <3>3
    <3> QED
      BY <3>4, Zenon DEF OwnedOf
  <2> QED
    BY <2>1, Zenon DEF ClaimInv, ClaimsApart, PadsKept, ClaimsExact
<1> QED
  BY <1>1, <1>2, ClaimsBegin, PTL DEF ClaimSpec

(***************************************************************************)
(* A PIO block of the RP2040.                                              *)
(***************************************************************************)
Own(m) == WordsAt(pioMach[m].at, pioMach[m].length)

(* The memory in use is the programs', and each is where its machine runs. *)
PioMemory ==
  /\ pioMach \in [Machines -> [length : Nat, at : Nat, input : BOOLEAN, output : BOOLEAN]]
  /\ pioUsed \subseteq Addresses
  /\ \A a : a \in pioUsed <=> \E m \in Machines : a \in Own(m)
  /\ \A m \in Machines : \A a \in Own(m) : pioCode[a] = m
  /\ \A m, k \in Machines : m # k =>
       ~(pioMach[m].input /\ pioMach[k].input) /\ ~(pioMach[m].output /\ pioMach[k].output)

(* Between exchanges the FIFOs of a caller that only exchanges are empty;  *)
(* in one, its word or the answer is all there is.                         *)
Hushed(m) == pioFifo[m].tx = <<>> /\ pioFifo[m].rx = <<>>
PioWords ==
  /\ pioFifo \in [Machines -> [on : BOOLEAN, tx : Seq(Nat), rx : Seq(Nat)]]
  /\ pioCall \in [pc : {"idle", "write", "read"}, machine : Machines \cup {0}, written : Nat, word : Nat,
                  answer : Nat, mixed : BOOLEAN]
  /\ pioCall.pc # "idle" => pioCall.machine \in Machines /\ pioCall.answer = 0
  /\ ~pioCall.mixed =>
       /\ \A m \in Machines : (pioCall.pc = "read" /\ m = pioCall.machine) \/ Hushed(m)
       /\ pioCall.pc = "read" =>
            \/ pioFifo[pioCall.machine].tx = <<pioCall.word>> /\ pioFifo[pioCall.machine].rx = <<>>
            \/ pioFifo[pioCall.machine].tx = <<>> /\ pioFifo[pioCall.machine].rx = <<pioCall.word>>
       /\ pioCall.answer # 0 => pioCall.answer = pioCall.word

LEMMA AllocationFits ==
  ASSUME NEW n, Fits(n) # {}
  PROVE  Allocation(n) \in Fits(n)
<1> DEFINE S == {PIO_WORDS - 1 - a : a \in Fits(n)}
<1>1. Fits(n) \subseteq Nat /\ \A a \in Fits(n) : a <= PIO_WORDS - 1
  BY PioAssumption DEF Fits, Addresses
<1>2. S \subseteq Nat /\ S # {}
  BY <1>1, PioAssumption
<1>3. PICK x \in S : \A y \in S : x <= y
  BY <1>2, LeastNat
<1>4. PICK a \in Fits(n) : x = PIO_WORDS - 1 - a
  BY <1>3
<1>5. \A b \in Fits(n) : a >= b
  <2> SUFFICES ASSUME NEW b \in Fits(n) PROVE a >= b
    OBVIOUS
  <2>1. x <= PIO_WORDS - 1 - b
    BY <1>3
  <2> QED
    BY <2>1, <1>1, <1>4, PioAssumption
<1> QED
  BY <1>4, <1>5 DEF Allocation, Max

LEMMA PioBegins == PioBlockInit => PioMemory /\ PioWords
<1> SUFFICES ASSUME PioBlockInit PROVE PioMemory /\ PioWords
  OBVIOUS
<1> USE DEF PioBlockInit
<1>1. \A m \in Machines : pioMach[m] = NoProgram /\ pioFifo[m] = Stopped
  OBVIOUS
<1>2. \A m \in Machines : Own(m) = {}
  BY <1>1 DEF Own, WordsAt, NoProgram
<1>3. PioMemory
  BY <1>1, <1>2 DEF PioMemory, NoProgram
<1>4. PioWords
  BY <1>1 DEF PioWords, Hushed, Stopped
<1> QED
  BY <1>3, <1>4

LEMMA ConfigureKeeps ==
  ASSUME PioMemory, NEW m \in Machines, NEW p \in PioPrograms, Configure(m, p) PROVE PioMemory'
<1> DEFINE at == Allocation(p.length)
           r == [length |-> p.length, at |-> at, input |-> p.input, output |-> p.output]
<1>1. /\ ~Configured(m) /\ ~Taken(p) /\ p.length > 0 /\ Fits(p.length) # {}
      /\ pioMach' = [pioMach EXCEPT ![m] = r] /\ pioUsed' = pioUsed \cup WordsAt(at, p.length)
      /\ pioCode' = [a \in Addresses |-> IF a \in WordsAt(at, p.length) THEN m ELSE pioCode[a]]
  BY DEF Configure
<1>2. p.length \in Nat /\ p.input \in BOOLEAN /\ p.output \in BOOLEAN
  BY PioAssumption
<1>3. at \in Nat /\ WordsAt(at, p.length) \subseteq Addresses \ pioUsed
  BY <1>1, AllocationFits DEF Fits, Addresses
<1>4. pioMach \in [Machines -> [length : Nat, at : Nat, input : BOOLEAN, output : BOOLEAN]]
  BY DEF PioMemory
<1> HIDE DEF at
<1>5. /\ r \in [length : Nat, at : Nat, input : BOOLEAN, output : BOOLEAN]
      /\ r.at = at /\ r.length = p.length /\ r.input = p.input /\ r.output = p.output
  BY <1>2, <1>3
<1> HIDE DEF r
<1>6. /\ pioMach' \in [Machines -> [length : Nat, at : Nat, input : BOOLEAN, output : BOOLEAN]]
      /\ pioMach'[m] = r /\ \A k \in Machines : k # m => pioMach'[k] = pioMach[k]
  BY <1>1, <1>4, <1>5
<1>7. Own(m)' = WordsAt(at, p.length) /\ \A k \in Machines : k # m => Own(k)' = Own(k)
  BY <1>5, <1>6 DEF Own
<1>8. Own(m) = {}
  BY <1>1, <1>4 DEF Own, WordsAt, Configured
<1>9. pioUsed' \subseteq Addresses
  BY <1>1, <1>3 DEF PioMemory
<1>10. \A a : a \in pioUsed' <=> \E k \in Machines : a \in Own(k)'
  BY <1>1, <1>7, <1>8 DEF PioMemory
<1>11. ASSUME NEW k \in Machines, NEW a \in Own(k)' PROVE pioCode'[a] = k
  <2>0. a \in Addresses
    BY <1>9, <1>10
  <2>1. CASE k = m
    BY <2>0, <2>1, <1>1, <1>7
  <2>2. CASE k # m
    <3>1. a \in Own(k) /\ pioCode[a] = k /\ a \in pioUsed
      BY <2>2, <1>7 DEF PioMemory
    <3> QED
      BY <3>1, <2>0, <1>1, <1>3
  <2> QED
    BY <2>1, <2>2
<1>12. ASSUME NEW j \in Machines, NEW k \in Machines, j # k
       PROVE  ~(pioMach'[j].input /\ pioMach'[k].input) /\ ~(pioMach'[j].output /\ pioMach'[k].output)
  <2>1. \A h \in Machines : ~(p.input /\ pioMach[h].input) /\ ~(p.output /\ pioMach[h].output)
    BY <1>1 DEF Taken
  <2>2. CASE j # m /\ k # m
    BY <2>2, <1>6, <1>12 DEF PioMemory
  <2>3. CASE j = m
    BY <2>1, <2>3, <1>5, <1>6, <1>12
  <2>4. CASE k = m
    BY <2>1, <2>4, <1>5, <1>6, <1>12
  <2> QED
    BY <2>2, <2>3, <2>4
<1> QED
  BY <1>6, <1>9, <1>10, <1>11, <1>12 DEF PioMemory

LEMMA CancelledKeeps ==
  ASSUME PioMemory, NEW m \in Machines, Cancelled(m) PROVE PioMemory'
<1>1. /\ pioCode' = [a \in Addresses |-> IF a \in Own(m) THEN Nobody ELSE pioCode[a]]
      /\ pioUsed' = pioUsed \ Own(m) /\ pioMach' = [pioMach EXCEPT ![m] = NoProgram]
  BY DEF Cancelled, Freed, Own
<1>2. pioMach \in [Machines -> [length : Nat, at : Nat, input : BOOLEAN, output : BOOLEAN]]
  BY DEF PioMemory
<1>3. /\ pioMach' \in [Machines -> [length : Nat, at : Nat, input : BOOLEAN, output : BOOLEAN]]
      /\ pioMach'[m] = NoProgram /\ \A k \in Machines : k # m => pioMach'[k] = pioMach[k]
  BY <1>1, <1>2 DEF NoProgram
<1>4. Own(m)' = {} /\ \A k \in Machines : k # m => Own(k)' = Own(k)
  BY <1>3 DEF Own, WordsAt, NoProgram
<1>5. \A j, k \in Machines : \A a \in Own(j) : a \in Own(k) => j = k
  BY DEF PioMemory
<1>6. pioUsed' \subseteq Addresses
  BY <1>1 DEF PioMemory
<1>7. \A a : a \in pioUsed' <=> \E k \in Machines : a \in Own(k)'
  BY <1>1, <1>4, <1>5 DEF PioMemory
<1>8. \A k \in Machines : \A a \in Own(k)' : pioCode'[a] = k
  BY <1>1, <1>4, <1>5, <1>6, <1>7 DEF PioMemory
<1>9. ASSUME NEW j \in Machines, NEW k \in Machines, j # k
      PROVE  ~(pioMach'[j].input /\ pioMach'[k].input) /\ ~(pioMach'[j].output /\ pioMach'[k].output)
  BY <1>3, <1>9 DEF PioMemory, NoProgram
<1> QED
  BY <1>3, <1>6, <1>7, <1>8, <1>9 DEF PioMemory

LEMMA ResetKeeps ==
  ASSUME PioMemory, ResetBlock PROVE PioMemory'
<1>1. /\ pioUsed' = pioUsed \ UNION {Freed(m) : m \in {k \in Machines : Configured(k)}}
      /\ pioMach' = [m \in Machines |-> NoProgram]
  BY DEF ResetBlock
<1>2. /\ pioMach' \in [Machines -> [length : Nat, at : Nat, input : BOOLEAN, output : BOOLEAN]]
      /\ \A k \in Machines : pioMach'[k] = NoProgram
  BY <1>1 DEF NoProgram
<1>3. \A k \in Machines : Own(k)' = {}
  BY <1>2 DEF Own, WordsAt, NoProgram
<1>4. pioUsed' = {}
  <2>1. ASSUME NEW a \in pioUsed PROVE a \in UNION {Freed(m) : m \in {k \in Machines : Configured(k)}}
    <3>1. PICK m \in Machines : a \in Own(m)
      BY DEF PioMemory
    <3>2. Configured(m)
      BY <3>1 DEF PioMemory, Own, WordsAt, Configured
    <3>3. a \in Freed(m)
      BY <3>1 DEF Freed, Own
    <3> QED
      BY <3>2, <3>3
  <2> QED
    BY <1>1, <2>1
<1> QED
  BY <1>2, <1>3, <1>4 DEF PioMemory, NoProgram

FifoRec == [on : BOOLEAN, tx : Seq(Nat), rx : Seq(Nat)]
CallRec == [pc : {"idle", "write", "read"}, machine : Machines \cup {0}, written : Nat, word : Nat, answer : Nat,
            mixed : BOOLEAN]

LEMMA WordsFacts ==
  ASSUME PioWords
  PROVE  /\ pioFifo \in [Machines -> FifoRec] /\ pioCall \in CallRec
         /\ pioCall.pc \in {"idle", "write", "read"} /\ pioCall.written \in Nat /\ pioCall.word \in Nat
         /\ pioCall.answer \in Nat /\ pioCall.mixed \in BOOLEAN
         /\ \A m \in Machines : pioFifo[m] \in FifoRec /\ pioFifo[m].tx \in Seq(Nat) /\ pioFifo[m].rx \in Seq(Nat)
                                /\ pioFifo[m].on \in BOOLEAN
  BY DEF PioWords, FifoRec, CallRec

(* A machine's FIFOs are emptied, and nothing else moves.                  *)
LEMMA StoppedKeeps ==
  ASSUME PioWords, NEW m \in Machines, pioFifo' = [pioFifo EXCEPT ![m] = Stopped],
         \/ pioCall' = pioCall /\ pioCall.pc = "idle"
         \/ m = pioCall.machine /\ pioCall.pc # "idle" /\ pioCall' = [pioCall EXCEPT !.pc = "idle", !.word = 0]
  PROVE  PioWords'
<1> USE WordsFacts
<1>1. /\ pioFifo' \in [Machines -> FifoRec] /\ pioFifo'[m] = Stopped
      /\ \A k \in Machines : k # m => pioFifo'[k] = pioFifo[k]
  BY DEF FifoRec, Stopped
<1>2. Hushed(m)' /\ \A k \in Machines : k # m => (Hushed(k)' <=> Hushed(k))
  BY <1>1 DEF Hushed, Stopped
<1>3. CASE pioCall' = pioCall /\ pioCall.pc = "idle"
  BY <1>1, <1>2, <1>3 DEF PioWords, FifoRec, CallRec
<1>4. CASE m = pioCall.machine /\ pioCall.pc # "idle" /\ pioCall' = [pioCall EXCEPT !.pc = "idle", !.word = 0]
  <2>1. /\ pioCall' \in CallRec /\ pioCall'.pc = "idle" /\ pioCall'.answer = pioCall.answer
        /\ pioCall'.mixed = pioCall.mixed
    BY <1>4 DEF CallRec
  <2>2. pioCall.answer = 0
    BY <1>4 DEF PioWords
  <2>3. ~pioCall.mixed => \A k \in Machines : k = m \/ Hushed(k)
    BY <1>4 DEF PioWords
  <2> QED
    BY <1>1, <1>2, <2>1, <2>2, <2>3 DEF PioWords, FifoRec, CallRec
<1> QED
  BY <1>3, <1>4

LEMMA ResetWords ==
  ASSUME PioWords, ResetBlock PROVE PioWords'
<1> USE WordsFacts
<1>1. /\ pioCall.pc = "idle" /\ pioCall' = pioCall
      /\ pioFifo' = [m \in Machines |-> IF Configured(m) THEN Stopped ELSE pioFifo[m]]
  BY DEF ResetBlock
<1>2. pioFifo' \in [Machines -> FifoRec] /\ \A m \in Machines : pioFifo'[m] = Stopped \/ pioFifo'[m] = pioFifo[m]
  BY <1>1 DEF FifoRec, Stopped
<1>3. \A m \in Machines : Hushed(m) => Hushed(m)'
  BY <1>2 DEF Hushed, Stopped
<1> QED
  BY <1>1, <1>2, <1>3 DEF PioWords, FifoRec, CallRec

LEMMA StartWords ==
  ASSUME PioWords, NEW m \in Machines, StartMachine(m) PROVE PioWords'
<1> USE WordsFacts
<1>1. pioCall.pc = "idle" /\ pioCall' = pioCall /\ pioFifo' = [pioFifo EXCEPT ![m].on = TRUE]
  BY DEF StartMachine
<1>2. /\ pioFifo' \in [Machines -> FifoRec]
      /\ \A k \in Machines : pioFifo'[k].tx = pioFifo[k].tx /\ pioFifo'[k].rx = pioFifo[k].rx
  BY <1>1 DEF FifoRec
<1>3. \A k \in Machines : Hushed(k) => Hushed(k)'
  BY <1>2 DEF Hushed
<1> QED
  BY <1>1, <1>2, <1>3 DEF PioWords, FifoRec, CallRec

LEMMA TryWords ==
  ASSUME PioWords, NEW m \in Machines, TryWrite(m) \/ TryRead(m) PROVE PioWords'
<1> USE WordsFacts
<1>1. CASE TryWrite(m)
  <2>1. /\ pioCall.pc = "idle" /\ pioFifo' = [pioFifo EXCEPT ![m].tx = Append(@, pioCall.written + 1)]
        /\ pioCall' = [pioCall EXCEPT !.written = @ + 1, !.mixed = TRUE]
    BY <1>1 DEF TryWrite
  <2>2. pioCall.written + 1 \in Nat /\ Append(pioFifo[m].tx, pioCall.written + 1) \in Seq(Nat)
    OBVIOUS
  <2>3. pioFifo' \in [Machines -> FifoRec]
    BY <2>1, <2>2 DEF FifoRec
  <2>4. pioCall' \in CallRec /\ pioCall'.mixed /\ pioCall'.pc = "idle"
    BY <2>1, <2>2 DEF CallRec
  <2> QED
    BY <2>3, <2>4 DEF PioWords, FifoRec, CallRec
<1>2. CASE TryRead(m)
  <2>1. /\ pioCall.pc = "idle" /\ pioFifo[m].rx # <<>> /\ pioFifo' = [pioFifo EXCEPT ![m].rx = Tail(@)]
        /\ pioCall' = pioCall
    BY <1>2 DEF TryRead
  <2>2. Tail(pioFifo[m].rx) \in Seq(Nat)
    BY <2>1
  <2>3. pioFifo' \in [Machines -> FifoRec]
    BY <2>1, <2>2 DEF FifoRec
  <2>4. pioCall.mixed
    BY <2>1 DEF PioWords, Hushed
  <2> QED
    BY <2>1, <2>3, <2>4 DEF PioWords, FifoRec, CallRec
<1> QED
  BY <1>1, <1>2

LEMMA ExchangeWords ==
  ASSUME PioWords, (\E m \in Machines : ExchangeStart(m)) \/ ExchangeWrite \/ ExchangeRead PROVE PioWords'
<1> USE WordsFacts
<1>1. ASSUME NEW m \in Machines, ExchangeStart(m) PROVE PioWords'
  <2>1. /\ pioCall.pc = "idle" /\ pioFifo' = pioFifo
        /\ pioCall' = [pioCall EXCEPT !.pc = "write", !.machine = m, !.written = @ + 1,
                                      !.word = pioCall.written + 1, !.answer = 0]
    BY <1>1 DEF ExchangeStart
  <2>2. pioCall.written + 1 \in Nat
    OBVIOUS
  <2>3. /\ pioCall' \in CallRec /\ pioCall'.pc = "write" /\ pioCall'.machine = m /\ pioCall'.answer = 0
        /\ pioCall'.mixed = pioCall.mixed
    BY <2>1, <2>2 DEF CallRec
  <2>4. \A k \in Machines : Hushed(k)' <=> Hushed(k)
    BY <2>1 DEF Hushed
  <2> QED
    BY <2>1, <2>3, <2>4 DEF PioWords, FifoRec, CallRec
<1>2. CASE ExchangeWrite
  <2>1. PICK m : m = pioCall.machine
    OBVIOUS
  <2>2. /\ pioCall.pc = "write" /\ pioFifo' = [pioFifo EXCEPT ![m].tx = Append(@, pioCall.word)]
        /\ pioCall' = [pioCall EXCEPT !.pc = "read"] /\ m \in Machines /\ pioCall.answer = 0
    BY <1>2, <2>1 DEF ExchangeWrite, PioWords
  <2>3. Append(pioFifo[m].tx, pioCall.word) \in Seq(Nat)
    BY <2>2
  <2>4. /\ pioFifo' \in [Machines -> FifoRec] /\ pioFifo'[m].tx = Append(pioFifo[m].tx, pioCall.word)
        /\ pioFifo'[m].rx = pioFifo[m].rx /\ \A k \in Machines : k # m => pioFifo'[k] = pioFifo[k]
    BY <2>2, <2>3 DEF FifoRec
  <2>5. /\ pioCall' \in CallRec /\ pioCall'.pc = "read" /\ pioCall'.machine = m /\ pioCall'.answer = 0
        /\ pioCall'.mixed = pioCall.mixed /\ pioCall'.word = pioCall.word
    BY <2>1, <2>2 DEF CallRec
  <2>6. ASSUME ~pioCall.mixed
        PROVE  /\ \A k \in Machines : k = m \/ Hushed(k)'
               /\ pioFifo'[m].tx = <<pioCall.word>> /\ pioFifo'[m].rx = <<>>
    <3>1. \A k \in Machines : Hushed(k)
      BY <2>2, <2>6 DEF PioWords
    <3>2. pioFifo[m].tx = <<>> /\ pioFifo[m].rx = <<>>
      BY <3>1, <2>2 DEF Hushed
    <3>3. Append(<<>>, pioCall.word) = <<pioCall.word>>
      OBVIOUS
    <3> QED
      BY <3>1, <3>2, <3>3, <2>4 DEF Hushed
  <2> QED
    BY <2>2, <2>4, <2>5, <2>6 DEF PioWords, FifoRec, CallRec
<1>3. CASE ExchangeRead
  <2>1. PICK m : m = pioCall.machine
    OBVIOUS
  <2>2. /\ pioCall.pc = "read" /\ pioFifo[m].rx # <<>> /\ pioFifo' = [pioFifo EXCEPT ![m].rx = Tail(@)]
        /\ pioCall' = [pioCall EXCEPT !.pc = "idle", !.answer = Head(pioFifo[m].rx)] /\ m \in Machines
    BY <1>3, <2>1 DEF ExchangeRead, PioWords
  <2>3. Tail(pioFifo[m].rx) \in Seq(Nat) /\ Head(pioFifo[m].rx) \in Nat
    BY <2>2
  <2>4. /\ pioFifo' \in [Machines -> FifoRec] /\ pioFifo'[m].rx = Tail(pioFifo[m].rx)
        /\ pioFifo'[m].tx = pioFifo[m].tx /\ \A k \in Machines : k # m => pioFifo'[k] = pioFifo[k]
    BY <2>2, <2>3 DEF FifoRec
  <2>5. /\ pioCall' \in CallRec /\ pioCall'.pc = "idle" /\ pioCall'.answer = Head(pioFifo[m].rx)
        /\ pioCall'.mixed = pioCall.mixed /\ pioCall'.word = pioCall.word
    BY <2>2, <2>3 DEF CallRec
  <2>6. ASSUME ~pioCall.mixed
        PROVE  (\A k \in Machines : Hushed(k)') /\ Head(pioFifo[m].rx) = pioCall.word
    <3>1. \A k \in Machines : k # m => Hushed(k)
      BY <2>1, <2>2, <2>6 DEF PioWords
    <3>2. pioFifo[m].tx = <<>> /\ pioFifo[m].rx = <<pioCall.word>>
      BY <2>1, <2>2, <2>6 DEF PioWords
    <3>3. Tail(<<pioCall.word>>) = <<>> /\ Head(<<pioCall.word>>) = pioCall.word
      OBVIOUS
    <3> QED
      BY <3>1, <3>2, <3>3, <2>4 DEF Hushed
  <2> QED
    BY <2>2, <2>4, <2>5, <2>6 DEF PioWords, FifoRec, CallRec
<1> QED
  BY <1>1, <1>2, <1>3

LEMMA MachineWords ==
  ASSUME PioWords, NEW m \in Machines, MachineRuns(m) PROVE PioWords'
<1> USE WordsFacts
<1>1. /\ pioFifo[m].tx # <<>> /\ pioCall' = pioCall
      /\ pioFifo' = [pioFifo EXCEPT ![m].tx = Tail(@), ![m].rx = Append(@, Head(pioFifo[m].tx))]
  BY DEF MachineRuns
<1>2. Tail(pioFifo[m].tx) \in Seq(Nat) /\ Append(pioFifo[m].rx, Head(pioFifo[m].tx)) \in Seq(Nat)
  BY <1>1
<1>3. /\ pioFifo' \in [Machines -> FifoRec] /\ pioFifo'[m].tx = Tail(pioFifo[m].tx)
      /\ pioFifo'[m].rx = Append(pioFifo[m].rx, Head(pioFifo[m].tx))
      /\ \A k \in Machines : k # m => pioFifo'[k] = pioFifo[k]
  BY <1>1, <1>2 DEF FifoRec
<1>4. ASSUME ~pioCall.mixed
      PROVE  /\ pioCall.pc = "read" /\ m = pioCall.machine /\ \A k \in Machines : k # m => Hushed(k)'
             /\ pioFifo'[m].tx = <<>> /\ pioFifo'[m].rx = <<pioCall.word>>
  <2>1. pioCall.pc = "read" /\ m = pioCall.machine
    BY <1>1, <1>4 DEF PioWords, Hushed
  <2>2. pioFifo[m].tx = <<pioCall.word>> /\ pioFifo[m].rx = <<>>
    BY <1>1, <1>4, <2>1 DEF PioWords
  <2>3. Tail(<<pioCall.word>>) = <<>> /\ Append(<<>>, Head(<<pioCall.word>>)) = <<pioCall.word>>
    OBVIOUS
  <2>4. \A k \in Machines : k # m => Hushed(k)
    BY <1>4, <2>1 DEF PioWords
  <2> QED
    BY <2>1, <2>2, <2>3, <2>4, <1>3 DEF Hushed
<1> QED
  BY <1>1, <1>3, <1>4 DEF PioWords, FifoRec, CallRec

(* The memory in use is the programs of the configured machines, whole and *)
(* apart; a pin has one machine; an exchange returns the answer to its own *)
(* word.  For any number of machines, size of memory and of the FIFOs.     *)
THEOREM PioIsRight == PioSpec => []PioRight
<1>1. PioMemory /\ PioWords /\ [PioNext]_pioVars => (PioMemory /\ PioWords)'
  <2> SUFFICES ASSUME PioMemory, PioWords, [PioNext]_pioVars PROVE PioMemory' /\ PioWords'
    OBVIOUS
  <2>0. ASSUME UNCHANGED <<pioUsed, pioMach, pioCode>> PROVE PioMemory'
    BY <2>0 DEF PioMemory, Own
  <2>1. CASE UNCHANGED pioVars
    <3>1. PioWords'
      BY <2>1 DEF pioVars, PioWords, Hushed
    <3> QED
      BY <2>0, <2>1, <3>1 DEF pioVars
  <2>2. ASSUME NEW m \in Machines, NEW p \in PioPrograms, Configure(m, p) PROVE PioMemory' /\ PioWords'
    BY <2>2, ConfigureKeeps, StoppedKeeps DEF Configure
  <2>3. ASSUME NEW m \in Machines,
               StartMachine(m) \/ TryWrite(m) \/ TryRead(m) \/ ExchangeStart(m) \/ Cancel(m) \/ MachineRuns(m)
        PROVE  PioMemory' /\ PioWords'
    <3>1. CASE StartMachine(m)
      BY <2>0, <3>1, StartWords DEF StartMachine
    <3>2. CASE TryWrite(m) \/ TryRead(m)
      BY <2>0, <3>2, TryWords DEF TryWrite, TryRead
    <3>3. CASE ExchangeStart(m)
      BY <2>0, <3>3, ExchangeWords DEF ExchangeStart
    <3>4. CASE Cancel(m)
      BY <3>4, CancelledKeeps, StoppedKeeps DEF Cancel, Cancelled
    <3>5. CASE MachineRuns(m)
      BY <2>0, <3>5, MachineWords DEF MachineRuns
    <3> QED
      BY <2>3, <3>1, <3>2, <3>3, <3>4, <3>5
  <2>4. CASE ExchangeWrite
    BY <2>0, <2>4, ExchangeWords DEF ExchangeWrite
  <2>5. CASE ExchangeRead
    BY <2>0, <2>5, ExchangeWords DEF ExchangeRead
  <2>6. CASE ExchangeTimeout
    <3>1. pioCall.machine \in Machines /\ pioCall.pc # "idle"
      BY <2>6 DEF ExchangeTimeout, PioWords
    <3>2. PICK m \in Machines : m = pioCall.machine
      BY <3>1
    <3>3. Cancelled(m) /\ pioCall' = [pioCall EXCEPT !.pc = "idle", !.word = 0]
      BY <2>6, <3>2 DEF ExchangeTimeout
    <3>4. PioMemory'
      BY <3>3, CancelledKeeps
    <3>5. PioWords'
      BY <3>1, <3>2, <3>3, StoppedKeeps DEF Cancelled
    <3> QED
      BY <3>4, <3>5
  <2>7. CASE ResetBlock
    BY <2>7, ResetKeeps, ResetWords
  <2> QED
    BY <2>1, <2>2, <2>3, <2>4, <2>5, <2>6, <2>7 DEF PioNext
<1>2. PioMemory /\ PioWords => PioRight
  <2> SUFFICES ASSUME PioMemory, PioWords PROVE PioRight
    OBVIOUS
  <2>1. pioUsed = UNION {Own(m) : m \in {k \in Machines : Configured(k)}}
    <3>1. \A m \in Machines : \A a \in Own(m) : Configured(m)
      BY DEF PioMemory, Own, WordsAt, Configured
    <3> QED
      BY <3>1 DEF PioMemory
  <2>2. pioCall.answer # 0 /\ ~pioCall.mixed => pioCall.answer = pioCall.word
    BY DEF PioWords
  <2> QED
    BY <2>1, <2>2 DEF PioMemory, PioRight, Own
<1> QED
  BY <1>1, <1>2, PioBegins, PTL DEF PioSpec

(* What is opened on the RP2040 belongs to its opener, all of it or none,
   and comes back when it is closed (PicoClaims.tla, PicoPio.tla), for any
   openers, plans, machines and programs. *)
THEOREM PicoIsRight == PicoSpec => []PicoRight
  BY ClaimsAreExact, PioIsRight, PTL DEF PicoSpec, PicoRight
=============================================================================
