------------------------------ MODULE PicoPio ------------------------------
(***************************************************************************)
(* One PIO block of the RP2040 (drivers/physical/rp2040/pio): its state    *)
(* machines share an instruction memory, allocated from the top, and the   *)
(* block's input and output pin.  A program is its length; a machine that  *)
(* runs answers every word it takes with one word.                         *)
(***************************************************************************)
EXTENDS PicoClaims, Naturals, Sequences, FiniteSets, FiniteSetsExt

CONSTANTS
  Machines,        \* 0 .. 3
  PIO_WORDS,       \* instructions of the memory (32)
  PioPrograms,     \* [length, input, output] to configure
  PIO_FIFO,        \* depth of a FIFO
  MAX_PIO_CALLS    \* bound: words written

ASSUME PioAssumption ==
  /\ PIO_WORDS \in Nat \ {0} /\ PIO_FIFO \in Nat \ {0} /\ MAX_PIO_CALLS \in Nat
  /\ \A p \in PioPrograms : p.length \in Nat /\ {p.input, p.output} \subseteq BOOLEAN

VARIABLES
  pioUsed,    \* memory: the instructions in use
  pioMach,    \* machines: the program of each, or none
  pioCode,    \* instruction memory: whose program is at each address
  pioFifo,    \* per machine: running, transmit and receive FIFO
  pioCall     \* the exchange in progress, the words written, the last answer

pioVars == <<pioUsed, pioMach, pioCode, pioFifo, pioCall>>

NoProgram == [length |-> 0, at |-> 0, input |-> FALSE, output |-> FALSE]
Stopped == [on |-> FALSE, tx |-> <<>>, rx |-> <<>>]
Addresses == 0 .. PIO_WORDS - 1
Configured(m) == pioMach[m].length > 0
WordsAt(at, n) == at .. at + n - 1

TypePio ==
  /\ pioUsed \subseteq Addresses
  /\ pioMach \in [Machines -> [length : 0 .. PIO_WORDS, at : Addresses, input : BOOLEAN, output : BOOLEAN]]
  /\ pioCode \in [Addresses -> Machines \cup {Cardinality(Machines)}]
  /\ \A m \in Machines : Len(pioFifo[m].tx) <= PIO_FIFO /\ Len(pioFifo[m].rx) <= PIO_FIFO
  /\ pioCall.written \in 0 .. MAX_PIO_CALLS /\ pioCall.pc \in {"idle", "write", "read"}

Nobody == Cardinality(Machines)

PioBlockInit ==
  /\ pioUsed = {}
  /\ pioMach = [m \in Machines |-> NoProgram]
  /\ pioCode = [a \in Addresses |-> Nobody]
  /\ pioFifo = [m \in Machines |-> Stopped]
  /\ pioCall = [pc |-> "idle", machine |-> 0, written |-> 0, word |-> 0, answer |-> 0, mixed |-> FALSE]

(* allocation: the highest offset where the program fits.                  *)
Fits(n) == {at \in Addresses : WordsAt(at, n) \subseteq Addresses \ pioUsed}
Allocation(n) == Max(Fits(n))

Taken(p) == \E m \in Machines : (p.input /\ pioMach[m].input) \/ (p.output /\ pioMach[m].output)

(* configure: every check before the first write to the block.             *)
Configure(m, p) ==
  /\ pioCall.pc = "idle" /\ ~Configured(m) /\ ~Taken(p)
  /\ p.length > 0 /\ Fits(p.length) # {}
  /\ LET at == Allocation(p.length)
     IN  /\ pioMach' = [pioMach EXCEPT ![m] = [length |-> p.length, at |-> at,
                                               input |-> p.input, output |-> p.output]]
         /\ pioUsed' = pioUsed \cup WordsAt(at, p.length)
         /\ pioCode' = [a \in Addresses |-> IF a \in WordsAt(at, p.length) THEN m ELSE pioCode[a]]
  /\ pioFifo' = [pioFifo EXCEPT ![m] = Stopped]      \* clear_machine
  /\ UNCHANGED pioCall

StartMachine(m) ==
  /\ pioCall.pc = "idle" /\ Configured(m) /\ ~pioFifo[m].on
  /\ pioFifo' = [pioFifo EXCEPT ![m].on = TRUE]
  /\ UNCHANGED <<pioUsed, pioMach, pioCode, pioCall>>

(* try_write and try_read on their own.                                    *)
TryWrite(m) ==
  /\ pioCall.pc = "idle" /\ Configured(m) /\ pioCall.written < MAX_PIO_CALLS
  /\ Len(pioFifo[m].tx) < PIO_FIFO
  /\ pioFifo' = [pioFifo EXCEPT ![m].tx = Append(@, pioCall.written + 1)]
  /\ pioCall' = [pioCall EXCEPT !.written = @ + 1, !.mixed = TRUE]
  /\ UNCHANGED <<pioUsed, pioMach, pioCode>>

TryRead(m) ==
  /\ pioCall.pc = "idle" /\ Configured(m) /\ pioFifo[m].rx # <<>>
  /\ pioFifo' = [pioFifo EXCEPT ![m].rx = Tail(@)]
  /\ UNCHANGED <<pioUsed, pioMach, pioCode, pioCall>>

(* exchange: write when there is room, read when there is an answer ...    *)
ExchangeStart(m) ==
  /\ pioCall.pc = "idle" /\ Configured(m) /\ pioCall.written < MAX_PIO_CALLS
  /\ pioCall' = [pioCall EXCEPT !.pc = "write", !.machine = m, !.written = @ + 1,
                                !.word = pioCall.written + 1, !.answer = 0]
  /\ UNCHANGED <<pioUsed, pioMach, pioCode, pioFifo>>

ExchangeWrite ==
  LET m == pioCall.machine
  IN  /\ pioCall.pc = "write" /\ Len(pioFifo[m].tx) < PIO_FIFO
      /\ pioFifo' = [pioFifo EXCEPT ![m].tx = Append(@, pioCall.word)]
      /\ pioCall' = [pioCall EXCEPT !.pc = "read"]
      /\ UNCHANGED <<pioUsed, pioMach, pioCode>>

ExchangeRead ==
  LET m == pioCall.machine
  IN  /\ pioCall.pc = "read" /\ pioFifo[m].rx # <<>>
      /\ pioFifo' = [pioFifo EXCEPT ![m].rx = Tail(@)]
      /\ pioCall' = [pioCall EXCEPT !.pc = "idle", !.answer = Head(pioFifo[m].rx)]
      /\ UNCHANGED <<pioUsed, pioMach, pioCode>>

(* Mutant: one instruction too many is freed.                              *)
FreedShort(m) == WordsAt(pioMach[m].at, pioMach[m].length + 1)

(* cancel: the machine stopped and flushed, its output released, its       *)
(* instructions blanked and freed.                                         *)
Freed(m) == WordsAt(pioMach[m].at, pioMach[m].length)
Cancelled(m) ==
  /\ pioFifo' = [pioFifo EXCEPT ![m] = Stopped]
  /\ pioCode' = [a \in Addresses |-> IF a \in Freed(m) THEN Nobody ELSE pioCode[a]]
  /\ pioUsed' = pioUsed \ Freed(m)
  /\ pioMach' = [pioMach EXCEPT ![m] = NoProgram]

(* ... and out of time, the machine is cancelled.                          *)
ExchangeTimeout ==
  /\ pioCall.pc \in {"write", "read"}
  /\ Cancelled(pioCall.machine)
  /\ pioCall' = [pioCall EXCEPT !.pc = "idle", !.word = 0]

Cancel(m) ==
  /\ pioCall.pc = "idle" /\ Configured(m)
  /\ Cancelled(m)
  /\ UNCHANGED pioCall

(* reset, and drop: every machine.                                         *)
ResetBlock ==
  /\ pioCall.pc = "idle"
  /\ pioFifo' = [m \in Machines |-> IF Configured(m) THEN Stopped ELSE pioFifo[m]]
  /\ pioCode' = [a \in Addresses |-> IF \E m \in Machines : Configured(m) /\ a \in Freed(m)
                                     THEN Nobody ELSE pioCode[a]]
  /\ pioUsed' = pioUsed \ UNION {Freed(m) : m \in {k \in Machines : Configured(k)}}
  /\ pioMach' = [m \in Machines |-> NoProgram]
  /\ UNCHANGED pioCall

(* The machine.                                                            *)
MachineRuns(m) ==
  LET f == pioFifo[m]
  IN  /\ f.on /\ f.tx # <<>> /\ Len(f.rx) < PIO_FIFO
      /\ pioFifo' = [pioFifo EXCEPT ![m].tx = Tail(@), ![m].rx = Append(@, Head(f.tx))]
      /\ UNCHANGED <<pioUsed, pioMach, pioCode, pioCall>>

PioNext ==
  \/ \E m \in Machines :
       \/ \E p \in PioPrograms : Configure(m, p)
       \/ StartMachine(m) \/ TryWrite(m) \/ TryRead(m) \/ ExchangeStart(m) \/ Cancel(m) \/ MachineRuns(m)
  \/ ExchangeWrite \/ ExchangeRead \/ ExchangeTimeout \/ ResetBlock

PioSpec == PioBlockInit /\ [][PioNext]_pioVars

----------------------------------------------------------------------------
(* The memory in use is exactly the programs of the configured machines,   *)
(* which are whole and their own; a pin has one machine.  An exchange, by  *)
(* a caller that does not write words on the side, returns the answer to   *)
(* its own word: a word that timed out leaves nothing behind.              *)
PioRight ==
  /\ pioUsed = UNION {WordsAt(pioMach[m].at, pioMach[m].length) : m \in {k \in Machines : Configured(k)}}
  /\ \A m \in Machines : Configured(m) =>
       \A a \in WordsAt(pioMach[m].at, pioMach[m].length) : pioCode[a] = m
  /\ \A m, k \in Machines : m # k =>
       ~(pioMach[m].input /\ pioMach[k].input) /\ ~(pioMach[m].output /\ pioMach[k].output)
  /\ pioCall.answer # 0 /\ ~pioCall.mixed => pioCall.answer = pioCall.word

(* The claims and one PIO block side by side; they share no state. *)
PicoSpec == ClaimSpec /\ PioSpec

(* Units, pins and PIO memory of the RP2040 belong to whoever opened them, *)
(* all of an opener's or none, and come back exactly when it closes        *)
(* (PicoClaims.tla, PicoPio.tla).                                          *)
PicoRight == ClaimsExact /\ PioRight
=============================================================================
