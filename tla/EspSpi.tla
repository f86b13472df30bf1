------------------------------- MODULE EspSpi -------------------------------
(***************************************************************************)
(* The ESP32's SPI hosts under the SPI bus: claiming a host and one of the *)
(* DMA channels the hosts share (drivers/physical/esp32/spi,               *)
(* soc/esp32/src/dma.rs, dma_desc.rs), and one bus transfer at a time on   *)
(* each (drivers/bus/spi-bus), polled through the FIFO or by DMA, or       *)
(* started with exchange_async and completed by the application's handler. *)
(*                                                                         *)
(* A buffer is the set of its byte positions.  The bus holds its mutex for *)
(* a whole transfer, so a host has one caller (spiJob).                    *)
(***************************************************************************)
EXTENDS Naturals, Sequences, FiniteSets, FiniteSetsExt

CONSTANTS
  Hosts,            \* SPI2 and SPI3
  SPI_CHANNELS,     \* CHANNELS of the crossbar that no other host has taken
  SPI_MAX_BYTES,    \* bytes of the data buffer, and MAX_TRANSFER of the bus
  DESC_MAX_LEN,     \* Descriptor::MAX_LEN
  MAX_DESCS,        \* descriptors of one bank
  OpLens,           \* lengths of a transfer
  SpiUsers,         \* the hosts in use once open
  MAX_SPI_CALLS,    \* bound: calls ever begun
  NoHost

ASSUME SpiAssumption ==
  /\ SPI_CHANNELS \in Nat
  /\ SPI_MAX_BYTES \in Nat \ {0}
  /\ DESC_MAX_LEN \in Nat \ {0}
  /\ MAX_DESCS \in Nat \ {0}
  /\ OpLens \subseteq Nat
  /\ SpiUsers \subseteq Hosts
  /\ MAX_SPI_CALLS \in Nat
  /\ NoHost \notin Hosts

VARIABLES
  chanOwner,      \* OWNER: the host each channel belongs to
  selector,       \* DPORT_SPI_DMA_CHAN_SEL: the channel of each host, 0 for none
  spiHost,        \* per host: its claim, its DmaSlot, PENDING and INT_ENA
  spiEngine,      \* per host: links, data buffer, SPI_USR, completion flags
  spiJob,         \* per host: the call in progress and the outcome of the last
  spiTop,         \* per host: where its handler is
  spiSignalled,   \* calls the handlers have passed to signal_complete
  spiCalls,       \* calls begun so far
  spiResidue      \* per host, history: what earlier transfers left in the engine,
                  \* and what the call in progress lost by it

spiVars == <<chanOwner, selector, spiHost, spiEngine, spiJob, spiTop, spiSignalled, spiCalls, spiResidue>>

Crossbar == 1 .. SPI_CHANNELS
Flags == {"done", "in", "out"}     \* TRANS_DONE, IN_SUC_EOF, OUT_EOF

(* A buffer of n bytes in runs of at most cap: the pieces of an op, the    *)
(* rounds through the FIFO.                                                *)
Ceil(n, cap) == (n + cap - 1) \div cap
Pieces(at, n, cap) ==
  [i \in 1 .. Ceil(n, cap) |->
     [at |-> at + (i - 1) * cap, n |-> Min({cap, n - (i - 1) * cap})]]
Span(p) == p.at .. p.at + p.n - 1

(* descriptors_needed and build_chain: the engine stops at the last one.   *)
DescriptorsNeeded(n) == Max({1, Ceil(n, DESC_MAX_LEN)})
build_chain(at, n) ==
  [i \in 1 .. DescriptorsNeeded(n) |->
     [at |-> at + (i - 1) * DESC_MAX_LEN,
      n |-> Min({DESC_MAX_LEN, n - (i - 1) * DESC_MAX_LEN})]]

NewSlot == [claimed |-> FALSE, channel |-> 0, dma |-> TRUE, bank |-> 0, pending |-> 0,
            intEna |-> FALSE, handled |-> FALSE]
Still == [tx |-> <<>>, rx |-> <<>>, buffer |-> 0, go |-> FALSE, flags |-> {}, call |-> 0, bank |-> 0]
NoJob == [pc |-> "closed", call |-> 0, len |-> 0, pieces |-> <<>>, rounds |-> <<>>, try |-> 0,
          async |-> FALSE, reach |-> TRUE, bank |-> 0, moved |-> {}, outcome |-> "none"]

(* The bytes of a FIFO transfer that no DMA transfer has made good, whether *)
(* the round in progress began while another transaction was shifting, the *)
(* bytes of this call that did not land, and whether it met either.        *)
NoResidue == [fifo |-> 0, over |-> FALSE, short |-> {}, mixed |-> FALSE]

PieceType == [at : Nat, n : Nat]
TypeSpi ==
  /\ chanOwner \in [Crossbar -> Hosts \cup {NoHost}]
  /\ selector \in [Hosts -> 0 .. SPI_CHANNELS]
  /\ spiHost \in [Hosts -> [claimed : BOOLEAN, channel : 0 .. SPI_CHANNELS, dma : BOOLEAN,
                            bank : 0 .. 1, pending : 0 .. MAX_SPI_CALLS, intEna : BOOLEAN,
                            handled : BOOLEAN]]
  /\ \A h \in Hosts :
       /\ spiEngine[h].tx \in Seq(PieceType) /\ spiEngine[h].rx \in Seq(PieceType)
       /\ spiEngine[h].flags \subseteq Flags
       /\ spiJob[h].pc \in {"closed", "init", "claim", "select", "ready", "piece", "fifo", "shift",
                            "begin", "reset", "arm", "go", "wait", "await"}
       /\ spiJob[h].outcome \in {"none", "ok", "timeout", "error"}
  /\ spiTop \in [Hosts -> {"idle", "take"}]
  /\ spiSignalled \subseteq 1 .. MAX_SPI_CALLS
  /\ spiCalls \in 0 .. MAX_SPI_CALLS
  /\ \A h \in Hosts : spiResidue[h].fifo \in 0 .. SPI_MAX_BYTES /\ spiResidue[h].short \subseteq spiJob[h].moved

SpiInit ==
  /\ chanOwner = [c \in Crossbar |-> NoHost]
  /\ selector = [h \in Hosts |-> 0]
  /\ spiHost = [h \in Hosts |-> NewSlot]
  /\ spiEngine = [h \in Hosts |-> Still]
  /\ spiJob = [h \in Hosts |-> NoJob]
  /\ spiTop = [h \in Hosts |-> "idle"]
  /\ spiSignalled = {}
  /\ spiCalls = 0
  /\ spiResidue = [h \in Hosts |-> NoResidue]

At(h, l) == spiJob[h].pc = l
SpiGoto(h, l) == spiJob' = [spiJob EXCEPT ![h].pc = l]
Ends(h, how) == spiJob' = [spiJob EXCEPT ![h].pc = "ready", ![h].outcome = how,
                                         ![h].pieces = <<>>, ![h].rounds = <<>>]
spiOthers == <<chanOwner, selector, spiTop, spiSignalled, spiCalls>>
spiRest == <<spiOthers, spiResidue>>

----------------------------------------------------------------------------
(* Esp32Spi::open: a second open of a host is refused.                     *)
SpiOpen(h) ==
  /\ At(h, "closed") /\ ~spiHost[h].claimed
  /\ spiHost' = [spiHost EXCEPT ![h].claimed = TRUE]
  /\ SpiGoto(h, "init")
  /\ UNCHANGED <<spiEngine, spiRest>>

(* init refuses the pins, and open gives the claim back.                   *)
InitFails(h) ==
  /\ At(h, "init")
  /\ spiHost' = [spiHost EXCEPT ![h].claimed = FALSE]
  /\ SpiGoto(h, "closed")
  /\ UNCHANGED <<spiEngine, spiRest>>

(* init goes on to dma::claim, unless the slot has a channel or the host   *)
(* is an owner already.                                                    *)
InitRoutes(h) ==
  /\ At(h, "init")
  /\ spiJob' = [spiJob EXCEPT ![h].try = 1,
                  ![h].pc = IF spiHost[h].channel # 0 \/ \E c \in Crossbar : chanOwner[c] = h
                            THEN "ready" ELSE "claim"]
  /\ UNCHANGED <<spiHost, spiEngine, spiRest>>

(* claim: one compare-exchange to a channel, in order; without a channel   *)
(* the host keeps to the FIFO.                                             *)
ClaimChan(h) ==
  LET c == spiJob[h].try
  IN  /\ At(h, "claim")
      /\ \/ /\ c > SPI_CHANNELS
            /\ SpiGoto(h, "ready")
            /\ UNCHANGED chanOwner
         \/ /\ c \in Crossbar /\ chanOwner[c] # NoHost
            /\ spiJob' = [spiJob EXCEPT ![h].try = c + 1]
            /\ UNCHANGED chanOwner
         \/ /\ c \in Crossbar /\ chanOwner[c] = NoHost
            /\ chanOwner' = [chanOwner EXCEPT ![c] = h]
            /\ SpiGoto(h, "select")
      /\ UNCHANGED <<spiHost, spiEngine, selector, spiTop, spiSignalled, spiCalls, spiResidue>>

(* set_selector, under the DPORT lock, and the channel into the slot.      *)
SetSelector(h) ==
  /\ At(h, "select")
  /\ selector' = [selector EXCEPT ![h] = spiJob[h].try]
  /\ spiHost' = [spiHost EXCEPT ![h].channel = spiJob[h].try]
  /\ SpiGoto(h, "ready")
  /\ UNCHANGED <<spiEngine, chanOwner, spiTop, spiSignalled, spiCalls, spiResidue>>

(* The application connects its handler before it uses exchange_async.     *)
ConnectTop(h) ==
  /\ At(h, "ready") /\ ~spiHost[h].handled
  /\ spiHost' = [spiHost EXCEPT ![h].handled = TRUE]
  /\ UNCHANGED <<spiEngine, spiJob, spiRest>>

SetDma(h, on) ==
  /\ At(h, "ready") /\ spiHost[h].dma # on
  /\ spiHost' = [spiHost EXCEPT ![h].dma = on]
  /\ UNCHANGED <<spiEngine, spiJob, spiRest>>

----------------------------------------------------------------------------
(* A call begins with nothing lost; the engine is as the last one left it. *)
Afresh(h) == spiResidue' = [spiResidue EXCEPT ![h].short = {}, ![h].mixed = FALSE]

Calling(h, job) ==
  /\ At(h, "ready") /\ spiCalls < MAX_SPI_CALLS
  /\ spiCalls' = spiCalls + 1
  /\ spiJob' = [spiJob EXCEPT ![h] = job]
  /\ Afresh(h)
  /\ UNCHANGED <<spiHost, spiEngine, chanOwner, selector, spiTop, spiSignalled>>

(* SpiBus::transfer: an exchange goes to the driver whole, a write or a    *)
(* read against a scratch buffer in pieces of MAX_TRANSFER.                *)
BusTransfer(h, kind, n, reach) ==
  Calling(h, [NoJob EXCEPT !.pc = "piece", !.call = spiCalls + 1, !.len = n, !.reach = reach,
                !.pieces = IF kind = "exchange" THEN <<[at |-> 0, n |-> n]>>
                           ELSE Pieces(0, n, SPI_MAX_BYTES)])

(* exchange: which way a piece goes.                                       *)
DmaReady(h) == spiHost[h].dma /\ spiHost[h].channel # 0
use_dma(h, p) ==
  p.n > 0 /\ DmaReady(h) /\ spiJob[h].reach /\ DescriptorsNeeded(p.n) <= MAX_DESCS

PiecesDone(h) ==
  /\ At(h, "piece") /\ spiJob[h].pieces = <<>>
  /\ Ends(h, "ok")
  /\ UNCHANGED <<spiHost, spiEngine, spiRest>>

(* A bulk piece the caller wants over DMA but cannot be is an error; the   *)
(* others go through the FIFO in rounds (fifo_chunked).                    *)
ByFifo(h) ==
  LET p == Head(spiJob[h].pieces)
  IN  /\ At(h, "piece") /\ spiJob[h].pieces # <<>> /\ ~use_dma(h, p)
      /\ \/ DmaReady(h) /\ p.n > SPI_MAX_BYTES /\ Ends(h, "error")
         \/ /\ ~(DmaReady(h) /\ p.n > SPI_MAX_BYTES)
            /\ spiJob' = [spiJob EXCEPT ![h].pc = "fifo",
                                        ![h].rounds = Pieces(p.at, p.n, SPI_MAX_BYTES)]
      /\ UNCHANGED <<spiHost, spiEngine, spiRest>>

(* fifo_exchange: fill the data buffer and start, though a transaction that *)
(* was given up may be shifting still ...                                  *)
FifoStart(h) ==
  /\ At(h, "fifo") /\ spiJob[h].rounds # <<>>
  /\ spiResidue' = [spiResidue EXCEPT ![h].fifo = Head(spiJob[h].rounds).n, ![h].over = spiEngine[h].go,
                                      ![h].mixed = @ \/ spiEngine[h].go]
  /\ spiEngine' = [spiEngine EXCEPT ![h].buffer = Head(spiJob[h].rounds).n, ![h].go = TRUE]
  /\ SpiGoto(h, "shift")
  /\ UNCHANGED <<spiHost, spiOthers>>

(* ... wait for SPI_USR to clear itself, and read the buffer back; it was   *)
(* another transaction's, perhaps ...                                      *)
FifoEnd(h) ==
  /\ At(h, "shift") /\ ~spiEngine[h].go
  /\ spiJob' = [spiJob EXCEPT ![h].pc = "fifo", ![h].rounds = Tail(@),
                              ![h].moved = @ \cup Span(Head(spiJob[h].rounds))]
  /\ spiResidue' = [spiResidue EXCEPT ![h].short =
                      IF spiResidue[h].over THEN @ \cup Span(Head(spiJob[h].rounds)) ELSE @]
  /\ UNCHANGED <<spiHost, spiEngine, spiOthers>>

(* ... or give up.  A transaction still shifting is left to itself.        *)
FifoTimeout(h) ==
  /\ At(h, "shift") /\ spiEngine[h].go
  /\ Ends(h, "timeout")
  /\ UNCHANGED <<spiHost, spiEngine, spiRest>>

FifoChunked(h) ==
  /\ At(h, "fifo") /\ spiJob[h].rounds = <<>>
  /\ spiJob' = [spiJob EXCEPT ![h].pc = "piece", ![h].pieces = Tail(@)]
  /\ UNCHANGED <<spiHost, spiEngine, spiRest>>

----------------------------------------------------------------------------
(* The other descriptor bank gets the chains of this transfer; a buffer    *)
(* that is not aligned has none.                                           *)
ByDma(h) ==
  /\ At(h, "piece") /\ spiJob[h].pieces # <<>> /\ use_dma(h, Head(spiJob[h].pieces))
  /\ \/ spiJob' = [spiJob EXCEPT ![h].pc = "reset", ![h].bank = spiHost[h].bank]
     \/ Ends(h, "error")
  /\ spiHost' = [spiHost EXCEPT ![h].bank = 1 - @]
  /\ UNCHANGED <<spiEngine, spiRest>>

(* dma_setup_and_fire: links off, core and DMA reset, flags cleared; the    *)
(* resets do not make good a FIFO transfer before ...                      *)
FireReset(h) ==
  /\ At(h, "reset")
  /\ spiEngine' = [spiEngine EXCEPT ![h] = Still]
  /\ SpiGoto(h, "arm")
  /\ UNCHANGED <<spiHost, spiRest>>

(* ... lengths, then both links ...                                        *)
FireArm(h) ==
  LET p == Head(spiJob[h].pieces)
      chain == build_chain(p.at, p.n)
  IN  /\ At(h, "arm")
      /\ spiEngine' = [spiEngine EXCEPT ![h] = [@ EXCEPT !.tx = chain, !.rx = chain,
                          !.call = spiJob[h].call, !.bank = spiJob[h].bank]]
      /\ SpiGoto(h, "go")
      /\ spiResidue' = [spiResidue EXCEPT ![h].mixed = @ \/ spiResidue[h].fifo # 0]
      /\ UNCHANGED <<spiHost, spiOthers>>

(* ... and SPI_USR, once the transmit FIFO is primed or 50 ms are over.    *)
FireGo(h) ==
  /\ At(h, "go")
  /\ spiEngine' = [spiEngine EXCEPT ![h].go = TRUE]
  /\ SpiGoto(h, IF spiJob[h].async THEN "await" ELSE "wait")
  /\ UNCHANGED <<spiHost, spiRest>>

(* Mutant: TRANS_DONE alone is taken for completion.                       *)
DmaDoneEarly(h) == "done" \in spiEngine[h].flags

(* wait_dma_done: the transaction over, transmit drained, receive landed.  *)
dma_done(h) == spiEngine[h].flags = Flags

WaitDmaDone(h) ==
  /\ At(h, "wait") /\ dma_done(h)
  /\ spiJob' = [spiJob EXCEPT ![h].pc = "piece", ![h].pieces = Tail(@)]
  /\ UNCHANGED <<spiHost, spiEngine, spiRest>>

(* dma_stop on the way out.                                                *)
WaitTimeout(h) ==
  /\ At(h, "wait") /\ ~dma_done(h)
  /\ spiEngine' = [spiEngine EXCEPT ![h].tx = <<>>, ![h].rx = <<>>]
  /\ Ends(h, "timeout")
  /\ UNCHANGED <<spiHost, spiRest>>

----------------------------------------------------------------------------
(* exchange_async: checks, chains, DMA interrupts on.                      *)
ExchangeAsync(h, n) ==
  /\ At(h, "ready") /\ spiCalls < MAX_SPI_CALLS
  /\ n # 0 /\ DescriptorsNeeded(n) <= MAX_DESCS /\ spiHost[h].channel # 0
  /\ spiCalls' = spiCalls + 1
  /\ spiJob' = [spiJob EXCEPT ![h] = [NoJob EXCEPT !.pc = "begin", !.call = spiCalls + 1,
                  !.len = n, !.async = TRUE, !.bank = spiHost[h].bank,
                  !.pieces = <<[at |-> 0, n |-> n]>>]]
  /\ spiHost' = [spiHost EXCEPT ![h].bank = 1 - @, ![h].intEna = TRUE]
  /\ Afresh(h)
  /\ UNCHANGED <<spiEngine, chanOwner, selector, spiTop, spiSignalled>>

(* The broker refuses a buffer of another task, or mints the id, which is  *)
(* published before the engine starts.                                     *)
AsyncBegin(h) ==
  /\ At(h, "begin")
  /\ \/ Ends(h, "error") /\ UNCHANGED spiHost
     \/ /\ SpiGoto(h, "reset")
        /\ spiHost' = [spiHost EXCEPT ![h].pending = spiJob[h].call]
  /\ UNCHANGED <<spiEngine, spiRest>>

(* await_done: the id came through the broker, or 100 ms are over.         *)
AwaitAsync(h) ==
  /\ At(h, "await")
  /\ Ends(h, IF spiJob[h].call \in spiSignalled THEN "ok" ELSE "timeout")
  /\ UNCHANGED <<spiHost, spiEngine, spiRest>>

(* The handler: TRANS_DONE is enabled from reset, the DMA flags once       *)
(* exchange_async has asked.  ack_interrupts clears them all ...           *)
Line(h) == "done" \in spiEngine[h].flags \/ (spiHost[h].intEna /\ spiEngine[h].flags # {})
TopAcks(h) ==
  /\ spiHost[h].handled /\ spiTop[h] = "idle" /\ Line(h)
  /\ spiEngine' = [spiEngine EXCEPT ![h].flags = {}]
  /\ spiTop' = [spiTop EXCEPT ![h] = "take"]
  /\ UNCHANGED <<spiHost, spiJob, chanOwner, selector, spiSignalled, spiCalls, spiResidue>>

(* ... and take_pending_dma hands the id, if any, to the broker.           *)
TopTakes(h) ==
  /\ spiTop[h] = "take"
  /\ spiTop' = [spiTop EXCEPT ![h] = "idle"]
  /\ spiSignalled' = spiSignalled \cup ({spiHost[h].pending} \ {0})
  /\ spiHost' = [spiHost EXCEPT ![h].pending = 0]
  /\ UNCHANGED <<spiEngine, spiJob, chanOwner, selector, spiCalls, spiResidue>>

----------------------------------------------------------------------------
(* The hardware: the transmit chain is read ahead of the clock, what is    *)
(* received lands behind it.  Nothing happens on a host without a channel. *)
SpiShifts(h) ==
  LET e == spiEngine[h]
      f == [e EXCEPT !.flags = @ \cup {"out"}]
  IN  /\ e.go
      /\ \/ /\ e.tx # <<>> /\ selector[h] # 0
            /\ spiEngine' = [spiEngine EXCEPT ![h] =
                               [(IF Len(e.tx) = 1 THEN f ELSE e) EXCEPT !.tx = Tail(@)]]
         \/ /\ e.tx = <<>>
            /\ spiEngine' = [spiEngine EXCEPT ![h].go = FALSE, ![h].buffer = 0,
                                              ![h].flags = @ \cup {"done"}]
      /\ UNCHANGED <<spiHost, spiJob, spiRest>>

(* "The DMA receive lands short by the FIFO transfer's byte count"; whether *)
(* that transfer makes it good, the code does not say.                     *)
LandsShort(h) ==
  LET e == spiEngine[h]
      end == e.rx[Len(e.rx)].at + e.rx[Len(e.rx)].n
  IN  {x \in Span(Head(e.rx)) : spiResidue[h].fifo # 0 /\ x + spiResidue[h].fifo >= end}

SpiLands(h) ==
  LET e == spiEngine[h]
      mine == e.call = spiJob[h].call
  IN  /\ Len(e.rx) > Len(e.tx) /\ selector[h] # 0
      /\ spiEngine' = [spiEngine EXCEPT ![h].rx = Tail(@),
                         ![h].flags = @ \cup (IF Len(e.rx) = 1 THEN {"in"} ELSE {})]
      /\ spiJob' = IF mine THEN [spiJob EXCEPT ![h].moved = @ \cup Span(Head(e.rx))] ELSE spiJob
      /\ \E left \in {spiResidue[h].fifo} \cup (IF Len(e.rx) = 1 THEN {0} ELSE {}) :
           spiResidue' = [spiResidue EXCEPT ![h].fifo = left,
                            ![h].short = IF mine THEN @ \cup LandsShort(h) ELSE @]
      /\ UNCHANGED <<spiHost, spiOthers>>

SpiNext ==
  \/ \E h \in Hosts :
       SpiOpen(h) \/ InitFails(h) \/ InitRoutes(h) \/ ClaimChan(h) \/ SetSelector(h)
  \/ \E h \in SpiUsers :
       \/ ConnectTop(h) \/ \E on \in BOOLEAN : SetDma(h, on)
       \/ \E kind \in {"exchange", "stream"}, n \in OpLens, reach \in BOOLEAN :
            BusTransfer(h, kind, n, reach)
       \/ PiecesDone(h) \/ ByFifo(h) \/ FifoStart(h) \/ FifoEnd(h) \/ FifoTimeout(h)
       \/ FifoChunked(h) \/ ByDma(h) \/ FireReset(h) \/ FireArm(h) \/ FireGo(h)
       \/ WaitDmaDone(h) \/ WaitTimeout(h)
       \/ \E n \in OpLens : ExchangeAsync(h, n)
       \/ AsyncBegin(h) \/ AwaitAsync(h) \/ TopAcks(h) \/ TopTakes(h)
       \/ SpiShifts(h) \/ SpiLands(h)

SpiSpec == SpiInit /\ [][SpiNext]_spiVars

----------------------------------------------------------------------------
(* transfer_dma: "chains, and the buffers they point at, must stay valid   *)
(* and untouched until this returns"; spi-bus: "No length is ever silently *)
(* cut short".  A transfer that returns Ok has accounted for every byte,   *)
(* whichever way it went, and every byte was moved unless it met what an   *)
(* earlier transfer left in the engine: DMA after the FIFO, or a FIFO      *)
(* transaction that was given up and still shifts.  When a polled transfer *)
(* returns, whatever the outcome, the engine is off its memory.            *)
PolledMoved ==
  \A h \in Hosts :
    LET j == spiJob[h] IN
    At(h, "ready") /\ j.call # 0 /\ ~j.async =>
      /\ j.outcome = "ok" => j.moved = 0 .. j.len - 1
      /\ j.outcome = "ok" => spiResidue[h].short = {} \/ spiResidue[h].mixed
      /\ spiEngine[h].call = j.call => spiEngine[h].tx = <<>> /\ spiEngine[h].rx = <<>>

(* What spi-bus says of every transfer: "No length is ever silently cut    *)
(* short" (lib.rs:9).  Not an invariant: a FIFO transaction that was given *)
(* up shifts on under the next one, which reads its data back early; and   *)
(* exchange sends a small buffer that DMA cannot reach through the FIFO,   *)
(* after which the DMA receive of the next call lands short, as the        *)
(* driver's own comment has it (esp32/spi/src/lib.rs:578-583).             *)
NeverCutShort ==
  \A h \in Hosts :
    At(h, "ready") /\ ~spiJob[h].async /\ spiJob[h].outcome = "ok" => spiResidue[h].short = {}

(* soc dma.rs: two drivers on one channel "write each other's descriptors".*)
(* No two hosts are wired to one channel, and the owner table says so.     *)
ChannelsApart ==
  /\ \A h, k \in Hosts : selector[h] = selector[k] /\ selector[h] # 0 => h = k
  /\ \A h \in Hosts : selector[h] # 0 => chanOwner[selector[h]] = h

SpiMoved == PolledMoved /\ ChannelsApart

(* exchange_async: await_done "blocks the task until the completion        *)
(* interrupt reports it done".  Not so: the first of the three flags       *)
(* completes the call, and a later one completes the next call early.      *)
AsyncMoved ==
  \A h \in Hosts :
    LET j == spiJob[h] IN
    At(h, "ready") /\ j.async /\ j.outcome = "ok" => j.moved = 0 .. j.len - 1

(* build_chain: "descs must not be in use by a running transfer".          *)
ChainAlone ==
  \A h \in Hosts :
    spiJob[h].pc \in {"begin", "reset"} =>
      \/ spiEngine[h].tx = <<>> /\ spiEngine[h].rx = <<>>
      \/ spiEngine[h].bank # spiJob[h].bank
=============================================================================
