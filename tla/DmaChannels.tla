---------------------------- MODULE DmaChannels ----------------------------
(***************************************************************************)
(* The RP2040's DMA channels (soc/rp2040/src/dma.rs) and the UART exchange *)
(* that uses two of them (drivers/physical/rp2040/uart/src/dma.rs).        *)
(*                                                                         *)
(* Two owners compete for channels: the task in exchange_dma and           *)
(* await_done, and a peer on the other core that claims and releases one.  *)
(* Each is a list of register accesses and lock sections still to    *)
(* do; the handler of DMA_IRQ_0 runs on the core of one of them and keeps  *)
(* that one from moving.  A transfer is one word long.  The generation of  *)
(* a channel is represented by its claimer: a Channel cannot be copied.    *)
(***************************************************************************)
EXTENDS Naturals, Sequences, FiniteSets, FiniteSetsExt

CONSTANTS
  CHANNELS,         \* channels of the engine
  MAX_EXCHANGES,    \* bound: exchanges ever begun
  MAX_TAKEN,        \* channels another driver may hold throughout
  MAX_PEER_USES,    \* bound: channels the peer ever claims
  HandlerCores,     \* where the handler may have been connected: "task", "peer"
  NoExchange

ASSUME ChannelsAssumption ==
  /\ CHANNELS \in Nat \ {0}
  /\ MAX_EXCHANGES \in Nat
  /\ MAX_PEER_USES \in Nat
  /\ MAX_TAKEN \in 0 .. CHANNELS
  /\ HandlerCores \subseteq {"task", "peer"}
  /\ NoExchange \notin Nat

VARIABLES
  chan,        \* per channel: its owner, COMPLETION, and the engine's side
  inte0,       \* INTE0: the channels whose completion interrupts
  intr,        \* INTR: the channels that have one to report
  dmacr,       \* the UART's DMACR asks the engine for data
  todo,        \* what each owner has still to do
  inteSeen,    \* INTE0 as each owner last read it
  peerUses,    \* channels the peer has claimed so far
  held,        \* the channels each owner holds, in the order it claimed them
  exchange,    \* the UART exchange: where it is, its broker id, its outcome
  top,         \* the handler: where it is, and the channel it found pending
  handlerOn,   \* the core the handler was connected on
  signalled,   \* ids the handler has passed to signal_complete
  received     \* history: this exchange's receive channel moved everything

chanVars == <<chan, inte0, intr, dmacr, todo, inteSeen, peerUses, held, exchange, top, handlerOn,
              signalled, received>>

(* What the driver's own steps leave alone.                                *)
elsewhere == <<top, peerUses, handlerOn, signalled>>
registers == <<inte0, intr, dmacr, inteSeen>>

ChannelNos == 0 .. CHANNELS - 1
Owners == {"task", "peer"}
Exchanges == 1 .. MAX_EXCHANGES

(* The engine's side of a channel: running, halted by a bus error, enabled *)
(* in CTRL, and past the end of the memory it was configured for.          *)
Idle == [owner |-> "free", token |-> NoExchange, busy |-> FALSE, err |-> FALSE,
         enabled |-> FALSE, past |-> FALSE]

Ops == [op : {"read", "off", "on", "abort", "clear", "configure", "publish", "dmacr", "stop",
              "start", "free"}, ch : ChannelNos]

TypeChannels ==
  /\ chan \in [ChannelNos -> [owner : Owners \cup {"free"}, token : Exchanges \cup {NoExchange},
                              busy : BOOLEAN, err : BOOLEAN, enabled : BOOLEAN, past : BOOLEAN]]
  /\ inte0 \subseteq ChannelNos
  /\ intr \subseteq ChannelNos
  /\ dmacr \in BOOLEAN
  /\ todo \in [Owners -> Seq(Ops)]
  /\ inteSeen \in [Owners -> SUBSET ChannelNos]
  /\ peerUses \in 0 .. MAX_PEER_USES
  /\ held \in [Owners -> Seq(ChannelNos)]
  /\ exchange \in [pc : {"idle", "claim_tx", "setup", "await", "drop"},
                   id : 0 .. MAX_EXCHANGES, outcome : {"none", "ok", "timeout", "error"}]
  /\ top \in [at : {"idle", "ack", "take"}, ch : ChannelNos]
  /\ handlerOn \in HandlerCores
  /\ signalled \subseteq Exchanges
  /\ received \in BOOLEAN

ChannelsInit ==
  /\ \E n \in 0 .. MAX_TAKEN :
       chan = [c \in ChannelNos |-> IF c < n THEN [Idle EXCEPT !.owner = "peer"] ELSE Idle]
  /\ inte0 = {} /\ intr = {} /\ dmacr = FALSE
  /\ todo = [p \in Owners |-> <<>>]
  /\ inteSeen = [p \in Owners |-> {}]
  /\ peerUses = 0
  /\ held = [p \in Owners |-> <<>>]
  /\ exchange = [pc |-> "idle", id |-> 0, outcome |-> "none"]
  /\ top = [at |-> "idle", ch |-> 0]
  /\ handlerOn \in HandlerCores
  /\ signalled = {} /\ received = FALSE

----------------------------------------------------------------------------
(* The accesses of each routine, in order.                                 *)
Do(op, c) == [op |-> op, ch |-> c]

(* Mutant: E13's late completion is left for the next owner.               *)
CleanupLeavesLate(c) == <<Do("read", c), Do("off", c), Do("abort", c)>>

(* cleanup: interrupt off first, abort, then clear what came late.         *)
Cleanup(c) == <<Do("read", c), Do("off", c), Do("abort", c), Do("clear", c)>>

(* Channel::release, by hand or by drop.                                   *)
ReleaseChannel(c) == Cleanup(c) \o <<Do("free", c)>>

(* The rest of exchange_dma once both channels are there.                  *)
Setup(rx, tx) == <<Do("configure", rx), Do("configure", tx), Do("read", rx), Do("on", rx),
                   Do("publish", rx), Do("dmacr", rx), Do("start", rx)>>

(* Transfer::stop, and the drop of its fields, tx before rx.               *)
StopUart(rx, tx) == <<Do("stop", rx)>> \o Cleanup(rx) \o Cleanup(tx)
DropTransfer(rx, tx) == StopUart(rx, tx) \o ReleaseChannel(tx) \o ReleaseChannel(rx)

----------------------------------------------------------------------------
(* An owner whose core is in the handler does not move.                    *)
MayMove(p) == top.at # "idle" => handlerOn # p

(* What one access does.  The registers of the engine are written without  *)
(* the lock: INTE0 is read, and written back later.  Writing CTRL_TRIG     *)
(* with the enable bit triggers the channel, and so does start_mask when   *)
(* it is enabled and no longer busy: it then goes on behind its memory.    *)
ReadInte(p) ==
  /\ inteSeen' = [inteSeen EXCEPT ![p] = inte0]
  /\ UNCHANGED <<chan, inte0, intr, dmacr>>

WriteInte(o, p) ==
  /\ inte0' = IF o.op = "on" THEN inteSeen[p] \cup {o.ch} ELSE inteSeen[p] \ {o.ch}
  /\ inteSeen' = [inteSeen EXCEPT ![p] = {}]
  /\ UNCHANGED <<chan, intr, dmacr>>

(* CHAN_ABORT; a transfer that was running may still report (E13).         *)
Abort(o) ==
  /\ chan' = [chan EXCEPT ![o.ch].busy = FALSE, ![o.ch].past = FALSE]
  /\ \/ intr' = intr
     \/ chan[o.ch].busy /\ intr' = intr \cup {o.ch}
  /\ UNCHANGED <<inte0, dmacr, inteSeen>>

Clear(o) ==
  /\ intr' = intr \ {o.ch}
  /\ chan' = [chan EXCEPT ![o.ch].enabled = FALSE]
  /\ UNCHANGED <<inte0, dmacr, inteSeen>>

Configure(o) ==
  /\ chan' = [chan EXCEPT ![o.ch] =
                [@ EXCEPT !.busy = TRUE, !.err = FALSE, !.enabled = TRUE, !.past = FALSE]]
  /\ UNCHANGED <<registers>>

SetDmacr(o) ==
  /\ dmacr' = (o.op = "dmacr")
  /\ UNCHANGED <<chan, inte0, intr, inteSeen>>

StartMask(p) ==
  /\ chan' = [c \in ChannelNos |->
                IF chan[c].owner = p /\ chan[c].enabled /\ ~chan[c].busy /\ ~chan[c].err
                  THEN [chan[c] EXCEPT !.busy = TRUE, !.past = TRUE] ELSE chan[c]]
  /\ UNCHANGED <<registers>>

(* state_release: the token and the claim; the engine's side is as cleanup *)
(* left it.                                                                *)
Free(o) ==
  /\ chan' = [chan EXCEPT ![o.ch].owner = "free", ![o.ch].token = NoExchange]
  /\ UNCHANGED <<registers>>

(* owned = false: what an owner keeps of its one or two channels.          *)
Without(s, c) == IF Head(s) = c THEN Tail(s) ELSE <<Head(s)>>

Access(p) ==
  LET o == Head(todo[p]) IN
  /\ MayMove(p)
  /\ todo[p] # <<>>
  /\ o.op # "publish"
  /\ todo' = [todo EXCEPT ![p] = Tail(@)]
  /\ \/ o.op = "read" /\ ReadInte(p)
     \/ o.op \in {"on", "off"} /\ WriteInte(o, p)
     \/ o.op = "abort" /\ Abort(o)
     \/ o.op = "clear" /\ Clear(o)
     \/ o.op = "configure" /\ Configure(o)
     \/ o.op \in {"dmacr", "stop"} /\ SetDmacr(o)
     \/ o.op = "start" /\ StartMask(p)
     \/ o.op = "free" /\ Free(o)
  /\ held' = IF o.op = "free" THEN [held EXCEPT ![p] = Without(@, o.ch)] ELSE held
  /\ UNCHANGED <<exchange, elsewhere, received>>

(* state_publish: the channel is the caller's and has no token yet.        *)
MayPublish(p, c) == chan[c].owner = p /\ chan[c].token = NoExchange

(* begin_pair mints the id, or refuses buffers of another task, and the    *)
(* channels are dropped again; publish_completion stores it.               *)
PublishToken ==
  LET rx == held["task"][1]  tx == held["task"][2] IN
  /\ MayMove("task")
  /\ todo["task"] # <<>> /\ Head(todo["task"]).op = "publish"
  /\ \/ /\ MayPublish("task", rx)
        /\ exchange' = [exchange EXCEPT !.id = @ + 1]
        /\ chan' = [chan EXCEPT ![rx].token = exchange.id + 1]
        /\ todo' = [todo EXCEPT !["task"] = Tail(@)]
        /\ received' = FALSE
     \/ /\ exchange' = [exchange EXCEPT !.pc = "drop", !.outcome = "error"]
        /\ todo' = [todo EXCEPT !["task"] = ReleaseChannel(tx) \o ReleaseChannel(rx)]
        /\ UNCHANGED <<chan, received>>
  /\ UNCHANGED <<registers, held, elsewhere>>

----------------------------------------------------------------------------
(* claim: state_claim of the first free channel, then cleanup.             *)
FreeChannels == {c \in ChannelNos : chan[c].owner = "free"}

ClaimChannel(p, c) ==
  /\ FreeChannels # {} /\ c = Min(FreeChannels)
  /\ chan' = [chan EXCEPT ![c].owner = p, ![c].token = NoExchange]
  /\ held' = [held EXCEPT ![p] = Append(@, c)]

Ready(p) == MayMove(p) /\ todo[p] = <<>>

UartClaim ==
  /\ Ready("task")
  /\ exchange.pc \in {"idle", "claim_tx"}
  /\ exchange.id < MAX_EXCHANGES
  /\ \E c \in ChannelNos :
       /\ ClaimChannel("task", c)
       /\ todo' = [todo EXCEPT !["task"] = Cleanup(c)]
  /\ exchange' = [exchange EXCEPT !.pc = IF @ = "idle" THEN "claim_tx" ELSE "setup",
                                  !.outcome = "none"]
  /\ UNCHANGED <<registers, elsewhere, received>>

(* NoChannelFree: what was claimed is dropped.                             *)
UartClaimFails ==
  /\ Ready("task")
  /\ exchange.pc \in {"idle", "claim_tx"}
  /\ exchange.id < MAX_EXCHANGES
  /\ FreeChannels = {}
  /\ todo' = [todo EXCEPT !["task"] =
                IF held["task"] = <<>> THEN <<>> ELSE ReleaseChannel(held["task"][1])]
  /\ exchange' = [exchange EXCEPT !.pc = "drop", !.outcome = "error"]
  /\ UNCHANGED <<chan, registers, held, elsewhere, received>>

UartSetup ==
  /\ Ready("task")
  /\ exchange.pc = "setup"
  /\ todo' = [todo EXCEPT !["task"] = Setup(held["task"][1], held["task"][2])]
  /\ exchange' = [exchange EXCEPT !.pc = "await"]
  /\ UNCHANGED <<chan, registers, held, elsewhere, received>>

(* await_done: the completion is there, and the error bits are read before *)
(* the transfer is stopped; or the broker times out and the transfer is    *)
(* dropped.                                                                *)
AwaitDone ==
  LET rx == held["task"][1]  tx == held["task"][2]  drop == DropTransfer(rx, tx) IN
  /\ Ready("task")
  /\ exchange.pc = "await"
  /\ \/ /\ exchange.id \in signalled
        /\ exchange' = [exchange EXCEPT !.pc = "drop",
                          !.outcome = IF chan[tx].err \/ chan[rx].err THEN "error" ELSE "ok"]
        /\ todo' = [todo EXCEPT !["task"] = StopUart(rx, tx) \o drop]
     \/ /\ exchange' = [exchange EXCEPT !.pc = "drop", !.outcome = "timeout"]
        /\ todo' = [todo EXCEPT !["task"] = drop]
  /\ UNCHANGED <<chan, registers, held, elsewhere, received>>

Return ==
  /\ Ready("task")
  /\ exchange.pc = "drop"
  /\ exchange' = [exchange EXCEPT !.pc = "idle"]
  /\ UNCHANGED <<chan, registers, todo, held, elsewhere, received>>

(* The peer: a channel claimed and released again, its interrupt never on. *)
PeerClaims ==
  /\ Ready("peer")
  /\ held["peer"] = <<>>
  /\ peerUses < MAX_PEER_USES
  /\ peerUses' = peerUses + 1
  /\ \E c \in ChannelNos :
       /\ ClaimChannel("peer", c)
       /\ todo' = [todo EXCEPT !["peer"] = Cleanup(c)]
  /\ UNCHANGED <<registers, exchange, top, handlerOn, signalled, received>>

PeerReleases ==
  /\ Ready("peer")
  /\ held["peer"] # <<>>
  /\ todo' = [todo EXCEPT !["peer"] = ReleaseChannel(held["peer"][1])]
  /\ UNCHANGED <<chan, registers, held, exchange, elsewhere, received>>

----------------------------------------------------------------------------
(* The engine moves the word of a channel, when its peripheral asks for    *)
(* it, or meets a bus error; either way the channel reports.               *)
Engine(c) ==
  /\ chan[c].busy
  /\ dmacr
  /\ intr' = intr \cup {c}
  /\ \E fault \in BOOLEAN :
       /\ chan' = [chan EXCEPT ![c].busy = FALSE, ![c].past = FALSE, ![c].err = fault]
       /\ received' = (received \/ (~fault /\ ~chan[c].past /\ c = held["task"][1]))
  /\ UNCHANGED <<inte0, dmacr, todo, inteSeen, held, exchange, elsewhere>>

(* The top half, take_irq0_completion: the lowest channel pending in       *)
(* INTS0, its acknowledgement, then the token under the lock.              *)
TopHalf ==
  /\ top.at = "idle"
  /\ inte0 \cap intr # {}
  /\ top' = [at |-> "ack", ch |-> Min(inte0 \cap intr)]
  /\ UNCHANGED <<chan, registers, todo, held, exchange, peerUses, handlerOn, signalled, received>>

TopHalfAcks ==
  /\ top.at = "ack"
  /\ intr' = intr \ {top.ch}
  /\ top' = [top EXCEPT !.at = "take"]
  /\ UNCHANGED <<chan, inte0, dmacr, inteSeen, todo, held, exchange, peerUses, handlerOn,
                 signalled, received>>

TopHalfTakes ==
  LET c == top.ch IN
  /\ top.at = "take"
  /\ chan' = [chan EXCEPT ![c].token = NoExchange]
  /\ signalled' = signalled \cup ({chan[c].token} \ {NoExchange})
  /\ top' = [at |-> "idle", ch |-> 0]
  /\ UNCHANGED <<registers, todo, held, exchange, peerUses, handlerOn, received>>

ChannelsNext ==
  \/ \E p \in Owners : Access(p)
  \/ PublishToken \/ UartClaim \/ UartClaimFails \/ UartSetup \/ AwaitDone \/ Return
  \/ PeerClaims \/ PeerReleases
  \/ \E c \in ChannelNos : Engine(c)
  \/ TopHalf \/ TopHalfAcks \/ TopHalfTakes

ChannelsSpec == ChannelsInit /\ [][ChannelsNext]_chanVars

----------------------------------------------------------------------------
(* "owns both hardware channels until it completes or is cancelled": when  *)
(* await_done has returned, whatever its outcome, the engine is off the    *)
(* buffers and no channel is left behind; and, where the handler runs on   *)
(* the task's core, Ok means that this exchange's receive channel had      *)
(* moved everything, not an earlier one's.                                 *)
TransferOver ==
  /\ exchange.pc = "idle" => \A c \in ChannelNos : chan[c].owner # "task"
  /\ \A c \in ChannelNos : chan[c].owner = "free" => ~chan[c].busy /\ chan[c].token = NoExchange
  /\ exchange.outcome = "ok" /\ handlerOn = "task" => received

(* The engine stays within the memory it was configured for.  Not an       *)
(* invariant of this code: see the README's list of disagreements.         *)
WithinBuffer == \A c \in ChannelNos : chan[c].busy => ~chan[c].past
=============================================================================
