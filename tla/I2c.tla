-------------------------------- MODULE I2c --------------------------------
(***************************************************************************)
(* An I2C controller under the I2C bus (drivers/bus/i2c-bus): the ESP32's, *)
(* which runs a list of commands (drivers/physical/esp32/i2c), and the     *)
(* RP2040's, which is fed one command at a time, as a master or as a slave *)
(* (drivers/physical/rp2040/i2c).                                          *)
(*                                                                         *)
(* The bus holds its mutex for a whole list of ops, so a controller has    *)
(* one caller.  A byte is the call it belongs to, its direction and its    *)
(* place; a device answers or does not, byte by byte.  The two buses of    *)
(* drivers/bus, this and EspSpi's, share nothing.                          *)
(***************************************************************************)
EXTENDS EspSpi

CONSTANTS
  EspCtrls, PicoCtrls, PicoSlaves,   \* controllers, by driver and role
  I2C_MAX_BYTES,   \* command slots of the ESP32 less the overhead
  MAX_PAYLOAD,     \* of the bus
  OpLists,         \* the transfers: sequences of [w, r, bits]
  TX_DEPTH,        \* of the RP2040's FIFO
  SERVE_LEN,       \* bytes of serve_once's buffer
  MAX_I2C_CALLS    \* bound: calls, and transactions of a foreign master

ASSUME I2cAssumption ==
  /\ {I2C_MAX_BYTES, MAX_PAYLOAD, SERVE_LEN, MAX_I2C_CALLS} \subseteq Nat
  /\ TX_DEPTH \in Nat \ {0}
  /\ \A list \in OpLists : list \in Seq([w : Nat, r : Nat, bits : Nat])
  /\ EspCtrls \cap PicoCtrls = {} /\ (EspCtrls \cup PicoCtrls) \cap PicoSlaves = {}

VARIABLES
  i2cEng,    \* per controller: command list, FIFOs, flags, whether it runs
  i2cJob,    \* per controller: the call in progress and how the last one ended
  i2cCalls   \* per controller: calls begun

i2cVars == <<i2cEng, i2cJob, i2cCalls>>

Ctrls == EspCtrls \cup PicoCtrls \cup PicoSlaves
I2cErrors == {"ack", "time", "arb"}            \* ACK_ERR, TIME_OUT, ARB_LOST
I2cFlags == I2cErrors \cup {"complete", "abort", "stop", "rdreq"}

WireByte(call, dir, i) == <<call, dir, i>>
Writes(call, n) == [i \in 1 .. n |-> WireByte(call, "w", i)]
Reads(call, n) == [i \in 1 .. n |-> WireByte(call, "r", i)]

Quiet == [run |-> FALSE, cmds |-> <<>>, tx |-> <<>>, rx |-> <<>>, flags |-> {}]
IdleI2c == [pc |-> "idle", call |-> 0, ops |-> <<>>, steps |-> <<>>, pushed |-> 0,
            want |-> <<>>, sent |-> <<>>, acked |-> <<>>, got |-> <<>>, raw |-> {}, outcome |-> "none"]

TypeI2c ==
  /\ DOMAIN i2cEng = Ctrls /\ DOMAIN i2cJob = Ctrls
  /\ \A c \in Ctrls :
       /\ i2cEng[c].run \in BOOLEAN /\ i2cEng[c].flags \subseteq I2cFlags
       /\ Len(i2cEng[c].tx) <= TX_DEPTH \/ c \in EspCtrls
       /\ i2cJob[c].pc \in {"idle", "op", "wait", "read", "begin", "check", "look", "serve", "drain"}
       /\ i2cJob[c].outcome \in {"none", "ok", "invalid", "no device", "timeout", "busy"}
  /\ i2cCalls \in [Ctrls -> 0 .. MAX_I2C_CALLS]

I2cInit ==
  /\ i2cEng = [c \in Ctrls |-> Quiet]
  /\ i2cJob = [c \in Ctrls |-> IdleI2c]
  /\ i2cCalls = [c \in Ctrls |-> 0]

I2cAt(c, l) == i2cJob[c].pc = l
I2cEnds(c, how) ==
  i2cJob' = [i2cJob EXCEPT ![c].pc = "idle", ![c].outcome = how, ![c].ops = <<>>,
                              ![c].steps = <<>>, ![c].pushed = 0]
(* The op is over: on to the next one. *)
OpDone(c, j) ==
  i2cJob' = [i2cJob EXCEPT ![c] = [j EXCEPT !.pc = "op", !.ops = Tail(@), !.steps = <<>>, !.pushed = 0]]

----------------------------------------------------------------------------
(* I2cDevice::transfer, and scan's probe: a list of one empty write.       *)
I2cTransfer(c, list) ==
  /\ I2cAt(c, "idle") /\ i2cCalls[c] < MAX_I2C_CALLS
  /\ i2cCalls' = [i2cCalls EXCEPT ![c] = @ + 1]
  /\ i2cJob' = [i2cJob EXCEPT ![c] = [IdleI2c EXCEPT !.pc = "op", !.call = i2cCalls[c] + 1, !.ops = list]]
  /\ UNCHANGED i2cEng

OpOf(c) == Head(i2cJob[c].ops)
Framed(c) == OpOf(c).bits = 8 /\ OpOf(c).w <= MAX_PAYLOAD

OpsOver(c) ==
  /\ I2cAt(c, "op") /\ i2cJob[c].ops = <<>>
  /\ I2cEnds(c, "ok")
  /\ UNCHANGED <<i2cEng, i2cCalls>>

OpRefused(c) ==
  /\ I2cAt(c, "op") /\ i2cJob[c].ops # <<>> /\ ~Framed(c)
  /\ I2cEnds(c, "invalid")
  /\ UNCHANGED <<i2cEng, i2cCalls>>

----------------------------------------------------------------------------
(* ESP32: the parts of an exchange.  A list of commands starts with the    *)
(* address and ends with STOP; the bytes to send go to the FIFO.           *)
EspParts(o) ==
  IF o.r = 0 THEN <<"w">> ELSE IF o.w = 0 THEN <<"r">> ELSE <<"w", "r">>
CommandList(dir, n) == <<"address">> \o [i \in 1 .. n |-> dir] \o <<"stop">>

EspExchange(c) ==
  /\ I2cAt(c, "op") /\ i2cJob[c].ops # <<>> /\ Framed(c)
  /\ i2cJob' = [i2cJob EXCEPT ![c].pc = "begin", ![c].steps = EspParts(OpOf(c)),
                              ![c].acked = <<>>, ![c].got = <<>>]
  /\ UNCHANGED <<i2cEng, i2cCalls>>

(* write and read, up to start_transfer; too long is refused here, for a   *)
(* read after its write.                                                   *)
EspStart(c) ==
  LET j == i2cJob[c]
      dir == Head(j.steps)
      n == IF dir = "w" THEN OpOf(c).w ELSE OpOf(c).r
  IN  /\ I2cAt(c, "begin")
      /\ \/ n > I2C_MAX_BYTES /\ I2cEnds(c, "invalid") /\ UNCHANGED i2cEng
         \/ /\ n <= I2C_MAX_BYTES
            /\ i2cEng' = [i2cEng EXCEPT ![c] =
                 [Quiet EXCEPT !.run = TRUE, !.cmds = CommandList(dir, n),
                               !.tx = IF dir = "w" THEN Writes(j.call, n) ELSE <<>>]]
            /\ i2cJob' = [i2cJob EXCEPT ![c].pc = "wait"]
      /\ UNCHANGED i2cCalls

(* Mutant: the controller is reprogrammed but not reset.                   *)
RecoverRunning(e) == [e EXCEPT !.tx = <<>>, !.rx = <<>>, !.flags = {}]

(* recover: commands blanked, the controller reset and programmed again.   *)
Recovered(e) == Quiet

(* wait_done: one read of the flags, errors before completion.             *)
EspWait(c) ==
  LET e == i2cEng[c]
      failed == IF "ack" \in e.flags THEN "no device"
                ELSE IF "time" \in e.flags THEN "timeout" ELSE "busy"
  IN  /\ I2cAt(c, "wait")
      /\ \/ /\ e.flags \cap I2cErrors # {}
            /\ i2cEng' = [i2cEng EXCEPT ![c] = Recovered(@)]
            /\ I2cEnds(c, failed)
         \/ /\ e.flags \cap I2cErrors = {} /\ "complete" \in e.flags
            /\ i2cEng' = [i2cEng EXCEPT ![c].flags = {}]
            /\ i2cJob' = [i2cJob EXCEPT ![c].pc = "read"]
         \/ /\ e.flags = {}          \* the deadline
            /\ i2cEng' = [i2cEng EXCEPT ![c] = Recovered(@)]
            /\ I2cEnds(c, "timeout")
      /\ UNCHANGED i2cCalls

(* A read drains the FIFO into the buffer; then the second part, or the    *)
(* next op.                                                                *)
EspDrain(c) ==
  LET j == i2cJob[c]
      taken == IF Head(j.steps) = "r" THEN i2cEng[c].rx ELSE <<>>
      k == [j EXCEPT !.got = @ \o taken, !.want = Reads(j.call, OpOf(c).r),
                     !.sent = Writes(j.call, OpOf(c).w)]
  IN  /\ I2cAt(c, "read")
      /\ i2cEng' = [i2cEng EXCEPT ![c].rx = IF taken = <<>> THEN @ ELSE <<>>]
      /\ IF Len(j.steps) = 2
         THEN i2cJob' = [i2cJob EXCEPT ![c] = [k EXCEPT !.pc = "begin", !.steps = Tail(@)]]
         ELSE OpDone(c, k)
      /\ UNCHANGED i2cCalls

(* The hardware runs its list.  A byte not acknowledged is ACK_ERR and     *)
(* goes to STOP, which still raises TRANS_COMPLETE.                        *)
EspShift(c) ==
  LET e == i2cEng[c]
      cmd == Head(e.cmds)
      on == [e EXCEPT !.cmds = Tail(@)]
      nak == [e EXCEPT !.cmds = <<"stop">>, !.flags = @ \cup {"ack"}]
      Steps(f, j) == i2cEng' = [i2cEng EXCEPT ![c] = f] /\ i2cJob' = [i2cJob EXCEPT ![c] = j]
  IN  /\ e.run /\ e.cmds # <<>>
      /\ \/ cmd = "stop" /\ Steps([on EXCEPT !.run = FALSE, !.flags = @ \cup {"complete"}], i2cJob[c])
         \/ cmd = "address" /\ \E f \in {on, nak} : Steps(f, i2cJob[c])
         \/ /\ cmd = "w" /\ e.tx # <<>>
            /\ \/ Steps([on EXCEPT !.tx = Tail(@)], [i2cJob[c] EXCEPT !.acked = Append(@, Head(e.tx))])
               \/ Steps([nak EXCEPT !.tx = Tail(@)], i2cJob[c])
         \/ /\ cmd = "r"
            /\ Steps([on EXCEPT !.rx = Append(@, WireByte(i2cJob[c].call, "r", Len(e.rx) + 1))], i2cJob[c])
         \/ \E f \in {"time", "arb"} : Steps([e EXCEPT !.run = FALSE, !.flags = @ \cup {f}], i2cJob[c])
      /\ UNCHANGED i2cCalls

----------------------------------------------------------------------------
(* RP2040: transact as the waits it makes, in order: room in the FIFO      *)
(* before every command, each byte read before the next is asked for, and  *)
(* STOP_DET at the end.                                                    *)
Wire(j) == j.sent \o j.want
Awaits(j) ==
  IF j.pushed > Len(j.sent) + Len(j.got) THEN "byte"
  ELSE IF j.pushed < Len(j.sent) + Len(j.want) THEN "room" ELSE "stop"

(* The range of addresses is the caller's; an exchange of nothing, such as *)
(* scan's probe, is refused.  Disabling the controller flushes the FIFOs.  *)
PicoTransact(c) ==
  LET o == OpOf(c)
  IN  /\ I2cAt(c, "op") /\ i2cJob[c].ops # <<>> /\ Framed(c)
      /\ \/ o.w = 0 /\ o.r = 0 /\ I2cEnds(c, "invalid") /\ UNCHANGED i2cEng
         \/ /\ o.w + o.r > 0
            /\ i2cEng' = [i2cEng EXCEPT ![c] = [Quiet EXCEPT !.run = TRUE]]
            /\ i2cJob' = [i2cJob EXCEPT ![c].pc = "check", ![c].acked = <<>>, ![c].got = <<>>,
                 ![c].sent = Writes(i2cJob[c].call, o.w), ![c].want = Reads(i2cJob[c].call, o.r)]
      /\ UNCHANGED i2cCalls

(* check_abort, and the next look at the status; or TIMEOUT_US is over.    *)
PicoCheck(c) ==
  /\ I2cAt(c, "check")
  /\ \/ /\ "abort" \in i2cEng[c].flags
        /\ i2cEng' = [i2cEng EXCEPT ![c] = Recovered(@)]
        /\ \E how \in {"no device", "busy"} : I2cEnds(c, how)
     \/ /\ "abort" \notin i2cEng[c].flags
        /\ i2cJob' = [i2cJob EXCEPT ![c].pc = "look"]
        /\ UNCHANGED i2cEng
  /\ UNCHANGED i2cCalls

PicoTimeout(c) ==
  /\ I2cAt(c, "look")
  /\ i2cEng' = [i2cEng EXCEPT ![c] = Recovered(@)]
  /\ I2cEnds(c, "timeout")
  /\ UNCHANGED i2cCalls

PicoLook(c) ==
  LET e == i2cEng[c]
      j == i2cJob[c]
      k == [j EXCEPT !.pc = "check"]
      room == Len(e.tx) < TX_DEPTH
  IN  /\ I2cAt(c, "look")
      /\ \/ /\ Awaits(j) = "room" /\ room      \* an abort holds the FIFO empty until it is cleared
            /\ i2cEng' = [i2cEng EXCEPT ![c].tx = IF "abort" \in e.flags THEN <<>>
                                                 ELSE Append(@, Wire(j)[j.pushed + 1])]
            /\ i2cJob' = [i2cJob EXCEPT ![c] = [k EXCEPT !.pushed = @ + 1]]
         \/ /\ Awaits(j) = "byte" /\ e.rx # <<>>
            /\ i2cEng' = [i2cEng EXCEPT ![c].rx = Tail(@)]
            /\ i2cJob' = [i2cJob EXCEPT ![c] = [k EXCEPT !.got = Append(@, Head(e.rx))]]
         \/ /\ Awaits(j) = "stop" /\ "stop" \in e.flags
            /\ i2cEng' = [i2cEng EXCEPT ![c].flags = @ \ {"stop"}]
            /\ OpDone(c, j)
         \/ /\ \/ Awaits(j) = "room" /\ ~room
               \/ Awaits(j) = "byte" /\ e.rx = <<>>
               \/ Awaits(j) = "stop" /\ "stop" \notin e.flags
            /\ i2cJob' = [i2cJob EXCEPT ![c] = k]
            /\ UNCHANGED i2cEng
      /\ UNCHANGED i2cCalls

(* The hardware: a byte out, a byte in, or an abort, which flushes the     *)
(* FIFO; STOP after the last command, and after an abort.                  *)
PicoShift(c) ==
  LET e == i2cEng[c]
      b == Head(e.tx)
      all == Wire(i2cJob[c])
      last == b = all[Len(all)]
      f == [e EXCEPT !.tx = Tail(@), !.run = ~last, !.flags = IF last THEN @ \cup {"stop"} ELSE @]
  IN  /\ \/ /\ e.run /\ e.tx # <<>>
            /\ \/ /\ b[2] = "w"
                  /\ i2cEng' = [i2cEng EXCEPT ![c] = f]
                  /\ i2cJob' = [i2cJob EXCEPT ![c].acked = Append(@, b)]
               \/ /\ b[2] = "r"
                  /\ i2cEng' = [i2cEng EXCEPT ![c] = [f EXCEPT !.rx = Append(@, b)]]
                  /\ UNCHANGED i2cJob
               \/ /\ i2cEng' = [i2cEng EXCEPT ![c] = [e EXCEPT !.tx = <<>>, !.flags = @ \cup {"abort"}]]
                  /\ UNCHANGED i2cJob
         \/ /\ e.run /\ "abort" \in e.flags
            /\ i2cEng' = [i2cEng EXCEPT ![c].run = FALSE, ![c].flags = @ \cup {"stop"}]
            /\ UNCHANGED i2cJob
      /\ UNCHANGED i2cCalls

----------------------------------------------------------------------------
(* serve_once: the flags are read, the FIFO drained, the flags acted upon. *)
ServeOnce(c) ==
  /\ I2cAt(c, "idle")
  /\ i2cJob' = [i2cJob EXCEPT ![c] = [IdleI2c EXCEPT !.pc = "serve"]]
  /\ UNCHANGED <<i2cEng, i2cCalls>>

ServeRaw(c) ==
  /\ I2cAt(c, "serve")
  /\ i2cJob' = [i2cJob EXCEPT ![c].pc = "drain", ![c].raw = i2cEng[c].flags]
  /\ UNCHANGED <<i2cEng, i2cCalls>>

(* A read request is answered (which byte of the response is left out).    *)
ServeAct(c) ==
  LET e == i2cEng[c]
      j == i2cJob[c]
      got == j.got \o e.rx
  IN  /\ I2cAt(c, "drain")
      /\ i2cEng' = [i2cEng EXCEPT ![c] = [e EXCEPT !.rx = <<>>, !.flags = @ \ (j.raw \cap {"stop", "rdreq"})]]
      /\ i2cJob' = [i2cJob EXCEPT ![c] = [j EXCEPT !.got = got, !.raw = {},
           !.pc = IF "stop" \in j.raw THEN "idle" ELSE "serve",
           !.outcome = IF "stop" \notin j.raw THEN @
                       ELSE IF Len(got) > SERVE_LEN THEN "invalid" ELSE "ok"]]
      /\ UNCHANGED i2cCalls

ServeTimeout(c) ==
  /\ I2cAt(c, "drain") /\ "stop" \notin i2cJob[c].raw
  /\ i2cEng' = [i2cEng EXCEPT ![c] = Quiet]
  /\ I2cEnds(c, "timeout")
  /\ UNCHANGED i2cCalls

(* A foreign master: a transaction of written bytes and read requests.     *)
MasterSends(c) ==
  LET e == i2cEng[c]
  IN  /\ \/ /\ ~e.run /\ i2cCalls[c] < MAX_I2C_CALLS
            /\ i2cEng' = [i2cEng EXCEPT ![c].run = TRUE, ![c].cmds = <<>>]
            /\ i2cCalls' = [i2cCalls EXCEPT ![c] = @ + 1]
         \/ /\ e.run /\ Len(e.cmds) < SERVE_LEN + 1
            /\ LET b == WireByte(i2cCalls[c], "w", Len(e.cmds) + 1)
               IN  i2cEng' = [i2cEng EXCEPT ![c].rx = Append(@, b), ![c].cmds = Append(@, b)]
            /\ UNCHANGED i2cCalls
         \/ /\ e.run /\ "rdreq" \notin e.flags
            /\ i2cEng' = [i2cEng EXCEPT ![c].flags = @ \cup {"rdreq"}]
            /\ UNCHANGED i2cCalls
         \/ /\ e.run /\ "rdreq" \notin e.flags      \* the clock is held until the answer
            /\ i2cEng' = [i2cEng EXCEPT ![c].run = FALSE, ![c].cmds = <<>>, ![c].flags = @ \cup {"stop"}]
            /\ UNCHANGED i2cCalls
      /\ UNCHANGED i2cJob

(* The controllers share nothing.                                          *)
I2cUsing(c) ==
  \/ /\ c \in EspCtrls \cup PicoCtrls
     /\ (\E list \in OpLists : I2cTransfer(c, list)) \/ OpsOver(c) \/ OpRefused(c)
  \/ /\ c \in EspCtrls
     /\ EspExchange(c) \/ EspStart(c) \/ EspWait(c) \/ EspDrain(c) \/ EspShift(c)
  \/ /\ c \in PicoCtrls
     /\ PicoTransact(c) \/ PicoCheck(c) \/ PicoTimeout(c) \/ PicoLook(c) \/ PicoShift(c)
  \/ /\ c \in PicoSlaves
     /\ ServeOnce(c) \/ ServeRaw(c) \/ ServeAct(c) \/ ServeTimeout(c) \/ MasterSends(c)

I2cNext == \E c \in Ctrls : I2cUsing(c)
I2cSpec == I2cInit /\ [][I2cNext]_i2cVars

----------------------------------------------------------------------------
(* A transfer that returns Ok has, in its last op, moved that op's bytes   *)
(* and no others: those written were acknowledged (for the RP2040, when    *)
(* the op also reads), those read are the device's answer in order.        *)
(* wait_done: "the next caller must not inherit a wedged state machine":   *)
(* whatever the outcome, the controller is still when the call is over.    *)
I2cMoved ==
  \A c \in EspCtrls \cup PicoCtrls :
    LET j == i2cJob[c] IN
    I2cAt(c, "idle") =>
      /\ ~i2cEng[c].run
      /\ j.outcome = "ok" =>
           /\ j.got = j.want
           /\ c \in EspCtrls \/ j.want # <<>> => j.acked = j.sent

(* serve_once reports the bytes of the wire in order, none twice.          *)
ServedInOrder ==
  \A c \in PicoSlaves :
    LET g == i2cJob[c].got \o i2cEng[c].rx IN
    \A i \in 1 .. Len(g) - 1 :
      \/ g[i + 1] = WireByte(g[i][1], "w", g[i][3] + 1)
      \/ g[i + 1][1] > g[i][1] /\ g[i + 1][3] = 1

I2cRight == I2cMoved /\ ServedInOrder

(* A transfer on either bus that reported success moved exactly the bytes  *)
(* it was asked to, and one that failed left the controller usable.        *)
BusRight == SpiMoved /\ I2cRight
BusSpec == SpiSpec /\ I2cSpec

(* BusError::DeviceNotResponding, and the loop's check_abort before every  *)
(* STOP_DET: a write that returns Ok was acknowledged.  Not so on the      *)
(* RP2040: check_abort and the test of STOP_DET are two reads, and the     *)
(* abort of the last byte and its STOP may fall between them.              *)
WritesAcked ==
  \A c \in EspCtrls \cup PicoCtrls :
    I2cAt(c, "idle") /\ i2cJob[c].outcome = "ok" => i2cJob[c].acked = i2cJob[c].sent

(* serve_once serves "one" transaction.  Not so: bytes of the next one     *)
(* that arrive between the read of the flags and the drain are added.      *)
ServedOne ==
  \A c \in PicoSlaves :
    I2cAt(c, "idle") /\ i2cJob[c].outcome = "ok" =>
      \A i, k \in DOMAIN i2cJob[c].got : i2cJob[c].got[i][1] = i2cJob[c].got[k][1]
=============================================================================
