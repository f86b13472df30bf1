------------------------------ MODULE UsbSerial ------------------------------
(***************************************************************************)
(* The USB serial device: drivers/bus/usb-device (the class driver: control*)
(* transfers and two byte rings) over drivers/physical/rp2040/usb (the     *)
(* controller's endpoint bookkeeping), with the host as the environment.   *)
(*                                                                         *)
(* service polls up to EVENT_BUDGET events and then arms the endpoints.    *)
(* The class driver's state is behind one CsCell, so a write or a read of  *)
(* the application waits for service to end; the host does not: it moves   *)
(* between any two polls.                                                  *)
(*                                                                         *)
(* Left out: the descriptors' contents, the interrupt endpoint 0x81 (no    *)
(* packet is ever written to it), statistics, and the erratum-5 work-round *)
(* and the abort timeout (a controller that fails stops answering).        *)
(***************************************************************************)
EXTENDS Integers, Sequences, FiniteSets

CONSTANTS RING, PACKET,    \* the code's 512 and 64
          EVENT_BUDGET,    \* the code's 16 events per service call
          Replies,         \* lengths of the replies a request can have
          Traffic,         \* of "in", "out" and "none": the stream of a behaviour
          MAX_SETUPS, MAX_BYTES, MAX_BUS   \* bounds on the host and the application

ASSUME UsbAssumption == {RING, PACKET, EVENT_BUDGET} \subseteq Nat \ {0} /\ PACKET <= RING

VARIABLES usb,     \* the class driver
          eps,     \* the controller's endpoints and their buffers
          irqs,    \* latched interrupts: [ints, setup, status]
          host,    \* the host's side; ahead is a history: see Unapplied
          owed,    \* ghost: bytes accepted and not yet handed over, per direction
          usbLeft  \* 1 + the events service may still poll; 0 outside service

usbVars == <<usb, eps, irqs, host, owed, usbLeft>>

Eps == <<"in0", "out0", "in2", "out2">>          \* in the order of BUFF_STATUS
EpNames == {"in0", "out0", "in2", "out2"}
Bytes(n) == [i \in 1 .. n |-> 0]
Smaller(a, b) == IF a < b THEN a ELSE b

Endpoint == [enabled |-> FALSE, busy |-> FALSE, ready |-> FALSE, pid |-> FALSE,
             deferred |-> FALSE, avail |-> FALSE, stall |-> FALSE, dpid |-> FALSE, data |-> <<>>]
ControlEp == [Endpoint EXCEPT !.enabled = TRUE, !.pid = TRUE]
BulkEp == [Endpoint EXCEPT !.enabled = TRUE]

NoReq == [kind |-> "none", n |-> 0, want |-> 0, ep |-> "in0"]
Requests ==
  {[NoReq EXCEPT !.kind = "reply", !.n = a, !.want = w] : a \in Replies, w \in Replies}
    \cup {[NoReq EXCEPT !.kind = k, !.n = v] : k \in {"config", "lines"}, v \in {0, 1}}
    \cup {[NoReq EXCEPT !.kind = "halt", !.n = v, !.ep = e] : v \in {0, 1}, e \in {"in2", "out2"}}
    \cup {[NoReq EXCEPT !.kind = k] : k \in {"address", "line_coding", "reset", "break", "unknown"}}

Idle == [at |-> "Idle", len |-> 0, sent |-> 0, zlp |-> FALSE, act |-> NoReq]

(* Device::new behind Controller::open. *)
ColdUsb == [control |-> Idle, address |-> 0, configuration |-> 0, lines |-> 0, suspended |-> FALSE,
            rx |-> <<>>, tx |-> <<>>, rxArmed |-> FALSE, txBusy |-> FALSE, txZlp |-> FALSE,
            reset |-> FALSE, err |-> FALSE]
ColdEps == [e \in EpNames |-> IF e \in {"in0", "out0"} THEN ControlEp ELSE Endpoint]
(* Where the three requests address, config and lines leave it, OUT armed. *)
OpenUsb == [ColdUsb EXCEPT !.address = 1, !.configuration = 1, !.lines = 1, !.rxArmed = TRUE]
OpenEps == [e \in EpNames |->
              IF e \in {"in0", "out0"} THEN ControlEp
              ELSE IF e = "out2" THEN [BulkEp EXCEPT !.busy = TRUE, !.avail = TRUE, !.pid = TRUE]
              ELSE BulkEp]

connected == usb.configuration # 0 /\ usb.lines = 1 /\ ~usb.suspended

(***************************************************************************)
(* The controller's calls, on m = [u, e, q]: the class driver, the         *)
(* endpoints and the latched interrupts. A refused call sets err.          *)
(***************************************************************************)
Fail(m) == [m EXCEPT !.u.err = TRUE]
NotBusy(ep, m) == m.e[ep].enabled /\ ~m.e[ep].busy /\ ~m.e[ep].stall

reset_control(m) ==
  [m EXCEPT !.e = [x \in EpNames |-> IF x \in {"in0", "out0"} THEN ControlEp ELSE m.e[x]],
            !.q.status = @ \ {"in0", "out0"}]

close_data_endpoints(m) ==
  [m EXCEPT !.e = [x \in EpNames |-> IF x \in {"in2", "out2"} THEN Endpoint ELSE m.e[x]],
            !.q.status = @ \ {"in2", "out2"}]

configure(m) ==
  IF m.e["in2"].enabled \/ m.e["out2"].enabled THEN Fail(m)
  ELSE [m EXCEPT !.e = [x \in EpNames |-> IF x \in {"in2", "out2"} THEN BulkEp ELSE m.e[x]]]

(* late: the last 200 us of a frame, when a bulk packet waits for the SOF. *)
write_in(m, ep, data, late) ==
  IF ~NotBusy(ep, m) THEN Fail(m)
  ELSE [m EXCEPT !.e[ep].busy = TRUE, !.e[ep].data = data, !.e[ep].dpid = m.e[ep].pid,
                 !.e[ep].pid = ~m.e[ep].pid,
                 !.e[ep].deferred = (late /\ ep = "in2"), !.e[ep].avail = ~(late /\ ep = "in2")]

arm_out(m, ep) ==
  IF ~NotBusy(ep, m) \/ m.e[ep].ready THEN Fail(m)
  ELSE [m EXCEPT !.e[ep].busy = TRUE, !.e[ep].dpid = m.e[ep].pid, !.e[ep].pid = ~m.e[ep].pid,
                 !.e[ep].avail = TRUE]

read_out(m, ep) == IF ~m.e[ep].ready THEN Fail(m) ELSE [m EXCEPT !.e[ep].ready = FALSE]

(* Mutant: the endpoint keeps its data toggle. *)
SetStallKeepsToggle(m, ep, on) ==
  IF ~m.e[ep].enabled THEN Fail(m)
  ELSE [m EXCEPT !.e[ep] = [Endpoint EXCEPT !.enabled = TRUE, !.stall = on, !.pid = m.e[ep].pid],
                 !.q.status = @ \ {ep}]

set_stall(m, ep, on) ==
  IF ~m.e[ep].enabled THEN Fail(m)
  ELSE [m EXCEPT !.e[ep] = [Endpoint EXCEPT !.enabled = TRUE, !.stall = on],
                 !.q.status = @ \ {ep}]

(* poll, the part every call does after a RESET is ruled out: at a start of
   frame the packets that waited for it are handed over. *)
start_of_frame(m) ==
  IF "sof" \notin m.q.ints THEN m
  ELSE [m EXCEPT !.q.ints = @ \ {"sof"},
                 !.e = [x \in EpNames |-> [m.e[x] EXCEPT !.avail = @ \/ m.e[x].deferred,
                                                         !.deferred = FALSE]]]

(***************************************************************************)
(* The class driver's control transfers.                                   *)
(***************************************************************************)
stall(m) == set_stall(set_stall([m EXCEPT !.u.control = Idle], "out0", TRUE), "in0", TRUE)

acknowledge(m, r) ==
  [write_in(m, "in0", <<>>, FALSE) EXCEPT !.u.control = [Idle EXCEPT !.at = "StatusIn", !.act = r]]

next_in(m) ==
  LET c == m.u.control
      end == Smaller(c.sent + PACKET, c.len)
  IN  IF c.at # "In" THEN m
      ELSE IF c.sent < c.len
           THEN [write_in(m, "in0", Bytes(end - c.sent), FALSE) EXCEPT !.u.control.sent = end]
           ELSE IF c.zlp
                THEN [write_in(m, "in0", <<>>, FALSE) EXCEPT !.u.control.zlp = FALSE]
                ELSE [arm_out(m, "out0") EXCEPT !.u.control = [Idle EXCEPT !.at = "StatusOut"]]

(* Mutant: a short reply of whole packets is not closed. *)
SendReplyUnclosed(m, available, requested) ==
  IF requested = 0 THEN stall(m)
  ELSE next_in([m EXCEPT !.u.control = [Idle EXCEPT !.at = "In", !.len = Smaller(available, requested)]])

send_reply(m, available, requested) ==
  LET len == Smaller(available, requested)
  IN  IF requested = 0 THEN stall(m)
      ELSE next_in([m EXCEPT !.u.control =
             [Idle EXCEPT !.at = "In", !.len = len,
                          !.zlp = (len < requested /\ len % PACKET = 0)]])

setup(m, r) ==
  LET u == m.u
  IN  CASE r.kind = "reply" -> send_reply(m, r.n, r.want)
        [] r.kind = "address" /\ u.configuration = 0 -> acknowledge(m, r)
        [] r.kind = "config" /\ u.address # 0 -> acknowledge(m, r)
        [] r.kind \in {"lines", "halt", "reset", "break"} /\ u.configuration # 0 -> acknowledge(m, r)
        [] r.kind = "line_coding" /\ u.configuration # 0 ->
             [arm_out(m, "out0") EXCEPT !.u.control = [Idle EXCEPT !.at = "LineCoding"]]
        [] OTHER -> stall(m)

(* The OUT packet of endpoint 0: a zero-length status, or seven bytes of
   line coding, modelled by how the checks on it come out. *)
control_out(m) ==
  LET n == read_out(m, "out0")
      p == m.e["out0"].data
  IN  IF n.u.err THEN n
      ELSE CASE m.u.control.at = "StatusOut" /\ p = <<>> -> [n EXCEPT !.u.control = Idle]
             [] m.u.control.at = "LineCoding" /\ p = <<"coding">> -> acknowledge(n, NoReq)
             [] m.u.control.at = "LineCoding" /\ p = <<"baud1200">> ->
                  acknowledge(n, [NoReq EXCEPT !.kind = "reset"])
             [] OTHER -> stall(n)

clear_data(m) ==
  [m EXCEPT !.u.rx = <<>>, !.u.tx = <<>>, !.u.rxArmed = FALSE, !.u.txBusy = FALSE, !.u.txZlp = FALSE]

control_in(m) ==
  LET r == m.u.control.act
      n == [m EXCEPT !.u.control = Idle]
      c == clear_data([close_data_endpoints(n) EXCEPT !.u.configuration = r.n, !.u.lines = 0])
      h == set_stall(n, r.ep, r.n = 1)
  IN  CASE m.u.control.at = "In" -> next_in(m)
        [] m.u.control.at # "StatusIn" /\ m.u.control.at # "In" -> stall(m)
        [] m.u.control.at = "StatusIn" /\ r.kind \in {"none", "break"} -> n
        [] m.u.control.at = "StatusIn" /\ r.kind = "address" -> [n EXCEPT !.u.address = 1]
        [] m.u.control.at = "StatusIn" /\ r.kind = "config" -> IF r.n = 0 THEN c ELSE configure(c)
        [] m.u.control.at = "StatusIn" /\ r.kind = "lines" -> [n EXCEPT !.u.lines = r.n]
        [] m.u.control.at = "StatusIn" /\ r.kind = "halt" ->
             IF r.ep = "out2" THEN [h EXCEPT !.u.rxArmed = FALSE]
             ELSE [h EXCEPT !.u.txBusy = FALSE, !.u.txZlp = FALSE]
        [] m.u.control.at = "StatusIn" /\ r.kind = "reset" -> [n EXCEPT !.u.reset = TRUE]

(* Event::Out(2): the packet goes to the receive ring whole or not at all. *)
bulk_out(m) ==
  LET n == read_out(m, "out2")
      p == m.e["out2"].data
  IN  IF n.u.err \/ Len(m.u.rx) + Len(p) > RING THEN Fail(n)
      ELSE [n EXCEPT !.u.rx = @ \o p, !.u.rxArmed = FALSE]

bus_reset(m) ==
  clear_data([reset_control(close_data_endpoints(m))
    EXCEPT !.u = [@ EXCEPT !.configuration = 0, !.address = 0, !.lines = 0, !.suspended = FALSE,
                           !.control = Idle, !.reset = FALSE],
           !.q.ints = @ \ {"reset", "setup"}])

Now == [u |-> usb, e |-> eps, q |-> irqs]
Becomes(m) == usb' = m.u /\ eps' = m.e /\ irqs' = m.q

(* The status bit poll takes: the lowest one set. *)
FirstStatus(q) == Eps[CHOOSE i \in 1 .. 4 : Eps[i] \in q.status /\ \A j \in 1 .. i - 1 : Eps[j] \notin q.status]

PollEvents == irqs.ints \ {"sof"} # {} \/ irqs.status # {}

(* One turn of service's loop: poll and the handling of its event. *)
dispatch(m) ==
  LET s == start_of_frame(m)
      b == FirstStatus(s.q)
      t == [s EXCEPT !.q.status = @ \ {b}, !.e[b].busy = FALSE]
      o == [t EXCEPT !.e[b].ready = TRUE]
  IN  CASE "reset" \in m.q.ints -> bus_reset(m)
        [] "reset" \notin m.q.ints /\ "setup" \in m.q.ints ->
             setup([reset_control(s) EXCEPT !.q.ints = @ \ {"setup"}, !.u.control = Idle], s.q.setup)
        [] {"reset", "setup"} \cap m.q.ints = {} /\ m.q.status # {} ->
             (CASE b = "in0" -> control_in(t)
                [] b = "out0" -> control_out(o)
                [] b = "in2" -> [t EXCEPT !.u.txBusy = FALSE]
                [] b = "out2" -> IF m.u.configuration # 0 THEN bulk_out(o) ELSE o)
        [] {"reset", "setup"} \cap m.q.ints = {} /\ m.q.status = {} /\ "suspend" \in m.q.ints ->
             [s EXCEPT !.q.ints = @ \ {"suspend"}, !.u.suspended = TRUE]
        [] OTHER -> [s EXCEPT !.q.ints = @ \ {"resume"}, !.u.suspended = FALSE]

(* What a request or a bus reset takes from the streams, on the ghost. *)
Drops(m) ==
  LET n == dispatch(m)
      r == m.u.control.act
      done == irqs.status # {} /\ FirstStatus(irqs) = "in0" /\ {"reset", "setup"} \cap irqs.ints = {}
                /\ m.u.control.at = "StatusIn"
  IN  IF "reset" \in m.q.ints \/ (done /\ r.kind = "config") THEN [in |-> <<>>, out |-> <<>>]
      ELSE IF done /\ r.kind = "halt" /\ r.ep = "in2" THEN [owed EXCEPT !.in = n.u.tx]
      ELSE IF done /\ r.kind = "halt" /\ r.ep = "out2" THEN [owed EXCEPT !.out = n.u.rx]
      ELSE owed

(* The first poll of a call to service, or the next one of its budget. *)
service_poll ==
  /\ usbLeft # 1 /\ PollEvents
  /\ owed' = Drops(Now)
  /\ Becomes(dispatch(Now))
  /\ usbLeft' = IF usbLeft = 0 THEN EVENT_BUDGET ELSE usbLeft - 1
  /\ host' = [host EXCEPT !.ahead = @ /\ "reset" \notin irqs.ints]

(* The end of service: arm the OUT endpoint when a whole packet fits, and
   hand the next packet to the IN endpoint when none is there. *)
rearm(m) ==
  IF m.u.configuration # 0 /\ ~m.u.rxArmed /\ Len(m.u.rx) <= RING - PACKET /\ ~m.e["out2"].stall
  THEN [arm_out(m, "out2") EXCEPT !.u.rxArmed = TRUE] ELSE m

transmit(m, late) ==
  LET n == Smaller(PACKET, Len(m.u.tx))
  IN  IF ~(connected /\ ~m.u.txBusy /\ ~m.e["in2"].stall /\ (n # 0 \/ m.u.txZlp)) THEN m
      ELSE [write_in(m, "in2", SubSeq(m.u.tx, 1, n), late)
              EXCEPT !.u.tx = SubSeq(@, n + 1, Len(@)), !.u.txBusy = TRUE, !.u.txZlp = (n = PACKET)]

service_end ==
  /\ usbLeft = 1 \/ ~PollEvents
  /\ \E late \in BOOLEAN :
       Becomes(transmit(rearm(IF usbLeft = 1 THEN Now ELSE start_of_frame(Now)), late))
  /\ usbLeft' = 0
  /\ UNCHANGED <<host, owed>>

(***************************************************************************)
(* The application.                                                        *)
(***************************************************************************)
AppWrite(n) ==
  LET data == [i \in 1 .. n |-> host.sent + i]
      kept == SubSeq(data, 1, Smaller(n, RING - Len(usb.tx)))
  IN  /\ usbLeft = 0 /\ connected /\ host.traffic = "in" /\ host.sent + n <= MAX_BYTES
      /\ usb' = [usb EXCEPT !.tx = @ \o kept]
      /\ owed' = [owed EXCEPT !.in = @ \o kept]
      /\ host' = [host EXCEPT !.sent = @ + n]
      /\ UNCHANGED <<eps, irqs, usbLeft>>

(* The ghost follows what the application is given, whatever the host sent. *)
AppRead ==
  /\ usbLeft = 0 /\ usb.rx # <<>>
  /\ usb' = [usb EXCEPT !.rx = Tail(@)]
  /\ owed' = [owed EXCEPT !.out = Tail(@)]
  /\ UNCHANGED <<eps, irqs, host, usbLeft>>

take_reset ==
  /\ usbLeft = 0 /\ usb.reset
  /\ usb' = [usb EXCEPT !.reset = FALSE]
  /\ UNCHANGED <<eps, irqs, host, owed, usbLeft>>

(***************************************************************************)
(* The host (external). It lets the device finish a bus reset before it    *)
(* uses the bus again, and nothing else: a SETUP comes over a SETUP or a   *)
(* completion that poll has not seen, and bulk packets at any time. Between*)
(* a SETUP and the poll that sees it endpoint 0 answers with NAK (assumed).*)
(***************************************************************************)
Awake == "reset" \notin irqs.ints
Recovered == Awake /\ "setup" \notin irqs.ints /\ irqs.status \cap {"in0", "out0"} = {}
Quiet == [stage |-> "Idle", req |-> NoReq, got |-> 0, pid0 |-> TRUE]

(* The host saw the status stage of a request that sets endpoints afresh, and
   poll has not: a SETUP now makes reset_control drop the completion, with the
   request, and a bulk packet moves under the toggle about to be reset. *)
Unapplied == "in0" \in irqs.status /\ usb.control.at = "StatusIn" /\ usb.control.act.kind \in {"config", "halt"}

(* Bound: in a behaviour with a stream, only the requests that touch it, and
   "break" for the others. *)
Asked(r) ==
  \/ host.traffic = "none" \/ r.kind \in {"config", "break"}
  \/ host.traffic = "in" /\ (r.kind = "lines" \/ (r.kind = "halt" /\ r.ep = "in2"))
  \/ host.traffic = "out" /\ r.kind = "halt" /\ r.ep = "out2"

HostSetup(r) ==
  /\ Awake /\ host.setups < MAX_SETUPS /\ Asked(r)
  /\ host' = [host EXCEPT !.setups = @ + 1, !.ahead = @ \/ Unapplied,
                 !.ctl = [Quiet EXCEPT !.req = r,
                            !.stage = CASE r.kind = "reply" -> "In" [] r.kind = "line_coding" -> "LineCoding"
                                        [] OTHER -> "StatusIn"]]
  /\ irqs' = [irqs EXCEPT !.ints = @ \cup {"setup"}, !.setup = r]
  /\ UNCHANGED <<usb, eps, owed, usbLeft>>

(* What the host concludes when a request's status stage ends. *)
HostDone(r) ==
  CASE r.kind = "config" -> [host EXCEPT !.in2 = FALSE, !.out2 = FALSE, !.ctl = Quiet]
    [] r.kind = "halt" /\ r.ep = "in2" -> [host EXCEPT !.in2 = FALSE, !.ctl = Quiet]
    [] r.kind = "halt" /\ r.ep = "out2" -> [host EXCEPT !.out2 = FALSE, !.ctl = Quiet]
    [] OTHER -> [host EXCEPT !.ctl = Quiet]

HostIn0 ==
  LET n == Len(eps["in0"].data)
      got == host.ctl.got + n
  IN  /\ {"reset", "setup"} \cap irqs.ints = {} /\ host.ctl.stage \in {"In", "StatusIn"}
      /\ \/ eps["in0"].stall /\ host' = [host EXCEPT !.ctl = Quiet] /\ UNCHANGED <<eps, irqs>>
         \/ /\ eps["in0"].avail
            /\ eps' = [eps EXCEPT !["in0"].avail = FALSE]
            /\ irqs' = [irqs EXCEPT !.status = @ \cup {"in0"}]
            /\ host' = IF eps["in0"].dpid # host.ctl.pid0 THEN host
                       ELSE IF host.ctl.stage = "StatusIn" THEN HostDone(host.ctl.req)
                       ELSE [host EXCEPT !.ctl.got = got, !.ctl.pid0 = ~@,
                               !.ctl.stage = IF n < PACKET \/ got = host.ctl.req.want THEN "StatusOut" ELSE "In"]
      /\ UNCHANGED <<usb, owed, usbLeft>>

HostOut0(p) ==
  /\ {"reset", "setup"} \cap irqs.ints = {}
  /\ host.ctl.stage = IF p = <<>> THEN "StatusOut" ELSE "LineCoding"
  /\ \/ eps["out0"].stall /\ host' = [host EXCEPT !.ctl = Quiet] /\ UNCHANGED <<eps, irqs>>
     \/ /\ eps["out0"].avail
        /\ eps' = [eps EXCEPT !["out0"].avail = FALSE, !["out0"].data = p]
        /\ irqs' = [irqs EXCEPT !.status = @ \cup {"out0"}]
        /\ host' = [host EXCEPT !.ctl = IF p = <<>> THEN Quiet ELSE [@ EXCEPT !.stage = "StatusIn"]]
  /\ UNCHANGED <<usb, owed, usbLeft>>

(* A packet whose toggle is not the expected one is taken for a repeat. *)
HostIn2 ==
  LET fresh == eps["in2"].dpid = host.in2
      n == Len(eps["in2"].data)
  IN  /\ Awake /\ eps["in2"].avail
      /\ eps' = [eps EXCEPT !["in2"].avail = FALSE, !["in2"].data = <<>>]
      /\ irqs' = [irqs EXCEPT !.status = @ \cup {"in2"}]
      /\ host' = [host EXCEPT !.in2 = IF fresh THEN ~@ ELSE @, !.ahead = @ \/ Unapplied]
      /\ owed' = IF fresh /\ SubSeq(owed.in, 1, n) = eps["in2"].data
                 THEN [owed EXCEPT !.in = SubSeq(@, n + 1, Len(@))] ELSE owed
      /\ UNCHANGED <<usb, usbLeft>>

(* The device answers an OUT packet whose toggle is not the one armed as a
   repeat: it acknowledges it and keeps nothing. *)
HostOut2(n) ==
  LET data == [i \in 1 .. n |-> host.sent + i]
  IN  /\ Awake /\ eps["out2"].avail /\ host.traffic = "out" /\ host.sent + n <= MAX_BYTES
      /\ host' = [host EXCEPT !.out2 = ~@, !.sent = @ + n, !.ahead = @ \/ Unapplied]
      /\ owed' = [owed EXCEPT !.out = @ \o data]
      /\ IF eps["out2"].dpid = host.out2
         THEN /\ eps' = [eps EXCEPT !["out2"].avail = FALSE, !["out2"].data = data]
              /\ irqs' = [irqs EXCEPT !.status = @ \cup {"out2"}]
         ELSE UNCHANGED <<eps, irqs>>
      /\ UNCHANGED <<usb, usbLeft>>

(* Bus events: a reset, suspend, resume, and the start of a frame. *)
Bus(i) ==
  /\ "reset" \notin irqs.ints /\ i \notin irqs.ints
  /\ i = "sof" => \E e \in EpNames : eps[e].deferred
  /\ i \in {"reset", "suspend"} => host.bus < MAX_BUS
  /\ i \in {"suspend", "resume"} => host.asleep = (i = "resume") /\ {"suspend", "resume"} \cap irqs.ints = {}
  /\ irqs' = [irqs EXCEPT !.ints = @ \cup {i}]
  /\ host' = [host EXCEPT !.bus = IF i \in {"reset", "suspend"} THEN @ + 1 ELSE @,
                !.asleep = IF i \in {"suspend", "resume", "reset"} THEN i = "suspend" ELSE @,
                !.ctl = IF i = "reset" THEN Quiet ELSE @,
                !.in2 = IF i = "reset" THEN FALSE ELSE @, !.out2 = IF i = "reset" THEN FALSE ELSE @]
  /\ UNCHANGED <<usb, eps, owed, usbLeft>>

(* A device with a stream is open; without one it may be cold. *)
UsbInit ==
  /\ \E t \in Traffic :
       /\ usb \in IF t = "none" THEN {ColdUsb, OpenUsb} ELSE {OpenUsb}
       /\ host = [ctl |-> Quiet, in2 |-> FALSE, out2 |-> FALSE, asleep |-> FALSE, ahead |-> FALSE,
                  setups |-> 0, sent |-> 0, bus |-> 0, traffic |-> t]
  /\ eps = IF usb = ColdUsb THEN ColdEps ELSE OpenEps
  /\ irqs = [ints |-> {}, setup |-> NoReq, status |-> {}]
  /\ owed = [in |-> <<>>, out |-> <<>>]
  /\ usbLeft = 0

UsbNext ==
  \/ service_poll \/ service_end
  \/ AppRead \/ take_reset \/ HostIn0 \/ HostIn2
  \/ \E n \in 1 .. PACKET : AppWrite(n) \/ HostOut2(n)
  \/ \E r \in Requests : HostSetup(r)
  \/ \E p \in {<<>>, <<"coding">>, <<"baud1200">>, <<"bad">>} : HostOut0(p)
  \/ \E i \in {"reset", "suspend", "resume", "sof"} : Bus(i)

UsbSpec == UsbInit /\ [][UsbNext]_usbVars

TypeUsb ==
  /\ DOMAIN usb = DOMAIN ColdUsb /\ DOMAIN eps = EpNames
  /\ Len(usb.rx) <= RING /\ Len(usb.tx) <= RING
  /\ \A e \in EpNames : Len(eps[e].data) <= PACKET
  /\ irqs.status \subseteq EpNames /\ usbLeft \in 0 .. EVENT_BUDGET

(* The class driver never asks the controller for what it must refuse: an
   endpoint that is busy, stalled or closed, an OUT packet that is not there,
   or a packet larger than the ring's room. Its rxArmed, txBusy and control
   mirror the controller's own bookkeeping through halts, resets and new
   configurations. *)
NeverRefused == ~usb.err

(* No byte of either stream is lost, repeated or reordered: what the
   application wrote and the host has not read is the packet in the IN
   endpoint and then the ring; what the host sent and the application has not
   read is the ring and then the packet in the OUT endpoint. Only a bus reset,
   a new configuration or a halt of the endpoint drops bytes. It holds until
   the host goes on before poll has seen a status stage that resets an
   endpoint, and again after the next bus reset. *)
StreamsKept ==
  ~host.ahead =>
  /\ owed.in = (IF eps["in2"].avail \/ eps["in2"].deferred THEN eps["in2"].data ELSE <<>>) \o usb.tx
  /\ owed.out = usb.rx \o (IF "out2" \in irqs.status \/ eps["out2"].ready THEN eps["out2"].data ELSE <<>>)

(* The class driver is never refused, and with nothing of endpoint 0 pending
   the host and the device are at the same stage of the same control transfer,
   or the device stalled it: a reply that ends on a packet boundary is closed
   by a zero-length packet exactly when the host waits for one. *)
ControlAgrees ==
  /\ NeverRefused
  /\ Recovered => host.ctl.stage = usb.control.at \/ eps["in0"].stall

(* The control pipe stays in step with the host wherever a reset, a halt or
   a new SETUP strikes, over a completion that poll has not seen as well; and
   so do both streams, as far as StreamsKept says. *)
UsbInStep == StreamsKept /\ ControlAgrees
=============================================================================
