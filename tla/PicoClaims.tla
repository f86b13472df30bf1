----------------------------- MODULE PicoClaims -----------------------------
(***************************************************************************)
(* Who owns what on the RP2040: the claim tables behind spinlock 31        *)
(* (soc/rp2040/src/ctrl.rs and the tables of the I2C, SPI, PWM and ADC     *)
(* drivers, which take the same lock), and the drivers' open and drop,     *)
(* which claim a unit and its pins one by one and give them back when one  *)
(* is taken.  A PIO block is claimed in one masked attempt, and retired    *)
(* without the lock.                                                       *)
(*                                                                         *)
(* An opener is a task or a handler on a core; a handler runs to its end   *)
(* before the task below it goes on.                                       *)
(***************************************************************************)
EXTENDS Integers, Sequences

CONSTANTS
  Openers, Handlers,  \* contexts, and those of them that are interrupt handlers
  CoreOfOpener,       \* Openers -> cores
  Plans,              \* what they open: functions Openers -> [kind, unit, pins]
  Group,              \* pin -> the register of edge enables it is in
  MAX_OPENS,          \* bound: opens of one opener
  NoOpener

VARIABLES
  plan,        \* what each opener opens
  claimLock,   \* the holder of spinlock 31
  claims,      \* the claim bits that are set
  retired,     \* PIO_RETIRED: per retired block, its lease
  opener,      \* per opener: where it is, what it has claimed, what it does next
  pads,        \* pin -> the opener whose driver last routed it
  edges        \* the pins whose edge interrupt is enabled, and the enables meant

claimVars == <<plan, claimLock, claims, retired, opener, pads, edges>>

ASSUME ClaimAssumption ==
  /\ Handlers \subseteq Openers /\ NoOpener \notin Openers
  /\ CoreOfOpener \in [Openers -> Nat] /\ MAX_OPENS \in Nat

(* The pins of an open are distinct (pins_valid), a unit is not a pin, and *)
(* the ADC claims the one pin of the channel it reads.                     *)
ASSUME PlansAssumption ==
  \A f \in Plans, o \in Openers :
    /\ f[o].kind \in {"i2c", "spi", "pwm", "adc", "uart", "pio", "pin"}
    /\ f[o].pins \in Seq(DOMAIN Group)
    /\ \A i, j \in DOMAIN f[o].pins : f[o].pins[i] = f[o].pins[j] => i = j
    /\ IF f[o].kind = "pin" THEN f[o].pins = <<f[o].unit>> ELSE f[o].unit \notin DOMAIN Group
    /\ f[o].kind = "adc" => Len(f[o].pins) = 1

Kind(o) == plan[o].kind
Unit(o) == plan[o].unit
PinsOf(o) == {plan[o].pins[i] : i \in DOMAIN plan[o].pins}
AllPins == UNION {PinsOf(o) : o \in Openers}

(* The order of the claims of open, and of the releases of drop.  A UART   *)
(* does not claim its pins; the ADC claims one at its first read.          *)
ClaimOrder(o) ==
  CASE Kind(o) \in {"i2c", "spi"} -> <<Unit(o)>> \o plan[o].pins
    [] Kind(o) = "pwm" -> plan[o].pins \o <<Unit(o)>>
    [] Kind(o) = "pin" -> plan[o].pins
    [] OTHER -> <<Unit(o)>>
DropOrder(o) ==
  CASE Kind(o) = "pwm" -> <<Unit(o)>> \o plan[o].pins
    [] OTHER -> (IF PinsOf(o) \subseteq opener[o].owned THEN plan[o].pins ELSE <<>>) \o <<Unit(o)>>

(* The pins among the first k - 1 claims: &pins[..claimed].                *)
PinsBefore(o, k) ==
  CASE Kind(o) \in {"i2c", "spi"} -> k - 2 [] Kind(o) = "pwm" -> k - 1 [] OTHER -> 0

(* Mutant: the roll-back also releases the pin that was refused.           *)
RollBackOne(o, k) ==
  LET n == PinsBefore(o, k)
  IN  SubSeq(plan[o].pins, 1, IF n < Len(plan[o].pins) THEN n + 1 ELSE n)
      \o (IF Unit(o) \in opener[o].owned THEN <<Unit(o)>> ELSE <<>>)

(* What an open gives back whose k-th claim is refused: the pins it has,   *)
(* then the unit, if claimed.                                              *)
RollBack(o, k) ==
  SubSeq(plan[o].pins, 1, PinsBefore(o, k)) \o (IF Unit(o) \in opener[o].owned THEN <<Unit(o)>> ELSE <<>>)

NotOpen == [pc |-> "closed", todo |-> <<>>, owned |-> {}, opens |-> 0, seen |-> {}]

TypeClaims ==
  /\ claimLock \in Openers \cup {NoOpener}
  /\ \A o \in Openers :
       /\ opener[o].pc \in {"closed", "claim", "claim!", "init", "open", "release", "release!",
                            "pin", "pin!", "pio", "edge"}
       /\ opener[o].opens \in 0 .. MAX_OPENS
  /\ \A b \in DOMAIN retired : retired[b] \subseteq AllPins
  /\ edges.on \subseteq AllPins

ClaimInit ==
  /\ plan \in Plans
  /\ claimLock = NoOpener
  /\ claims = {}
  /\ retired = <<>>
  /\ opener = [o \in Openers |-> NotOpen]
  /\ pads = [p \in AllPins |-> NoOpener]
  /\ edges = [on |-> {}, meant |-> {}]

----------------------------------------------------------------------------
Opening(o) == opener[o].pc \notin {"closed", "open"}
Masked(o) == opener[o].pc = "pio"
(* A task below a busy handler does not run; a handler waits for a masked  *)
(* task.                                                                   *)
OpenerRuns(o) ==
  \A h \in Openers \ {o} : CoreOfOpener[h] = CoreOfOpener[o] =>
    /\ h \in Handlers => ~Opening(h)
    /\ o \in Handlers /\ ~Opening(o) => ~Masked(h)

OpenerAt(o, l) == opener[o].pc = l /\ OpenerRuns(o)
Become(o, s) == opener' = [opener EXCEPT ![o] = s]
claimRest == <<plan, pads, edges>>

(* reap_pio: what retired leases had is free; claim and release of a GPIO  *)
(* or a UART do it first, the drivers' own tables do not.                  *)
Reaped == claims \ (DOMAIN retired \cup UNION {retired[b] : b \in DOMAIN retired})
Reaps(o, r) == r \in AllPins \/ Kind(o) \in {"uart", "usb"}
Table(o, r) == IF Reaps(o, r) THEN Reaped ELSE claims
Reaping(o, r) == retired' = IF Reaps(o, r) THEN <<>> ELSE retired

OpenUnit(o) ==
  /\ OpenerAt(o, "closed") /\ Kind(o) # "pio" /\ opener[o].opens < MAX_OPENS
  /\ Become(o, [opener[o] EXCEPT !.pc = "claim", !.todo = ClaimOrder(o), !.opens = @ + 1, !.owned = {}])
  /\ UNCHANGED <<claimLock, claims, retired, claimRest>>

Locked == [claim |-> "claim!", release |-> "release!", pin |-> "pin!"]

(* The spin on the lock, with interrupts as they are.                      *)
TakeClaimLock(o) ==
  /\ opener[o].pc \in DOMAIN Locked /\ OpenerRuns(o)
  /\ claimLock = NoOpener
  /\ claimLock' = o
  /\ Become(o, [opener[o] EXCEPT !.pc = Locked[@]])
  /\ UNCHANGED <<claims, retired, claimRest>>

(* claim, claim_gpio, claim_uart, claim_slice, claim_adc: the bit is set,  *)
(* and it was free or not.                                                 *)
ClaimOne(o) ==
  LET r == Head(opener[o].todo)
      left == Tail(opener[o].todo)
      k == Len(ClaimOrder(o)) + 1 - Len(opener[o].todo)
      back == RollBack(o, k)
      mine == [opener[o] EXCEPT !.owned = @ \cup {r}]
  IN  /\ OpenerAt(o, "claim!")
      /\ claimLock' = NoOpener
      /\ claims' = Table(o, r) \cup {r} /\ Reaping(o, r)
      /\ IF r \in Table(o, r)
         THEN Become(o, [opener[o] EXCEPT !.todo = back,
                                          !.pc = IF back = <<>> THEN "closed" ELSE "release"])
         ELSE Become(o, [mine EXCEPT !.todo = left, !.pc = IF left = <<>> THEN "init" ELSE "claim"])
      /\ UNCHANGED claimRest

(* release, release_gpio and the rest: the bit is cleared.                 *)
ReleaseOne(o) ==
  LET r == Head(opener[o].todo)
      left == Tail(opener[o].todo)
  IN  /\ OpenerAt(o, "release!")
      /\ claimLock' = NoOpener
      /\ claims' = Table(o, r) \ {r} /\ Reaping(o, r)
      /\ Become(o, [opener[o] EXCEPT !.owned = @ \ {r}, !.todo = left,
                                     !.pc = IF left = <<>> THEN "closed" ELSE "release"])
      /\ UNCHANGED claimRest

(* init routes the pads, or refuses the configuration, and open drops what *)
(* it has.  PWM, ADC and a plain pin cannot fail here, nor route yet.      *)
Routes(o) == Kind(o) \in {"i2c", "spi", "uart"}
InitUnit(o) ==
  /\ OpenerAt(o, "init") /\ Kind(o) # "pio"
  /\ \/ /\ pads' = [p \in AllPins |-> IF Routes(o) /\ p \in PinsOf(o) THEN o ELSE pads[p]]
        /\ Become(o, [opener[o] EXCEPT !.pc = "open"])
     \/ /\ Routes(o)
        /\ Become(o, [opener[o] EXCEPT !.pc = "release", !.todo = RollBack(o, Len(ClaimOrder(o)) + 1)])
        /\ UNCHANGED pads
  /\ UNCHANGED <<claimLock, claims, retired, plan, edges>>

(* PWM's start and a pin's set_mode route the pad of an open handle; the   *)
(* ADC's read claims it first, once.                                       *)
StartUnit(o) ==
  /\ OpenerAt(o, "open")
  /\ \/ /\ Kind(o) \in {"pwm", "pin"}
        /\ pads' = [p \in AllPins |-> IF p \in PinsOf(o) THEN o ELSE pads[p]]
        /\ UNCHANGED opener
     \/ /\ Kind(o) = "adc" /\ ~(PinsOf(o) \subseteq opener[o].owned)
        /\ Become(o, [opener[o] EXCEPT !.pc = "pin", !.todo = plan[o].pins])
        /\ UNCHANGED pads
  /\ UNCHANGED <<claimLock, claims, retired, plan, edges>>

PrepareGpio(o) ==
  LET p == Head(opener[o].todo)
      free == p \notin Table(o, p)
  IN  /\ OpenerAt(o, "pin!")
      /\ claimLock' = NoOpener
      /\ claims' = Table(o, p) \cup {p} /\ Reaping(o, p)
      /\ Become(o, [opener[o] EXCEPT !.pc = "open", !.todo = <<>>,
                                     !.owned = IF free THEN @ \cup {p} ELSE @])
      /\ pads' = IF free THEN [pads EXCEPT ![p] = o] ELSE pads
      /\ UNCHANGED <<plan, edges>>

(* Drop; a UART and a pin have none, and keep their claim for good.        *)
DropUnit(o) ==
  /\ OpenerAt(o, "open") /\ Kind(o) \in {"i2c", "spi", "pwm", "adc"}
  /\ Become(o, [opener[o] EXCEPT !.pc = "release", !.todo = DropOrder(o)])
  /\ UNCHANGED <<claimLock, claims, retired, claimRest>>

----------------------------------------------------------------------------
(* try_claim_pio: interrupts masked, one attempt at the lock ...           *)
PioTry(o) ==
  /\ OpenerAt(o, "closed") /\ Kind(o) = "pio" /\ opener[o].opens < MAX_OPENS
  /\ claimLock = NoOpener      \* else None, and nothing has changed
  /\ claimLock' = o
  /\ Become(o, [opener[o] EXCEPT !.pc = "pio", !.opens = @ + 1])
  /\ UNCHANGED <<claims, retired, claimRest>>

(* ... then block and pins together, or none.  initialize saves the pads'  *)
(* routing and takes them over, or fails and drops the lease.              *)
PioClaim(o) ==
  LET all == {Unit(o)} \cup PinsOf(o)
      free == all \cap Reaped = {}
  IN  /\ OpenerAt(o, "pio")
      /\ claimLock' = NoOpener
      /\ claims' = IF free THEN Reaped \cup all ELSE Reaped
      /\ retired' = <<>>
      /\ Become(o, [opener[o] EXCEPT !.pc = IF free THEN "init" ELSE "closed",
                                     !.owned = IF free THEN all ELSE {}])
      /\ UNCHANGED claimRest

(* PioLease::drop: the lease is published as retired.                      *)
RetirePio(o) == retired' = [b \in DOMAIN retired \cup {Unit(o)} |->
                              IF b = Unit(o) THEN PinsOf(o) ELSE retired[b]]
PioInit(o) ==
  /\ OpenerAt(o, "init") /\ Kind(o) = "pio"
  /\ \/ /\ Become(o, [opener[o] EXCEPT !.pc = "open"])
        /\ pads' = [p \in AllPins |-> IF p \in PinsOf(o) THEN o ELSE pads[p]]
        /\ UNCHANGED retired
     \/ /\ RetirePio(o)
        /\ Become(o, [opener[o] EXCEPT !.pc = "closed", !.owned = {}])
        /\ UNCHANGED pads
  /\ UNCHANGED <<claimLock, claims, plan, edges>>

PioDrop(o) ==
  /\ OpenerAt(o, "open") /\ Kind(o) = "pio"
  /\ RetirePio(o)
  /\ Become(o, [opener[o] EXCEPT !.pc = "closed", !.owned = {}])
  /\ UNCHANGED <<claimLock, claims, claimRest>>

----------------------------------------------------------------------------
(* enable_edge_interrupt and disable_edge_interrupt: read the enables of   *)
(* the pin's group, and write them back changed.                           *)
EdgeRead(o) ==
  /\ OpenerAt(o, "open") /\ Kind(o) = "pin"
  /\ Become(o, [opener[o] EXCEPT !.pc = "edge", !.seen = edges.on])
  /\ UNCHANGED <<claimLock, claims, retired, claimRest>>

EdgeWrite(o, enable) ==
  LET same == {p \in AllPins : Group[p] = Group[Head(plan[o].pins)]}
      With(s) == IF enable THEN s \cup PinsOf(o) ELSE s \ PinsOf(o)
  IN  /\ OpenerAt(o, "edge")
      /\ edges' = [on |-> (edges.on \ same) \cup With(opener[o].seen \cap same),
                   meant |-> With(edges.meant)]
      /\ Become(o, [opener[o] EXCEPT !.pc = "open", !.seen = {}])
      /\ UNCHANGED <<claimLock, claims, retired, plan, pads>>

ClaimNext ==
  \E o \in Openers :
    \/ OpenUnit(o) \/ TakeClaimLock(o) \/ ClaimOne(o) \/ ReleaseOne(o) \/ InitUnit(o) \/ StartUnit(o)
    \/ PrepareGpio(o) \/ DropUnit(o) \/ PioTry(o) \/ PioClaim(o) \/ PioInit(o) \/ PioDrop(o)
    \/ EdgeRead(o) \/ \E enable \in BOOLEAN : EdgeWrite(o, enable)

ClaimSpec == ClaimInit /\ [][ClaimNext]_claimVars

----------------------------------------------------------------------------
(* ctrl.rs: "cross-core ownership claims".  No unit or pin has two owners, *)
(* and a bit is set exactly for what is owned or retired and not reaped:   *)
(* no path of a failed open leaks a claim or frees another's.  The pad of  *)
(* a claimed pin is routed to nobody but its owner (UARTs apart).          *)
ClaimsExact ==
  /\ \A o, k \in Openers : o # k => opener[o].owned \cap opener[k].owned = {}
  /\ claims = (UNION {opener[o].owned : o \in Openers})
              \cup DOMAIN retired \cup UNION {retired[b] : b \in DOMAIN retired}
  /\ \A o \in Openers : opener[o].pc = "open" /\ (Routes(o) \/ Kind(o) = "pio") =>
       \A p \in PinsOf(o) : pads[p] = o \/ \E u \in {o, pads[p]} : u # NoOpener /\ Kind(u) = "uart"

(* try_claim_pio: "claim callers can spin on this shared lock from an      *)
(* interrupt".  They must not while the task below holds it; with_claims   *)
(* does not mask, so a handler that claims can spin for ever.              *)
NoSelfSpin ==
  ~\E h \in Handlers, t \in Openers :
     /\ CoreOfOpener[h] = CoreOfOpener[t] /\ h # t
     /\ claimLock = t /\ opener[h].pc \in {"claim", "release", "pin"}

(* A UART that is open has its pads, and takes nobody's.  Not so: it does  *)
(* not claim them.                                                         *)
UartPads ==
  \A o \in Openers : opener[o].pc = "open" /\ Routes(o) => \A p \in PinsOf(o) : pads[p] = o

(* The edges enabled are the ones asked for.  Not so for two pins of one   *)
(* register: the enables are read and written back without a lock.         *)
EdgesKept == edges.on = edges.meant
=============================================================================
