------------------------------ MODULE Station ------------------------------
(***************************************************************************)
(* The Wi-Fi station over the library (radio/esp32/src/station.rs, with    *)
(* wifi.rs, scan.rs and the event ring of events.rs): bringing the library *)
(* up, connecting and disconnecting, scanning, and what the application    *)
(* reads of all this while events are on their way.                        *)
(*                                                                         *)
(* The library is external: it accepts a call or refuses it, and reports   *)
(* by events, which the dispatch task hands to bridge one by one.          *)
(***************************************************************************)
EXTENDS RadioObjects, RadioPhy

CONSTANTS
  StaChannels,     \* channels of access points
  STA_RING,        \* QUEUE_LEN of the event ring
  STA_RECORDS,     \* records scan_results takes
  STA_POLITE,      \* the application connects only when status says Disconnected
  MAX_STA_CALLS    \* bound: calls of the application, and losses of the link

ASSUME StationAssumption ==
  /\ STA_RING \in Nat \ {0} /\ {STA_RECORDS, MAX_STA_CALLS} \subseteq Nat
  /\ STA_POLITE \in BOOLEAN /\ 0 \notin StaChannels

VARIABLES
  sta,       \* STATE, CHANNEL, and whether bridge and the application's handler are set
  staApp,    \* the application: the call it is in, what it was last told
  lib,       \* the library: how far it is up, its link, its scan
  staRing,   \* events on their way; dropped when the ring was full
  staTask,   \* the dispatch task: the event in bridge; how many such tasks run
  staCalls

staVars == <<sta, staApp, lib, staRing, staTask, staCalls>>

StaStates == {"disconnected", "connecting", "connected"}
NoEvent == [kind |-> "none", channel |-> 0]

TypeSta ==
  /\ sta.state \in StaStates /\ sta.channel \in StaChannels \cup {0}
  /\ lib.link \in {"down", "trying", "up"} /\ lib.channel \in StaChannels \cup {0}
  /\ Len(staRing.events) <= STA_RING /\ staCalls \in 0 .. MAX_STA_CALLS
  /\ staApp.told \in StaStates \cup {"nothing"}

StaInit ==
  /\ sta = [state |-> "disconnected", channel |-> 0, bridge |-> FALSE, handler |-> FALSE]
  /\ staApp = [pc |-> "off", steps |-> <<>>, told |-> "nothing", read |-> "none"]
  /\ lib = [up |-> FALSE, link |-> "down", channel |-> 0, scanning |-> FALSE, found |-> 0]
  /\ staRing = [events |-> <<>>, dropped |-> 0]
  /\ staTask = [event |-> NoEvent, pc |-> "pop", tasks |-> 0]
  /\ staCalls = 0

StaCall(n) == staCalls < MAX_STA_CALLS /\ staCalls' = staCalls + n
AppAt(l) == staApp.pc = l

----------------------------------------------------------------------------
(* bring_up: the stores, the handler, then the library: init starts the    *)
(* dispatch task (once) and registers the supplicant.                      *)
BringUpSteps == <<"stores", "handler", "init", "mode", "start">>

BringUp ==
  /\ AppAt("off") /\ StaCall(1)
  /\ staApp' = [staApp EXCEPT !.pc = "up", !.steps = BringUpSteps]
  /\ UNCHANGED <<sta, lib, staRing, staTask>>

BringUpStep ==
  LET s == Head(staApp.steps)
      rest == Tail(staApp.steps)
      on == staApp' = [staApp EXCEPT !.steps = rest, !.pc = IF rest = <<>> THEN "idle" ELSE "up"]
      fails == staApp' = [staApp EXCEPT !.steps = <<>>, !.pc = "off"]
  IN  /\ AppAt("up")
      /\ \/ s = "stores" /\ on /\ UNCHANGED <<sta, lib, staTask>>
         \/ /\ s = "handler" /\ on
            /\ sta' = [sta EXCEPT !.bridge = TRUE, !.handler = TRUE]
            /\ UNCHANGED <<lib, staTask>>
         \/ /\ s = "init"
            /\ staTask' = [staTask EXCEPT !.tasks = 1]        \* STARTED
            /\ on \/ fails
            /\ UNCHANGED <<sta, lib>>
         \/ s = "mode" /\ (on \/ fails) /\ UNCHANGED <<sta, lib, staTask>>
         \/ /\ s = "start"
            /\ \/ on /\ lib' = [lib EXCEPT !.up = TRUE]
               \/ fails /\ UNCHANGED lib
            /\ UNCHANGED <<sta, staTask>>
      /\ UNCHANGED <<staRing, staCalls>>

----------------------------------------------------------------------------
(* connect: the request is checked and the configuration set, or refused;  *)
(* then STATE ...                                                          *)
Connect ==
  /\ AppAt("idle") /\ StaCall(1)
  /\ STA_POLITE => sta.state = "disconnected"
  /\ staApp' = [staApp EXCEPT !.pc = "connect"]
  /\ sta' = [sta EXCEPT !.state = "connecting"]
  /\ UNCHANGED <<lib, staRing, staTask>>

(* ... then the library, which refuses or starts; a refusal sets it back.  *)
ConnectCall ==
  /\ AppAt("connect")
  /\ \/ /\ lib.link = "down"
        /\ lib' = [lib EXCEPT !.link = "trying"]
        /\ staApp' = [staApp EXCEPT !.pc = "accepted"]
     \/ /\ staApp' = [staApp EXCEPT !.pc = "refused"]
        /\ UNCHANGED lib
  /\ UNCHANGED <<sta, staRing, staTask, staCalls>>

(* Mutant: Connecting is stored once the library has accepted.             *)
AfterConnectLate(rc) == IF rc = "refused" THEN "disconnected" ELSE "connecting"

AfterConnect(rc) == IF rc = "refused" THEN "disconnected" ELSE sta.state

ConnectReturns ==
  /\ staApp.pc \in {"accepted", "refused"}
  /\ sta' = [sta EXCEPT !.state = AfterConnect(staApp.pc)]
  /\ staApp' = [staApp EXCEPT !.pc = "idle"]
  /\ UNCHANGED <<lib, staRing, staTask, staCalls>>

(* The ring keeps an event, or counts it as dropped.                       *)
Posts(e) ==
  staRing' = IF Len(staRing.events) = STA_RING THEN [staRing EXCEPT !.dropped = @ + 1]
             ELSE [staRing EXCEPT !.events = Append(@, e)]
Event(k, c) == [kind |-> k, channel |-> c]

(* disconnect: the library takes its link down and says so.                *)
Disconnect ==
  /\ AppAt("idle") /\ StaCall(1)
  /\ IF lib.link = "down" THEN UNCHANGED <<lib, staRing>>
     ELSE /\ lib' = [lib EXCEPT !.link = "down", !.channel = 0]
          /\ Posts(Event("down", 0))
  /\ UNCHANGED <<sta, staApp, staTask>>

(* status: STATE, then CHANNEL.                                            *)
StatusState ==
  /\ AppAt("idle") /\ StaCall(1) /\ sta.state = "connected"
  /\ staApp' = [staApp EXCEPT !.pc = "status"]
  /\ UNCHANGED <<sta, lib, staRing, staTask>>
StatusChannel ==
  /\ AppAt("status")
  /\ staApp' = [staApp EXCEPT !.pc = "idle", !.read = IF sta.channel = 0 THEN "no channel" ELSE "channel"]
  /\ UNCHANGED <<sta, lib, staRing, staTask, staCalls>>

ScanStart ==
  /\ AppAt("idle") /\ StaCall(1)
  /\ \/ lib' = [lib EXCEPT !.scanning = TRUE]
     \/ UNCHANGED lib                          \* refused
  /\ UNCHANGED <<sta, staApp, staRing, staTask>>

(* scan_results: as many as fit; the library lets go of its copy.          *)
ScanResults ==
  /\ AppAt("idle") /\ StaCall(1) /\ lib.found > 0
  /\ lib' = [lib EXCEPT !.found = 0]
  /\ UNCHANGED <<sta, staApp, staRing, staTask>>

SetHandler(on) ==
  /\ AppAt("idle") /\ StaCall(1) /\ sta.handler # on
  /\ sta' = [sta EXCEPT !.handler = on, !.bridge = TRUE]
  /\ UNCHANGED <<staApp, lib, staRing, staTask>>

----------------------------------------------------------------------------
(* The library: an attempt ends, a link is lost, a scan ends.              *)
LibReports ==
  /\ lib.up
  /\ \/ /\ lib.link = "trying" /\ UNCHANGED staCalls
        /\ \/ \E c \in StaChannels : lib' = [lib EXCEPT !.link = "up", !.channel = c] /\ Posts(Event("up", c))
           \/ lib' = [lib EXCEPT !.link = "down"] /\ Posts(Event("down", 0))
     \/ /\ lib.link = "up" /\ StaCall(1)
        /\ lib' = [lib EXCEPT !.link = "down", !.channel = 0] /\ Posts(Event("down", 0))
     \/ /\ lib.scanning /\ UNCHANGED staCalls
        /\ \E n \in {0, STA_RECORDS, STA_RECORDS + 1} : lib' = [lib EXCEPT !.scanning = FALSE, !.found = n]
        /\ Posts(Event("scan", 0))
  /\ UNCHANGED <<sta, staApp, staTask>>

(* dispatch_task and bridge: STATE, then CHANNEL, then the application's   *)
(* handler.  Without bridge the event is gone.                             *)
Dispatch ==
  /\ staTask.tasks > 0 /\ staTask.pc = "pop" /\ staRing.events # <<>>
  /\ staRing' = [staRing EXCEPT !.events = Tail(@)]
  /\ IF sta.bridge
     THEN LET e == Head(staRing.events)
          IN  /\ staTask' = [staTask EXCEPT !.event = e, !.pc = IF e.kind = "up" THEN "channel" ELSE "tell"]
              /\ sta' = CASE e.kind = "up" -> [sta EXCEPT !.state = "connected"]
                          [] e.kind = "down" -> [sta EXCEPT !.state = "disconnected"]
                          [] OTHER -> sta
     ELSE UNCHANGED <<staTask, sta>>
  /\ UNCHANGED <<staApp, lib, staCalls>>

BridgeChannel ==
  /\ staTask.pc = "channel"
  /\ sta' = [sta EXCEPT !.channel = staTask.event.channel]
  /\ staTask' = [staTask EXCEPT !.pc = "tell"]
  /\ UNCHANGED <<staApp, lib, staRing, staCalls>>

BridgeTell ==
  /\ staTask.pc = "tell"
  /\ staTask' = [staTask EXCEPT !.pc = "pop", !.event = NoEvent]
  /\ staApp' = IF ~sta.handler THEN staApp
               ELSE CASE staTask.event.kind = "up" -> [staApp EXCEPT !.told = "connected"]
                      [] staTask.event.kind = "down" -> [staApp EXCEPT !.told = "disconnected"]
                      [] OTHER -> staApp
  /\ UNCHANGED <<sta, lib, staRing, staCalls>>

StaNext ==
  \/ BringUp \/ BringUpStep \/ Connect \/ ConnectCall \/ ConnectReturns \/ Disconnect
  \/ StatusState \/ StatusChannel \/ ScanStart \/ ScanResults \/ (\E on \in BOOLEAN : SetHandler(on))
  \/ LibReports \/ Dispatch \/ BridgeChannel \/ BridgeTell

StaSpec == StaInit /\ [][StaNext]_staVars

----------------------------------------------------------------------------
LinkState == CASE lib.link = "down" -> "disconnected" [] lib.link = "trying" -> "connecting"
               [] lib.link = "up" -> "connected"

(* hal/src/wifi.rs: status is "The current state and link details".  Once  *)
(* everything on its way has arrived, and nothing was dropped, status says *)
(* what the link is, with its channel, whatever overtook what; for an      *)
(* application that connects only when disconnected.                       *)
StatusAgrees ==
  /\ AppAt("idle") /\ staRing = [events |-> <<>>, dropped |-> 0] /\ staTask.pc = "pop"
  => /\ sta.state = LinkState
     /\ lib.link = "up" => sta.channel = lib.channel

(* "channel: the channel, if connected".  Not at the first connection:     *)
(* bridge stores the state first.                                          *)
StatusWhole == staApp.read # "no channel"

----------------------------------------------------------------------------
(* The parts of the radio share no state: adapter.rs, phy.rs and the       *)
(* station meet in the library alone.                                      *)
RadioSpec == ObjectsSpec /\ PhySpec /\ StaSpec

(* The Wi-Fi library's handles, the radio's clocks and calibration, and    *)
(* the connection state a program is shown agree with what was asked for   *)
(* (RadioObjects.tla, RadioPhy.tla, this module).                          *)
RadioRight == RadioObjectsRight /\ PhyRight /\ StatusAgrees
=============================================================================
