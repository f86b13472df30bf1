-------------------------------- MODULE Wpa --------------------------------
(***************************************************************************)
(* The WPA2 station: lib/wpa's four-way handshake, and the radio's glue    *)
(* around it (radio/esp32/src/supplicant.rs), whose callbacks the radio    *)
(* library makes from one task.                                            *)
(*                                                                         *)
(* Keys are terms: a PTK is the PMK and the two nonces, and a MIC is the   *)
(* PTK it was computed under.  The access point and the air between are    *)
(* external: a frame stays on the air, to be received late, again or       *)
(* never.  A frame that esp_wifi_internal_tx accepts leaves in order, and  *)
(* its transmission is reported (eapol_tx_done) before any answer to it;   *)
(* one it refuses is dropped, and the glue does not look.                  *)
(***************************************************************************)
EXTENDS Integers, Sequences

CONSTANTS Pmks, ApPmk,  \* what credentials derive to; the access point's
          MAX_ASSOC,    \* bound: associations (each has its own ANonce)
          MAX_SNONCE,   \* bound: message 1 frames answered
          MAX_RESENDS   \* bound: resends of message 3

ASSUME WpaAssumption ==
  ApPmk \in Pmks /\ MAX_ASSOC \in Nat /\ MAX_SNONCE \in Nat /\ MAX_RESENDS \in Nat

VARIABLES staged,   \* pmk, when pmk_ready: a set of at most one
          sup,      \* the Supplicant: a set of at most one
          pendingKeys, \* pending: a set of at most one TK
          snonces,  \* SNonces drawn
          txq,      \* frames handed to the radio
          air,      \* frames on the air, either way
          ap,       \* the access point: association, PTK once message 2 was good, done
          fourLost, \* history: the message 4 of the keys that are pending was refused
          installs  \* history: TKs installed, in order

wpaVars == <<staged, sup, pendingKeys, snonces, txq, air, ap, fourLost, installs>>

SupStates == {"Idle", "AwaitingThree", "Complete", "Failed"}
NoPtk == <<"none">>
ptk(pmk, anonce, snonce) == <<pmk, anonce, snonce>>

Frame(msg, nonce, replay, mic, gtk) ==
  [msg |-> msg, nonce |-> nonce, replay |-> replay, mic |-> mic, gtk |-> gtk]

WpaInit ==
  /\ staged = {} /\ sup = {} /\ pendingKeys = {} /\ snonces = 0
  /\ txq = <<>> /\ air = {} /\ fourLost = FALSE /\ installs = <<>>
  /\ ap = [assoc |-> 0, ptk |-> NoPtk, resends |-> 0, done |-> FALSE]

TypeWpa ==
  /\ staged \subseteq Pmks /\ snonces \in 0..MAX_SNONCE
  /\ \A s \in sup : s.state \in SupStates /\ s.pmk \in Pmks
  /\ \A f \in air : f.msg \in 1..4
  /\ ap.assoc \in 0..MAX_ASSOC /\ ap.done \in BOOLEAN /\ fourLost \in BOOLEAN

(***************************************************************************)
(* The station.                                                            *)
(***************************************************************************)

(* On the application's task, at any time. *)
stage_credentials(pmk) ==
  /\ staged' = {pmk}
  /\ UNCHANGED <<sup, pendingKeys, snonces, txq, air, ap, fourLost, installs>>

(* The library calls it for a new association; that installing the RSN
   element fails afterwards makes it return -1 and leaves the handshake. *)
sta_connect ==
  /\ staged # {} /\ ap.assoc < MAX_ASSOC
  /\ sup' = {[state |-> "Idle", pmk |-> p, anonce |-> 0, snonce |-> 0, replay |-> 0] : p \in staged}
  /\ pendingKeys' = {} /\ fourLost' = FALSE
  /\ ap' = [assoc |-> ap.assoc + 1, ptk |-> NoPtk, resends |-> 0, done |-> FALSE]
  /\ UNCHANGED <<staged, snonces, txq, air, installs>>

(* sta_disconnected, sta_deinit. *)
sta_disconnected ==
  /\ sup # {}
  /\ sup' = {} /\ pendingKeys' = {} /\ fourLost' = FALSE
  /\ UNCHANGED <<staged, snonces, txq, air, ap, installs>>

PtkOf(s) == ptk(s.pmk, s.anonce, s.snonce)

(* build_reply: message 2 carries the SNonce, message 4 no nonce. *)
build_reply(msg, s, replay) ==
  Frame(msg, IF msg = 2 THEN s.snonce ELSE 0, replay, PtkOf(s), "none")

(* The frame is queued, or refused: supplicant.rs drops the result. *)
esp_wifi_internal_tx(f, sent) == txq' = IF sent THEN Append(txq, f) ELSE txq

(* Mutant: the keys wait from message 2 on. *)
OnOneKeysWait(s, f) ==
  LET t == [s EXCEPT !.anonce = f.nonce, !.snonce = snonces + 1, !.replay = f.replay,
                     !.state = "AwaitingThree"]
  IN  /\ snonces < MAX_SNONCE /\ snonces' = snonces + 1
      /\ sup' = {t} /\ \E sent \in BOOLEAN : esp_wifi_internal_tx(build_reply(2, t, f.replay), sent)
      /\ pendingKeys' = {PtkOf(t)} /\ UNCHANGED fourLost

(* Message 1 is answered in every state, with a new SNonce. *)
on_message_one(s, f) ==
  LET t == [s EXCEPT !.anonce = f.nonce, !.snonce = snonces + 1, !.replay = f.replay,
                     !.state = "AwaitingThree"]
  IN  /\ snonces < MAX_SNONCE /\ snonces' = snonces + 1
      /\ sup' = {t} /\ \E sent \in BOOLEAN : esp_wifi_internal_tx(build_reply(2, t, f.replay), sent)
      /\ UNCHANGED <<pendingKeys, fourLost>>

(* Mutant: neither the MIC nor the nonce is looked at. *)
OnThreeNoMic(s, f) ==
  /\ UNCHANGED snonces
  /\ IF s.state # "AwaitingThree" THEN UNCHANGED <<sup, txq, pendingKeys, fourLost>>
     ELSE IF f.gtk = "none"
     THEN sup' = {[s EXCEPT !.state = "Failed"]} /\ UNCHANGED <<txq, pendingKeys, fourLost>>
     ELSE /\ sup' = {[s EXCEPT !.state = "Complete", !.replay = f.replay]}
          /\ \E sent \in BOOLEAN : esp_wifi_internal_tx(build_reply(4, s, f.replay), sent) /\ fourLost' = ~sent
          /\ pendingKeys' = {PtkOf(s)}

(* Message 3 counts while it is awaited; a MIC, an ANonce or key data that is
   wrong ends the handshake, else message 4 is sent and the keys wait, whether
   or not the radio took it. *)
on_message_three(s, f) ==
  /\ UNCHANGED snonces
  /\ IF s.state # "AwaitingThree" THEN UNCHANGED <<sup, txq, pendingKeys, fourLost>>
     ELSE IF f.mic # PtkOf(s) \/ f.nonce # s.anonce \/ f.gtk = "none"
     THEN sup' = {[s EXCEPT !.state = "Failed"]} /\ UNCHANGED <<txq, pendingKeys, fourLost>>
     ELSE /\ sup' = {[s EXCEPT !.state = "Complete", !.replay = f.replay]}
          /\ \E sent \in BOOLEAN : esp_wifi_internal_tx(build_reply(4, s, f.replay), sent) /\ fourLost' = ~sent
          /\ pendingKeys' = {PtkOf(s)}

(* sta_rx_eapol: on_eapol with a frame from the access point; it may come
   again (the frame stays on the air). *)
sta_rx_eapol(f) ==
  /\ \E s \in sup : (f.msg = 1 /\ on_message_one(s, f)) \/ (f.msg = 3 /\ on_message_three(s, f))
  /\ UNCHANGED <<staged, air, ap, installs>>

(* A frame leaves, and eapol_tx_done installs what is pending. *)
eapol_tx_done ==
  /\ txq # <<>>
  /\ txq' = Tail(txq) /\ air' = air \cup {Head(txq)}
  /\ pendingKeys' = {} /\ fourLost' = FALSE
  /\ installs' = IF pendingKeys = {} THEN installs ELSE Append(installs, CHOOSE k \in pendingKeys : TRUE)
  /\ UNCHANGED <<staged, sup, snonces, ap>>

(***************************************************************************)
(* The access point and the air (external).                                *)
(***************************************************************************)

Send(f) == air' = air \cup {f}

ApSendsOne ==
  /\ ap.assoc > 0 /\ ap.ptk = NoPtk
  /\ Send(Frame(1, ap.assoc, 1, NoPtk, "none"))
  /\ UNCHANGED <<staged, sup, pendingKeys, snonces, txq, ap, fourLost, installs>>

ApTakesTwo(f) ==
  /\ f.msg = 2 /\ ap.ptk = NoPtk /\ f.mic = ptk(ApPmk, ap.assoc, f.nonce)
  /\ ap' = [ap EXCEPT !.ptk = f.mic]
  /\ UNCHANGED <<staged, sup, pendingKeys, snonces, txq, air, fourLost, installs>>

(* Message 3, sent again until message 4 comes. *)
ApSendsThree(gtk) ==
  /\ ap.ptk # NoPtk /\ ~ap.done /\ ap.resends < MAX_RESENDS
  /\ Send(Frame(3, ap.assoc, 2 + ap.resends, ap.ptk, gtk))
  /\ ap' = [ap EXCEPT !.resends = @ + 1]
  /\ UNCHANGED <<staged, sup, pendingKeys, snonces, txq, fourLost, installs>>

ApTakesFour(f) ==
  /\ f.msg = 4 /\ f.mic = ap.ptk /\ ~ap.done
  /\ ap' = [ap EXCEPT !.done = TRUE]
  /\ UNCHANGED <<staged, sup, pendingKeys, snonces, txq, air, fourLost, installs>>

WpaNext ==
  \/ \E p \in Pmks : stage_credentials(p)
  \/ sta_connect \/ sta_disconnected \/ eapol_tx_done
  \/ \E f \in air : sta_rx_eapol(f) \/ ApTakesTwo(f) \/ ApTakesFour(f)
  \/ ApSendsOne \/ \E g \in {"gtk", "none"} : ApSendsThree(g)

WpaSpec == WpaInit /\ [][WpaNext]_wpaVars

(***************************************************************************)
(* Properties.                                                             *)
(***************************************************************************)

(* The keys the station installs are keys the access point derived, message
   by message: though it answers every message 1 anew, frames of earlier
   rounds and associations arrive late and the radio refuses some, it never installs a key the other
   side does not have, and no key twice, which would start its sequence
   counters again (lib/wpa/src/handshake.rs; supplicant.rs). *)
KeysAgree ==
  /\ \A i, j \in DOMAIN installs : installs[i] = installs[j] => i = j
  /\ \A i \in DOMAIN installs :
       installs[i][1] = ApPmk /\ (installs[i][2] = ap.assoc => installs[i] = ap.ptk)

(* "The keys install after message 4 has left": the frame whose transmission
   installs a key is message 4 of that very handshake, unless the radio refused
   that message (supplicant.rs: sta_rx_eapol, eapol_tx_done). *)
KeysAfterFour ==
  [][installs' # installs /\ ~fourLost =>
       Head(txq).msg = 4 /\ Head(txq).mic = installs'[Len(installs')]]_wpaVars

(* What eapol_tx_done's comment says: "only after message 4 is there anything
   to do, and that is exactly when `pending` is set" (supplicant.rs:292-294).
   Not an invariant: after a message 4 that was refused, the keys are still
   pending when the message 2 of the next round is reported. *)
PendingMeansFour == pendingKeys # {} /\ txq # <<>> => Head(txq).msg = 4
=============================================================================
