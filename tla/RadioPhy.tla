------------------------------ MODULE RadioPhy ------------------------------
(***************************************************************************)
(* The radio's physical layer (radio/esp32/src/phy.rs): references to it   *)
(* and to the clocks both radios share, its registration once, and the     *)
(* critical section the blob enters and leaves with two calls (adapter.rs, *)
(* phy_enter_critical and phy_exit_critical).                              *)
(*                                                                         *)
(* Every call that takes the STATE lock, writes the clock register or      *)
(* calls into the blob is a step of its own.  A user enables before it     *)
(* disables; the blob also takes temporary references to the clocks.       *)
(***************************************************************************)
EXTENDS Naturals, Sequences, FiniteSets

CONSTANTS
  PhyUsers,        \* tasks that call
  PHY_CONCURRENT,  \* they may call at the same time
  PHY_RACE,        \* a task may be moved between reading its core's number and masking
  PhyCores,
  MAX_PHY_CALLS,   \* bound: calls begun
  MAX_PHY_NEST     \* bound: nesting of the critical section

ASSUME PhyAssumption ==
  /\ {PHY_CONCURRENT, PHY_RACE} \subseteq BOOLEAN /\ {MAX_PHY_CALLS, MAX_PHY_NEST} \subseteq Nat
  /\ 0 \in PhyCores

VARIABLES
  phy,        \* STATE: refs, common_clock_refs, registered
  phyClocks,  \* clocks that run: "common", "wifi"
  rf,         \* the blob's side: is the RF open, how often registered
  phyUser,    \* per user: its steps, what it holds, whether it must undo
  phyCalls,   \* calls begun
  phyDepth,   \* PHY_CS_DEPTH, per core
  phySaved,   \* PHY_CS, per core: were interrupts on
  phyMask,    \* per core: interrupts masked
  phyAt       \* per user: core, the index it has read, its own nesting

phyStateVars == <<phy, phyClocks, rf, phyUser, phyCalls>>
phyCsVars == <<phyDepth, phySaved, phyMask, phyAt>>
phyVars == <<phyStateVars, phyCsVars>>

NoUse == [steps |-> <<>>, enabled |-> 0, clocked |-> 0]

TypePhy ==
  /\ phy.refs \in Nat /\ phy.common \in Nat /\ phy.registered \in BOOLEAN
  /\ phyClocks \subseteq {"common", "wifi"} /\ rf.open \in BOOLEAN
  /\ phyCalls \in 0 .. MAX_PHY_CALLS
  /\ phyMask \in [PhyCores -> BOOLEAN] /\ phyAt \in [PhyUsers -> [core : PhyCores, pc : {"out", "read", "in"},
                                                                  seen : PhyCores, nest : 0 .. MAX_PHY_NEST]]

PhyInit ==
  /\ phy = [refs |-> 0, common |-> 0, registered |-> FALSE]
  /\ phyClocks = {} /\ rf = [open |-> FALSE, registrations |-> 0]
  /\ phyUser = [u \in PhyUsers |-> NoUse] /\ phyCalls = 0
  /\ phyDepth = [c \in PhyCores |-> 0] /\ phySaved = [c \in PhyCores |-> TRUE]
  /\ phyMask = [c \in PhyCores |-> FALSE]
  /\ phyAt = [u \in PhyUsers |-> [core |-> 0, pc |-> "out", seen |-> 0, nest |-> 0]]

----------------------------------------------------------------------------
(* The calls as their steps; an Err of register_once undoes the rest.      *)
EnableSteps == <<"common ref", "wifi on", "ref">>
UndoSteps == <<"unref", "wifi off", "common unref">>

(* Mutant: the common clocks are switched off at the first release (as     *)
(* the callback once did).                                                 *)
LastCommonRaw == TRUE

(* release_common_clock: the last reference. *)
LastCommon == phy.common = 1

PhyCall(u, steps) ==
  /\ phyUser[u].steps = <<>> /\ phyCalls < MAX_PHY_CALLS
  /\ PHY_CONCURRENT \/ \A v \in PhyUsers : phyUser[v].steps = <<>>
  /\ phyCalls' = phyCalls + 1
  /\ phyUser' = [phyUser EXCEPT ![u].steps = steps]
  /\ UNCHANGED <<phy, phyClocks, rf>>

PhyEnable(u) == PhyCall(u, EnableSteps)

(* disable: the reference goes with the call. *)
PhyDisable(u) ==
  /\ phyUser[u].enabled > 0 /\ phyUser[u].steps = <<>> /\ phyCalls < MAX_PHY_CALLS
  /\ PHY_CONCURRENT \/ \A v \in PhyUsers : phyUser[v].steps = <<>>
  /\ phyCalls' = phyCalls + 1
  /\ phyUser' = [phyUser EXCEPT ![u].steps = <<"drop">>, ![u].enabled = @ - 1]
  /\ UNCHANGED <<phy, phyClocks, rf>>

CommonClockEnable(u) == PhyCall(u, <<"common ref", "clocked">>)
CommonClockDisable(u) ==
  /\ phyUser[u].clocked > 0 /\ phyUser[u].steps = <<>> /\ phyCalls < MAX_PHY_CALLS
  /\ PHY_CONCURRENT \/ \A v \in PhyUsers : phyUser[v].steps = <<>>
  /\ phyCalls' = phyCalls + 1
  /\ phyUser' = [phyUser EXCEPT ![u].steps = <<"common unref">>, ![u].clocked = @ - 1]
  /\ UNCHANGED <<phy, phyClocks, rf>>

UserStep(u) ==
  LET s == Head(phyUser[u].steps)
      rest == Tail(phyUser[u].steps)
      Then(steps) == phyUser' = [phyUser EXCEPT ![u].steps = steps]
  IN  /\ phyUser[u].steps # <<>>
      /\ \/ /\ s = "common ref"          \* acquire_common_clock
            /\ phy' = [phy EXCEPT !.common = @ + 1]
            /\ Then((IF phy.common = 0 THEN <<"common on">> ELSE <<>>) \o rest)
            /\ UNCHANGED <<phyClocks, rf>>
         \/ /\ s = "common unref"        \* release_common_clock
            /\ phy' = [phy EXCEPT !.common = IF @ = 0 THEN 0 ELSE @ - 1]
            /\ Then((IF phy.common > 0 /\ LastCommon THEN <<"common off">> ELSE <<>>) \o rest)
            /\ UNCHANGED <<phyClocks, rf>>
         \/ /\ s \in {"common on", "wifi on"}
            /\ phyClocks' = phyClocks \cup {IF s = "wifi on" THEN "wifi" ELSE "common"}
            /\ Then(rest) /\ UNCHANGED <<phy, rf>>
         \/ /\ s \in {"common off", "wifi off"}
            /\ phyClocks' = phyClocks \ {IF s = "wifi off" THEN "wifi" ELSE "common"}
            /\ Then(rest) /\ UNCHANGED <<phy, rf>>
         \/ /\ s = "ref"
            /\ phy' = [phy EXCEPT !.refs = @ + 1]
            /\ Then(<<IF phy.registered THEN "wakeup" ELSE "register">>)
            /\ UNCHANGED <<phyClocks, rf>>
         \/ /\ s = "wakeup"              \* phy_wakeup_init
            /\ rf' = [rf EXCEPT !.open = TRUE]
            /\ Then(<<"enabled">>) /\ UNCHANGED <<phy, phyClocks>>
         \/ /\ s = "register"            \* register_chipv7_phy, with memory or without
            /\ \/ rf' = [open |-> TRUE, registrations |-> rf.registrations + 1] /\ Then(<<"registered", "enabled">>)
               \/ rf' = rf /\ Then(UndoSteps)
            /\ UNCHANGED <<phy, phyClocks>>
         \/ /\ s = "registered"
            /\ phy' = [phy EXCEPT !.registered = TRUE]
            /\ Then(rest) /\ UNCHANGED <<phyClocks, rf>>
         \/ /\ s = "unref"
            /\ phy' = [phy EXCEPT !.refs = IF @ = 0 THEN 0 ELSE @ - 1]
            /\ Then(rest) /\ UNCHANGED <<phyClocks, rf>>
         \/ /\ s = "drop"                \* disable
            /\ phy' = [phy EXCEPT !.refs = IF @ = 0 THEN 0 ELSE @ - 1]
            /\ Then(IF phy.refs <= 1 THEN <<"close", "wifi off", "common unref">> ELSE <<>>)
            /\ UNCHANGED <<phyClocks, rf>>
         \/ /\ s = "close"               \* phy_close_rf
            /\ rf' = [rf EXCEPT !.open = FALSE]
            /\ Then(rest) /\ UNCHANGED <<phy, phyClocks>>
         \/ /\ s \in {"enabled", "clocked"}
            /\ phyUser' = [phyUser EXCEPT ![u].steps = rest,
                             ![u].enabled = IF s = "enabled" THEN @ + 1 ELSE @,
                             ![u].clocked = IF s = "clocked" THEN @ + 1 ELSE @]
            /\ UNCHANGED <<phy, phyClocks, rf>>
      /\ UNCHANGED phyCalls

----------------------------------------------------------------------------
(* A user runs unless another on its core has the interrupts masked.       *)
PhyRuns(u) == phyMask[phyAt[u].core] => phyAt[u].nest > 0

(* phy_enter_critical: the core's number ...                               *)
ReadCore(u) ==
  /\ phyAt[u].pc # "read" /\ phyAt[u].nest < MAX_PHY_NEST /\ PhyRuns(u)
  /\ phyAt' = [phyAt EXCEPT ![u].pc = "read", ![u].seen = phyAt[u].core]
  /\ UNCHANGED <<phyDepth, phySaved, phyMask>>

(* ... then the mask, and under it the count and the saved state.          *)
PhyEnter(u) ==
  LET c == phyAt[u].core
      k == phyAt[u].seen
  IN  /\ phyAt[u].pc = "read" /\ PhyRuns(u)
      /\ phyMask' = [phyMask EXCEPT ![c] = TRUE]
      /\ phyDepth' = [phyDepth EXCEPT ![k] = @ + 1]
      /\ phySaved' = IF phyDepth[k] = 0 THEN [phySaved EXCEPT ![k] = ~phyMask[c]] ELSE phySaved
      /\ phyAt' = [phyAt EXCEPT ![u].pc = "in", ![u].nest = @ + 1]

(* phy_exit_critical: nothing without a matching enter on this core.       *)
PhyExit(u) ==
  LET c == phyAt[u].core
      d == phyDepth[c]
  IN  /\ phyAt[u].pc = "in" /\ PhyRuns(u)
      /\ phyDepth' = IF d = 0 THEN phyDepth ELSE [phyDepth EXCEPT ![c] = d - 1]
      /\ phyMask' = IF d = 1 THEN [phyMask EXCEPT ![c] = ~phySaved[c]] ELSE phyMask
      /\ phyAt' = [phyAt EXCEPT ![u].nest = @ - 1, ![u].pc = IF phyAt[u].nest = 1 THEN "out" ELSE "in"]
      /\ UNCHANGED phySaved

(* The scheduler moves a task that is preempted; the blob's own are kept   *)
(* on core 0.                                                              *)
Migrate(u, c) ==
  /\ (PHY_RACE \/ phyAt[u].pc # "read") /\ ~phyMask[phyAt[u].core] /\ ~phyMask[c] /\ c # phyAt[u].core
  /\ phyAt' = [phyAt EXCEPT ![u].core = c]
  /\ UNCHANGED <<phyDepth, phySaved, phyMask>>

PhyStateNext ==
  \E u \in PhyUsers : PhyEnable(u) \/ PhyDisable(u) \/ CommonClockEnable(u) \/ CommonClockDisable(u) \/ UserStep(u)
PhyCsNext ==
  \E u \in PhyUsers : ReadCore(u) \/ PhyEnter(u) \/ PhyExit(u) \/ \E c \in PhyCores : Migrate(u, c)
PhyNext ==
  \/ PhyStateNext /\ UNCHANGED phyCsVars
  \/ PhyCsNext /\ UNCHANGED phyStateVars

PhySpec == PhyInit /\ [][PhyNext]_phyVars

----------------------------------------------------------------------------
(* "Treating either callback as a raw bit operation lets the temporary     *)
(* disable shut the PHY off while its owner is still live": whoever holds  *)
(* the PHY has the RF open and its clocks running, whoever holds the       *)
(* common clocks has them.                                                 *)
PhyHeld ==
  \A u \in PhyUsers :
    (PHY_CONCURRENT \/ \A v \in PhyUsers : phyUser[v].steps = <<>>) =>
      /\ phyUser[u].enabled > 0 => rf.open /\ {"wifi", "common"} \subseteq phyClocks
      /\ phyUser[u].clocked > 0 => "common" \in phyClocks

(* phy_enter_critical: "Only the outermost entry's PS is the one worth     *)
(* restoring".  Interrupts are masked on the core of a user that is inside *)
(* and on no other.                                                        *)
PhyMasked ==
  /\ \A u \in PhyUsers : phyAt[u].nest > 0 => phyMask[phyAt[u].core]
  /\ \A c \in PhyCores : phyMask[c] => \E u \in PhyUsers : phyAt[u].core = c /\ phyAt[u].nest > 0

PhyRight == PhyHeld /\ PhyMasked

(* State: "two cores enabling at once must produce exactly one             *)
(* register_chipv7_phy".  Not so: the flag is read under the lock before   *)
(* the registration and set under it after.                                *)
RegisteredOnce == rf.registrations <= 1

(* common_clock_enable: "Every call must be paired with                    *)
(* common_clock_disable".  disable pairs only the last of several.         *)
ClocksBalanced ==
  (\A u \in PhyUsers : phyUser[u] = NoUse) => phy.common = 0 /\ phyClocks = {}
=============================================================================
