------------------------------ MODULE Waiters ------------------------------
(***************************************************************************)
(* The waiter table of kernel/src/queue.rs: per object, the tasks waiting  *)
(* to send and the tasks waiting to receive, in arrival order.  Every      *)
(* operation here runs under the scheduler lock and the QUEUE_WAITERS      *)
(* lock, so each is part of one step.                                      *)
(*                                                                         *)
(* The scheduler is reduced to what the table sees of it: a task is Ready  *)
(* (runnable or running) or blocked in one of the two queue states.        *)
(* Scheduler.tla shows that a blocked task does not execute.               *)
(***************************************************************************)
EXTENDS Naturals, Sequences, FiniteSets

CONSTANTS
  Tasks,        \* tasks that may block
  Objects,      \* addresses the lists are keyed by
  MAX_QUEUES,   \* entries of the table
  MAX_WAITERS   \* length of one list

ASSUME WaitersAssumption ==
  /\ IsFiniteSet(Tasks)
  /\ MAX_QUEUES \in Nat
  /\ MAX_WAITERS \in Nat \ {0}

VARIABLES
  tstate,   \* TCB.state
  timed,    \* TCB.sleep_until # 0: the tick may wake the task
  table,    \* objects that have an entry; entries are never given back
  list      \* list[side][o]: send_waiters and recv_waiters

waiterVars == <<tstate, timed, table, list>>

Sides == {"send", "recv"}
BlockedState(side) == IF side = "send" THEN "BlockedSend" ELSE "BlockedRecv"
Opposite(side) == IF side = "send" THEN "recv" ELSE "send"

WaitersTypeOK ==
  /\ tstate \in [Tasks -> {"Ready", "BlockedSend", "BlockedRecv"}]
  /\ timed \in [Tasks -> BOOLEAN]
  /\ table \subseteq Objects
  /\ list \in [Sides -> [Objects -> Seq(Tasks)]]

(* T: the objects that have an entry from earlier use.                     *)
WaitersInit(T) ==
  /\ tstate = [t \in Tasks |-> "Ready"]
  /\ timed = [t \in Tasks |-> FALSE]
  /\ table = T
  /\ list = [s \in Sides |-> [o \in Objects |-> <<>>]]

Members(s) == {s[i] : i \in DOMAIN s}
Listed(t, side, o) == t \in Members(list[side][o])

(* Drop the entry at i by shifting the later ones down.                    *)
DropAt(s, i) == [j \in 1 .. Len(s) - 1 |-> IF j < i THEN s[j] ELSE s[j + 1]]

(* remove: the first occurrence of t, if any.                              *)
Remove(s, t) ==
  IF t \in Members(s)
    THEN DropAt(s, CHOOSE i \in DOMAIN s : s[i] = t /\ \A j \in 1 .. i - 1 : s[j] # t)
    ELSE s

(* find_or_create and push: whether t can be listed.                       *)
HasRoom(side, o) ==
  /\ o \in table \/ Cardinality(table) < MAX_QUEUES
  /\ Len(list[side][o]) < MAX_WAITERS

(* Set the deadline, push, block_current.                                  *)
Enrol(t, side, o, finite) ==
  /\ HasRoom(side, o)
  /\ table' = table \cup {o}
  /\ list' = [list EXCEPT ![side][o] = Append(@, t)]
  /\ timed' = [timed EXCEPT ![t] = finite]
  /\ tstate' = [tstate EXCEPT ![t] = BlockedState(side)]

(* The deadline is written before the list turns out to be full.           *)
CannotEnrol(t, side, o, finite) ==
  /\ ~HasRoom(side, o)
  /\ timed' = [timed EXCEPT ![t] = finite]
  /\ UNCHANGED <<tstate, table, list>>

StillBlocked(side, o) ==
  {i \in DOMAIN list[side][o] : tstate[list[side][o][i]] = BlockedState(side)}

(* Mutant: the old pop, which took the head of the list whatever its       *)
(* state.                                                                  *)
WakeOneHead(side, o) ==
  IF list[side][o] = <<>>
    THEN UNCHANGED <<tstate, list>>
    ELSE /\ list' = [list EXCEPT ![side][o] = Tail(@)]
         /\ tstate' = [tstate EXCEPT ![Head(list[side][o])] = "Ready"]

(* pop_first_blocked and unblock: entries the tick has timed out are       *)
(* skipped in place.                                                       *)
WakeOne(side, o) ==
  IF StillBlocked(side, o) = {}
    THEN UNCHANGED <<tstate, list>>
    ELSE LET i == CHOOSE k \in StillBlocked(side, o) : \A j \in StillBlocked(side, o) : k <= j
         IN  /\ list' = [list EXCEPT ![side][o] = DropAt(@, i)]
             /\ tstate' = [tstate EXCEPT ![list[side][o][i]] = "Ready"]

(* on_tick on an expired waiter: Ready, and still listed.                  *)
TickWakes(t) ==
  /\ tstate[t] # "Ready"
  /\ timed[t]
  /\ tstate' = [tstate EXCEPT ![t] = "Ready"]
  /\ timed' = [timed EXCEPT ![t] = FALSE]
  /\ UNCHANGED <<table, list>>

(* The resume path: still listed means timed out, and delists.             *)
Delist(t, side, o) == list' = [list EXCEPT ![side][o] = Remove(@, t)]
=============================================================================
