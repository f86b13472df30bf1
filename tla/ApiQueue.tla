------------------------------ MODULE ApiQueue ------------------------------
(***************************************************************************)
(* Blocking send and recv of api/src/queue.rs on the kernel's waiter       *)
(* lists: try, and if that fails block, and try again when woken.          *)
(*                                                                         *)
(* The ring is SlotQueue with the claim of a slot and of a position merged *)
(* into one step and the messages left out: what matters here is that a    *)
(* reserved slot is not readable until it is published and not writable    *)
(* until it is released, and that the wake comes after both.               *)
(*                                                                         *)
(* Isrs are callers of send_isr; they never block.                         *)
(***************************************************************************)
EXTENDS Waiters

CONSTANTS
  Senders, Receivers,  \* the tasks, by what they do
  Isrs,                \* interrupt handlers that call send_isr
  Q,                   \* the queue's address
  N,                   \* its slots
  Modes,               \* timeouts used: "now", "finite", "forever"
  NoMode               \* a caller outside every call

ASSUME ApiQueueAssumption ==
  /\ Tasks = Senders \cup Receivers
  /\ Senders \cap Receivers = {}
  /\ Isrs \cap Tasks = {}
  /\ Q \in Objects
  /\ N \in Nat \ {0}
  /\ Modes \subseteq {"now", "finite", "forever"}
  /\ NoMode \notin Modes

VARIABLES
  slotState, head, tail,
  pc,        \* where each caller is
  at,        \* the position a caller has reserved
  mode,      \* its timeout
  expired,   \* its Deadline has passed
  timedOut   \* history: the tick ended its wait

apiVars == <<waiterVars, slotState, head, tail, pc, at, mode, expired, timedOut>>
ring == <<slotState, head, tail>>

Callers == Tasks \cup Isrs
Writers == Senders \cup Isrs
Side(x) == IF x \in Receivers THEN "recv" ELSE "send"
Positions == 0 .. 2 * N - 1
Count == (tail - head + 2 * N) % (2 * N)
SlotOf(p) == p % N
Inc(p) == (p + 1) % (2 * N)

TypeApi ==
  /\ WaitersTypeOK
  /\ slotState \in [0 .. N - 1 -> {"FREE", "WRITING", "READY", "READING"}]
  /\ head \in Positions /\ tail \in Positions
  /\ pc \in [Callers -> {"idle", "try", "copy", "wake", "block", "resume"}]
  /\ at \in [Callers -> Positions]
  /\ mode \in [Callers -> Modes \cup {NoMode}]
  /\ expired \in [Callers -> BOOLEAN]
  /\ timedOut \in [Tasks -> BOOLEAN]

ApiInit ==
  /\ \E T \in SUBSET (Objects \ {Q}) : Cardinality(T) <= MAX_QUEUES /\ WaitersInit(T)
  /\ slotState = [i \in 0 .. N - 1 |-> "FREE"]
  /\ head = 0 /\ tail = 0
  /\ pc = [x \in Callers |-> "idle"]
  /\ at = [x \in Callers |-> 0]
  /\ mode = [x \in Callers |-> NoMode]
  /\ expired = [x \in Callers |-> FALSE]
  /\ timedOut = [t \in Tasks |-> FALSE]

Goto(x, l) == pc' = [pc EXCEPT ![x] = l]

(* The call goes on at l, or returns: its locals are dead.                 *)
GoOn(x, l) == Goto(x, l) /\ UNCHANGED <<mode, expired>>
Finish(x) ==
  /\ Goto(x, "idle")
  /\ mode' = [mode EXCEPT ![x] = NoMode]
  /\ expired' = [expired EXCEPT ![x] = FALSE]

(* A caller executes unless the kernel has blocked it.                     *)
Runs(x) == x \in Isrs \/ tstate[x] = "Ready"

----------------------------------------------------------------------------
(* send and recv are entered with some timeout; send_isr never waits.      *)
Call(x, md) ==
  /\ pc[x] = "idle"
  /\ x \in Isrs => md = "now"
  /\ mode' = [mode EXCEPT ![x] = md]
  /\ Goto(x, "try")
  /\ UNCHANGED <<waiterVars, ring, at, expired, timedOut>>

CanReserve(x) ==
  IF x \in Writers
    THEN Count < N /\ slotState[SlotOf(tail)] = "FREE"
    ELSE Count > 0 /\ slotState[SlotOf(head)] = "READY"

(* try_send / try_recv reserves a slot and a position ...                  *)
TryOk(x) ==
  /\ pc[x] = "try"
  /\ CanReserve(x)
  /\ IF x \in Writers
       THEN /\ slotState' = [slotState EXCEPT ![SlotOf(tail)] = "WRITING"]
            /\ at' = [at EXCEPT ![x] = tail]
            /\ tail' = Inc(tail)
            /\ UNCHANGED head
       ELSE /\ slotState' = [slotState EXCEPT ![SlotOf(head)] = "READING"]
            /\ at' = [at EXCEPT ![x] = head]
            /\ head' = Inc(head)
            /\ UNCHANGED tail
  /\ Goto(x, "copy")
  /\ UNCHANGED <<waiterVars, mode, expired, timedOut>>

(* ... copies, and publishes or frees the slot.                            *)
Publish(x) ==
  /\ pc[x] = "copy"
  /\ slotState' = [slotState EXCEPT ![SlotOf(at[x])] =
                     IF x \in Writers THEN "READY" ELSE "FREE"]
  /\ at' = [at EXCEPT ![x] = 0]
  /\ Goto(x, "wake")
  /\ UNCHANGED <<waiterVars, head, tail, mode, expired, timedOut>>

(* A failed try returns at once with timeout 0.                            *)
TryFails(x) ==
  /\ pc[x] = "try"
  /\ ~CanReserve(x)
  /\ IF mode[x] = "now" THEN Finish(x) ELSE GoOn(x, "block")
  /\ UNCHANGED <<waiterVars, ring, at, timedOut>>

(* wake_receiver / wake_sender, and return Ok.                             *)
WakeOther(x) ==
  /\ pc[x] = "wake"
  /\ WakeOne(Opposite(Side(x)), Q)
  /\ Finish(x)
  /\ UNCHANGED <<timed, table, ring, at, timedOut>>

(* Mutant: a retry re-arms the whole timeout.                              *)
BlockRearms(t) ==
  /\ pc[t] = "block"
  /\ \/ /\ Enrol(t, Side(t), Q, mode[t] = "finite")
        /\ expired' = [expired EXCEPT ![t] = FALSE]
        /\ Goto(t, "resume")
        /\ UNCHANGED mode
     \/ CannotEnrol(t, Side(t), Q, mode[t] = "finite") /\ Finish(t)
  /\ UNCHANGED <<ring, at, timedOut>>

(* remaining_ms, then block_send / block_recv: no time left or no room in  *)
(* the list is a timeout, otherwise the task is listed and blocked.        *)
Block(t) ==
  /\ pc[t] = "block"
  /\ \/ expired[t] /\ Finish(t) /\ UNCHANGED waiterVars
     \/ /\ ~expired[t]
        /\ \/ Enrol(t, Side(t), Q, mode[t] = "finite") /\ GoOn(t, "resume")
           \/ CannotEnrol(t, Side(t), Q, mode[t] = "finite") /\ Finish(t)
  /\ UNCHANGED <<ring, at, timedOut>>

(* Resumed: still listed is a timeout, otherwise try again.                *)
ApiResume(t) ==
  /\ pc[t] = "resume"
  /\ Runs(t)
  /\ Delist(t, Side(t), Q)
  /\ IF Listed(t, Side(t), Q) THEN Finish(t) ELSE GoOn(t, "try")
  /\ timedOut' = [timedOut EXCEPT ![t] = FALSE]
  /\ UNCHANGED <<tstate, timed, table, ring, at>>

(* Time: a deadline passes, and a later tick ends the wait.                *)
DeadlinePasses(t) ==
  /\ pc[t] # "idle"
  /\ mode[t] = "finite"
  /\ ~expired[t]
  /\ expired' = [expired EXCEPT ![t] = TRUE]
  /\ UNCHANGED <<waiterVars, ring, pc, at, mode, timedOut>>

Tick(t) ==
  /\ expired[t]
  /\ TickWakes(t)
  /\ timedOut' = [timedOut EXCEPT ![t] = TRUE]
  /\ UNCHANGED <<ring, pc, at, mode, expired>>

Proceed(x) ==
  \/ TryOk(x) \/ TryFails(x) \/ Publish(x) \/ WakeOther(x)
  \/ x \in Tasks /\ (Block(x) \/ ApiResume(x))

ApiNext ==
  \/ \E x \in Callers, md \in Modes : Call(x, md)
  \/ \E x \in Callers : TryOk(x) \/ TryFails(x) \/ Publish(x) \/ WakeOther(x)
  \/ \E t \in Tasks : Block(t) \/ ApiResume(t) \/ DeadlinePasses(t) \/ Tick(t)

ApiSpec == ApiInit /\ [][ApiNext]_apiVars

(* A runnable caller eventually takes its next step, and time passes.      *)
(* Nobody has to call anything.                                            *)
Fairness ==
  /\ \A x \in Callers : WF_apiVars(Proceed(x))
  /\ \A t \in Tasks : WF_apiVars(DeadlinePasses(t)) /\ WF_apiVars(Tick(t))

FairSpec == ApiSpec /\ Fairness

----------------------------------------------------------------------------
(* The waiter list is the truth about who waits: a task is listed at most  *)
(* once, only for its own side, only while it is inside block_*; and a     *)
(* blocked task is always listed, so a wake can find it.                   *)
ListsMatchCallers ==
  \A t \in Tasks :
    /\ ~Listed(t, Opposite(Side(t)), Q)
    /\ Listed(t, Side(t), Q) => pc[t] = "resume"
    /\ tstate[t] # "Ready" => Listed(t, Side(t), Q)
    /\ Cardinality({i \in DOMAIN list[Side(t)][Q] : list[Side(t)][Q][i] = t}) <= 1

(* "the timed-out task still finds itself listed later": a wake never      *)
(* takes a timed-out task off the list, which would let it mistake its     *)
(* timeout for a delivery and leave the real waiter asleep.                *)
TimeoutIsNotADelivery ==
  \A t \in Tasks : pc[t] = "resume" /\ timedOut[t] => Listed(t, Side(t), Q)

(* A caller's place on a waiter list says what has happened to it: listed  *)
(* while it waits or after its timeout, taken off only by a wake for it.   *)
ListTellsOutcome == ListsMatchCallers /\ TimeoutIsNotADelivery

(* A call with a finite timeout returns, however often it is woken for a   *)
(* message another receiver gets first.                                    *)
FiniteCallsReturn ==
  \A t \in Tasks : (pc[t] # "idle" /\ mode[t] = "finite") ~> (pc[t] = "idle")

(* send_isr: "It used to be a bare `try_send`: the message landed in the   *)
(* ring and nothing woke the task waiting for it, so a driver task blocked *)
(* in `recv(&Q, u32::MAX)` stayed blocked forever with its data sitting in *)
(* the queue."  That must not happen any more.                             *)
NoStrandedReceiver ==
  \A t \in Receivers :
    ~<>[](/\ tstate[t] = "BlockedRecv"
          /\ slotState[SlotOf(head)] = "READY"
          /\ \A x \in Callers : pc[x] \in {"idle", "resume"})
=============================================================================
