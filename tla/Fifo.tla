-------------------------------- MODULE Fifo --------------------------------
(***************************************************************************)
(* What api::queue::Queue promises, without slots or positions: a bounded  *)
(* FIFO.  A message is in the queue once, is taken once, by one consumer,  *)
(* in the order the sends took effect.                                     *)
(***************************************************************************)
EXTENDS Naturals, Sequences

CONSTANTS Messages, Consumers, Capacity, Nothing

VARIABLES contents,  \* the messages sent and not yet taken
          taken      \* what each consumer has taken and not yet returned

fifoVars == <<contents, taken>>

FifoInit ==
  /\ contents = <<>>
  /\ taken = [c \in Consumers |-> Nothing]

Send(m) ==
  /\ Len(contents) < Capacity
  /\ contents' = Append(contents, m)
  /\ UNCHANGED taken

Take(c) ==
  /\ contents # <<>>
  /\ taken[c] = Nothing
  /\ taken' = [taken EXCEPT ![c] = Head(contents)]
  /\ contents' = Tail(contents)

Return(c) ==
  /\ taken[c] # Nothing
  /\ taken' = [taken EXCEPT ![c] = Nothing]
  /\ UNCHANGED contents

FifoNext ==
  \/ \E m \in Messages : Send(m)
  \/ \E c \in Consumers : Take(c) \/ Return(c)

FifoSpec == FifoInit /\ [][FifoNext]_fifoVars
=============================================================================
