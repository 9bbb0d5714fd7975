-------------------------- MODULE SodchanEventQueue --------------------------
(***************************************************************************)
(* What the event queue promises its host, and what SodchanMux and         *)
(* SodchanHandshake take it for: a FIFO of a fixed capacity that refuses   *)
(* an event when it is full, and forgets everything at a reset.            *)
(***************************************************************************)
EXTENDS Naturals, Sequences

CONSTANTS
  Event,     \* what is queued
  Blank      \* no event

VARIABLES
  cap,       \* how many events fit
  queue,     \* the events waiting, oldest first
  shown,     \* the event the host was given last
  dropped    \* whether the event queued last was refused

queueVars == <<cap, queue, shown, dropped>>

Init ==
  /\ cap \in Nat \ {0}
  /\ queue = <<>>
  /\ shown = Blank
  /\ dropped = FALSE

Queue(ev) ==
  /\ Len(queue) < cap
  /\ queue' = Append(queue, ev)
  /\ dropped' = FALSE
  /\ UNCHANGED <<cap, shown>>

Refuse ==
  /\ Len(queue) = cap
  /\ dropped' = TRUE
  /\ UNCHANGED <<cap, queue, shown>>

Show ==
  /\ queue # <<>>
  /\ shown' = Head(queue)
  /\ queue' = Tail(queue)
  /\ UNCHANGED <<cap, dropped>>

Forget ==
  /\ queue' = <<>>
  /\ UNCHANGED <<cap, shown, dropped>>

Next ==
  \/ \E ev \in Event : Queue(ev)
  \/ Refuse
  \/ Show
  \/ Forget

Spec == Init /\ [][Next]_queueVars

============================================================================
