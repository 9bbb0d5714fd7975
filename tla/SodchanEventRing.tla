--------------------------- MODULE SodchanEventRing ---------------------------
(***************************************************************************)
(* The event ring of a context (src/src/sodchan.c): the array events, the  *)
(* index of the oldest event and the number of events.  The library queues *)
(* events inside feed_input and the host calls, the host takes them with   *)
(* sodchan_next_event, and a full ring drops what is queued.               *)
(***************************************************************************)
EXTENDS Integers, Sequences

CONSTANTS
  Event,         \* the events that are told apart
  Blank,         \* a cell that calloc or reset has cleared: EVENT_NONE
  QueueSizes,    \* the values of event_queue_size a host may configure
  DefaultSize    \* SODCHAN_DEFAULT_EVENT_QUEUE

ASSUME RingAssumption ==
  /\ QueueSizes \subseteq Nat
  /\ DefaultSize \in Nat \ {0}
  /\ Blank \notin Event

VARIABLES
  cap,      \* event_cap
  events,   \* events[0 .. event_cap - 1]
  head,     \* event_head
  count,    \* event_count
  shown,    \* the event next_event copied out last
  dropped   \* whether queue_event returned SODCHAN_ERR_FULL last time

vars == <<cap, events, head, count, shown, dropped>>

Cleared == [i \in 0 .. (cap - 1) |-> Blank]

----------------------------------------------------------------------------

\* sodchan_create: a size of 0 means the default.
Init ==
  /\ \E s \in QueueSizes : cap = IF s = 0 THEN DefaultSize ELSE s
  /\ events = Cleared
  /\ head = 0
  /\ count = 0
  /\ shown = Blank
  /\ dropped = FALSE

\* Seeded defect: the limit is tested after the event is written.
QueueEventLate(ev) ==
  LET idx == (head + count) % cap IN
  /\ count <= cap
  /\ events' = [events EXCEPT ![idx] = ev]
  /\ count' = IF count < cap THEN count + 1 ELSE count
  /\ dropped' = (count = cap)
  /\ UNCHANGED <<cap, head, shown>>

\* Seeded defect: room for one more than the ring has cells.
QueueEventOneTooMany(ev) ==
  LET idx == (head + count) % cap IN
  /\ count <= cap
  /\ events' = [events EXCEPT ![idx] = ev]
  /\ count' = count + 1
  /\ dropped' = FALSE
  /\ UNCHANGED <<cap, head, shown>>

\* sodchan_i_queue_event
QueueEvent(ev) ==
  LET idx == (head + count) % cap IN
  /\ count < cap
  /\ events' = [events EXCEPT ![idx] = ev]
  /\ count' = count + 1
  /\ dropped' = FALSE
  /\ UNCHANGED <<cap, head, shown>>

\* sodchan_i_queue_event on a full ring: its callers ignore SODCHAN_ERR_FULL.
QueueEventFull ==
  /\ count >= cap
  /\ dropped' = TRUE
  /\ UNCHANGED <<cap, events, head, count, shown>>

\* sodchan_next_event; it returns 0 and changes nothing when there is no event.
NextEvent ==
  /\ count > 0
  /\ shown' = events[head]
  /\ head' = (head + 1) % cap
  /\ count' = count - 1
  /\ UNCHANGED <<cap, events, dropped>>

\* sodchan_reset
Reset ==
  /\ head' = 0
  /\ count' = 0
  /\ events' = Cleared
  /\ UNCHANGED <<cap, shown, dropped>>

Next ==
  \/ \E ev \in Event : QueueEvent(ev)
  \/ QueueEventFull
  \/ NextEvent
  \/ Reset

Spec == Init /\ [][Next]_vars

----------------------------------------------------------------------------
(* Properties *)

\* The indices stay inside the array, whatever order of queueing, draining and
\* resetting: what keeps events[idx] and events[event_head] in bounds.
TypeOK ==
  /\ cap \in Nat \ {0}
  /\ events \in [0 .. (cap - 1) -> Event \cup {Blank}]
  /\ head \in 0 .. (cap - 1)
  /\ count \in 0 .. cap
  /\ shown \in Event \cup {Blank}
  /\ dropped \in BOOLEAN

\* n of the c cells, from cell h on.
Cells(cells, h, n, c) == [i \in 1 .. n |-> cells[(h + i - 1) % c]]

\* The events waiting, oldest first.
Contents == Cells(events, head, count, cap)

\* The ring is a bounded FIFO: no event is overwritten before the host has seen
\* it, none is seen twice or out of order, also across the wrap of the indices,
\* and an event is refused only when the host is cap events behind.
Queue == INSTANCE SodchanEventQueue WITH queue <- Contents

ImplementsQueue == Queue!Spec

============================================================================
