------------------------ MODULE SodchanEventRingProofs ------------------------
(***************************************************************************)
(* Proofs about the event ring for every capacity: its indices stay in     *)
(* bounds, and it implements the bounded FIFO of SodchanEventQueue.        *)
(***************************************************************************)
EXTENDS SodchanEventRing, TLAPS

----------------------------------------------------------------------------
(* Indices *)

\* An index computed with % cap is one of the array, for the ranges that head,
\* head + 1 and head + count can have: it is the number or the number less cap.
LEMMA Wrap ==
  ASSUME NEW c \in Nat \ {0}, NEW x \in 0 .. (2 * c - 1)
  PROVE  /\ x < c => x % c = x
         /\ x >= c => x % c = x - c
<1>1. CASE x < c
  BY <1>1, SMT
<1>2. CASE x >= c
  BY <1>2, SMTT(30)
<1>. QED
  BY <1>1, <1>2

\* Cells that are less than cap apart are different cells.
LEMMA Distinct ==
  ASSUME NEW c \in Nat \ {0}, NEW h \in 0 .. (c - 1),
         NEW i \in 0 .. (c - 1), NEW j \in 0 .. (c - 1), i # j
  PROVE  (h + i) % c # (h + j) % c
<1>1. h + i \in 0 .. (2 * c - 1) /\ h + j \in 0 .. (2 * c - 1)
  OBVIOUS
<1>2. \A x \in 0 .. (2 * c - 1) : x % c = x \/ x % c = x - c
  <2>. SUFFICES ASSUME NEW x \in 0 .. (2 * c - 1)
                PROVE  x % c = x \/ x % c = x - c
    OBVIOUS
  <2>1. x < c \/ x >= c
    OBVIOUS
  <2>. QED
    BY <2>1, Wrap
<1>3. \/ (h + i) % c = h + i
      \/ (h + i) % c = h + i - c
  BY <1>1, <1>2
<1>4. \/ (h + j) % c = h + j
      \/ (h + j) % c = h + j - c
  BY <1>1, <1>2
<1>. QED
  BY <1>3, <1>4

\* One step from the head, then i cells on, is i + 1 cells from the head.
LEMMA Shift ==
  ASSUME NEW c \in Nat \ {0}, NEW h \in 0 .. (c - 1), NEW i \in 0 .. (c - 2)
  PROVE  (((h + 1) % c) + i) % c = (h + 1 + i) % c
<1>1. h + 1 \in 0 .. (2 * c - 1) /\ h + 1 + i \in 0 .. (2 * c - 1)
  OBVIOUS
<1>2. CASE h + 1 < c
  BY <1>1, <1>2, Wrap
<1>3. CASE h + 1 >= c
  <2>1. (h + 1) % c = 0 /\ h + 1 = c
    BY <1>1, <1>3, Wrap
  <2>2. i % c = i
    BY Wrap
  <2>3. (c + i) % c = i
    BY <1>1, <2>1, Wrap
  <2>. QED
    BY <2>1, <2>2, <2>3
<1>. QED
  BY <1>2, <1>3

----------------------------------------------------------------------------
(* The type invariant *)

LEMMA TypeInit == Init => TypeOK
<1>. SUFFICES ASSUME Init
              PROVE  TypeOK
  OBVIOUS
<1>1. cap \in Nat \ {0}
  BY RingAssumption DEF Init
<1>2. /\ events = [i \in 0 .. (cap - 1) |-> Blank]
      /\ head = 0 /\ count = 0 /\ shown = Blank /\ dropped = FALSE
  BY DEF Init, Cleared
<1>3. head \in 0 .. (cap - 1) /\ count \in 0 .. cap
  BY <1>1, <1>2
<1>4. events \in [0 .. (cap - 1) -> Event \cup {Blank}]
  BY <1>2
<1>. QED
  BY <1>1, <1>2, <1>3, <1>4 DEF TypeOK

LEMMA TypeNext == TypeOK /\ [Next]_vars => TypeOK'
<1>. SUFFICES ASSUME TypeOK, [Next]_vars
              PROVE  TypeOK'
  OBVIOUS
<1>. USE DEF TypeOK
<1>1. ASSUME NEW ev \in Event, QueueEvent(ev)
      PROVE  TypeOK'
  <2>1. (head + count) % cap \in 0 .. (cap - 1)
    OBVIOUS
  <2>2. /\ events' = [events EXCEPT ![(head + count) % cap] = ev]
        /\ cap' = cap /\ head' = head /\ shown' = shown
        /\ count < cap /\ count' = count + 1 /\ dropped' = FALSE
    BY <1>1 DEF QueueEvent
  <2>3. events' \in [0 .. (cap - 1) -> Event \cup {Blank}]
    BY <2>1, <2>2
  <2>4. count' \in 0 .. cap
    BY <2>2
  <2>. QED
    BY <2>2, <2>3, <2>4
<1>2. CASE QueueEventFull
  BY <1>2 DEF QueueEventFull
<1>3. CASE NextEvent
  <2>1. (head + 1) % cap \in 0 .. (cap - 1)
    OBVIOUS
  <2>. QED
    BY <1>3, <2>1 DEF NextEvent
<1>4. CASE Reset
  BY <1>4 DEF Reset, Cleared
<1>5. CASE UNCHANGED vars
  BY <1>5 DEF vars
<1>. QED
  BY <1>1, <1>2, <1>3, <1>4, <1>5 DEF Next

\* The indices of sodchan_i_queue_event and sodchan_next_event are always inside
\* events[], for every size of the ring.
THEOREM RingTypeOK == Spec => []TypeOK
BY TypeInit, TypeNext, PTL DEF Spec

----------------------------------------------------------------------------
(* The refinement *)

\* A function on 1 .. n is a sequence of length n.
LEMMA SeqOfLength ==
  ASSUME NEW S, NEW n \in Nat
  PROVE  \A f \in [1 .. n -> S] : f \in Seq(S) /\ Len(f) = n
OBVIOUS

\* n cells read from cell h on are a sequence of length n.
LEMMA Window ==
  ASSUME NEW c \in Nat \ {0}, NEW h \in 0 .. (c - 1), NEW n \in 0 .. c,
         NEW cells \in [0 .. (c - 1) -> Event \cup {Blank}]
  PROVE  /\ Cells(cells, h, n, c) \in Seq(Event \cup {Blank})
         /\ Len(Cells(cells, h, n, c)) = n
<1>1. \A i \in 1 .. n : (h + i - 1) % c \in 0 .. (c - 1)
  OBVIOUS
<1>2. Cells(cells, h, n, c) \in [1 .. n -> Event \cup {Blank}]
  BY <1>1 DEF Cells
<1>3. n \in Nat
  OBVIOUS
<1>. QED
  BY <1>2, <1>3, SeqOfLength

\* The contents are a sequence of count events, before and after a step.
LEMMA ContentsSeq ==
  ASSUME TypeOK
  PROVE  Contents \in Seq(Event \cup {Blank}) /\ Len(Contents) = count
<1>1. /\ cap \in Nat \ {0} /\ head \in 0 .. (cap - 1) /\ count \in 0 .. cap
      /\ events \in [0 .. (cap - 1) -> Event \cup {Blank}]
  BY DEF TypeOK
<1>. QED
  BY <1>1, Window DEF Contents

LEMMA ContentsSeqPrimed ==
  ASSUME TypeOK'
  PROVE  Contents' \in Seq(Event \cup {Blank}) /\ Len(Contents') = count'
<1>1. /\ cap' \in Nat \ {0} /\ head' \in 0 .. (cap' - 1) /\ count' \in 0 .. cap'
      /\ events' \in [0 .. (cap' - 1) -> Event \cup {Blank}]
  BY DEF TypeOK
<1>. QED
  BY <1>1, Window DEF Contents

\* Queueing writes the cell behind the last one and no other.
LEMMA QueueStep ==
  ASSUME TypeOK, TypeOK', NEW ev \in Event, QueueEvent(ev)
  PROVE  Queue!Queue(ev)
<1>. DEFINE idx == (head + count) % cap
<1>1. /\ cap \in Nat \ {0} /\ head \in 0 .. (cap - 1) /\ count \in 0 .. (cap - 1)
      /\ cap' = cap /\ head' = head /\ count' = count + 1
      /\ events' = [events EXCEPT ![idx] = ev]
      /\ events \in [0 .. (cap - 1) -> Event \cup {Blank}]
  BY DEF QueueEvent, TypeOK
<1>2. idx \in 0 .. (cap - 1)
  BY <1>1
<1>3. \A i \in 1 .. count : Contents'[i] = Contents[i]
  <2>. SUFFICES ASSUME NEW i \in 1 .. count
                PROVE  Contents'[i] = Contents[i]
    OBVIOUS
  <2>. DEFINE k == (head + i - 1) % cap
  <2>1. i - 1 \in 0 .. (cap - 1) /\ count \in 0 .. (cap - 1) /\ i - 1 # count
    BY <1>1
  <2>2. (head + (i - 1)) % cap # (head + count) % cap
    BY <1>1, <2>1, Distinct
  <2>3. head + (i - 1) = head + i - 1
    BY <1>1
  <2>4. k # idx
    BY <2>2, <2>3
  <2>5. k \in 0 .. (cap - 1)
    BY <1>1, <2>1
  <2>6. events'[k] = events[k]
    BY <1>1, <2>4, <2>5
  <2>7. i \in 1 .. count'
    BY <1>1
  <2>. QED
    BY <1>1, <2>6, <2>7 DEF Contents, Cells
<1>4. Contents'[count + 1] = ev
  <2>1. count + 1 \in 1 .. count' /\ head + (count + 1) - 1 = head + count
    BY <1>1
  <2>2. events'[idx] = ev
    BY <1>1, <1>2
  <2>. QED
    BY <1>1, <2>1, <2>2 DEF Contents, Cells
<1>5. /\ Contents \in Seq(Event \cup {Blank}) /\ Len(Contents) = count
      /\ Contents' \in Seq(Event \cup {Blank}) /\ Len(Contents') = count + 1
  BY <1>1, ContentsSeq, ContentsSeqPrimed
<1>6. Contents' = Append(Contents, ev)
  BY <1>1, <1>3, <1>4, <1>5
<1>7. count < cap /\ dropped' = FALSE /\ shown' = shown
  BY DEF QueueEvent
<1>. QED
  BY <1>1, <1>5, <1>6, <1>7 DEF Queue!Queue

\* Draining moves the head to the second cell.
LEMMA ShowStep ==
  ASSUME TypeOK, TypeOK', NextEvent
  PROVE  Queue!Show
<1>1. /\ cap \in Nat \ {0} /\ head \in 0 .. (cap - 1) /\ count \in 1 .. cap
      /\ cap' = cap /\ head' = (head + 1) % cap /\ count' = count - 1
      /\ events' = events /\ shown' = events[head] /\ dropped' = dropped
  BY DEF NextEvent, TypeOK
<1>2. /\ Contents \in Seq(Event \cup {Blank}) /\ Len(Contents) = count
      /\ Contents' \in Seq(Event \cup {Blank}) /\ Len(Contents') = count - 1
  BY <1>1, ContentsSeq, ContentsSeqPrimed
<1>3. Contents[1] = events[head]
  <2>1. 1 \in 1 .. count /\ head + 1 - 1 = head
    BY <1>1
  <2>2. head % cap = head
    BY <1>1, Wrap
  <2>. QED
    BY <2>1, <2>2 DEF Contents, Cells
<1>4. \A i \in 1 .. (count - 1) : Contents'[i] = Contents[i + 1]
  <2>. SUFFICES ASSUME NEW i \in 1 .. (count - 1)
                PROVE  Contents'[i] = Contents[i + 1]
    OBVIOUS
  <2>1. i - 1 \in 0 .. (cap - 2) /\ i \in 1 .. count' /\ i + 1 \in 1 .. count
    BY <1>1
  <2>2. (head' + (i - 1)) % cap = (head + 1 + (i - 1)) % cap
    BY <1>1, <2>1, Shift
  <2>3. head' \in Nat
    BY DEF TypeOK
  <2>4. /\ head' + (i - 1) = head' + i - 1
        /\ head + 1 + (i - 1) = head + (i + 1) - 1
    BY <1>1, <2>3
  <2>5. (head' + i - 1) % cap = (head + (i + 1) - 1) % cap
    BY <2>2, <2>4
  <2>6. Contents'[i] = events[(head' + i - 1) % cap]
    BY <1>1, <2>1 DEF Contents, Cells
  <2>7. Contents[i + 1] = events[(head + (i + 1) - 1) % cap]
    BY <2>1 DEF Contents, Cells
  <2>. QED
    BY <2>5, <2>6, <2>7
<1>5. Contents # <<>> /\ Head(Contents) = events[head]
  BY <1>1, <1>2, <1>3
<1>6. Contents' = Tail(Contents)
  <2>1. Len(Tail(Contents)) = count - 1 /\ Tail(Contents) \in Seq(Event \cup {Blank})
    BY <1>1, <1>2, <1>5
  <2>2. \A i \in 1 .. (count - 1) : Tail(Contents)[i] = Contents[i + 1]
    BY <1>1, <1>2
  <2>. QED
    BY <1>1, <1>2, <1>4, <2>1, <2>2
<1>. QED
  BY <1>1, <1>5, <1>6 DEF Queue!Show

\* Every step of the ring is a step of the queue or leaves it as it was.
LEMMA RingStep == TypeOK /\ TypeOK' /\ [Next]_vars => [Queue!Next]_(Queue!queueVars)
<1>. SUFFICES ASSUME TypeOK, TypeOK', [Next]_vars
              PROVE  [Queue!Next]_(Queue!queueVars)
  OBVIOUS
<1>1. ASSUME NEW ev \in Event, QueueEvent(ev)
      PROVE  Queue!Next
  BY <1>1, QueueStep DEF Queue!Next
<1>2. CASE QueueEventFull
  <2>1. /\ cap' = cap /\ count' = count /\ head' = head /\ events' = events
        /\ shown' = shown /\ dropped' = TRUE /\ count = cap
    BY <1>2 DEF QueueEventFull, TypeOK
  <2>2. Contents' = Contents
    BY <2>1 DEF Contents, Cells
  <2>3. Len(Contents) = cap
    BY <2>1, ContentsSeq
  <2>. QED
    BY <2>1, <2>2, <2>3 DEF Queue!Next, Queue!Refuse
<1>3. CASE NextEvent
  BY <1>3, ShowStep DEF Queue!Next
<1>4. CASE Reset
  <2>1. count' = 0
    BY <1>4 DEF Reset
  <2>2. Contents' = <<>>
    BY <2>1 DEF Contents, Cells
  <2>. QED
    BY <1>4, <2>2 DEF Reset, Queue!Next, Queue!Forget
<1>5. CASE UNCHANGED vars
  BY <1>5 DEF vars, Contents, Cells, Queue!queueVars
<1>. QED
  BY <1>1, <1>2, <1>3, <1>4, <1>5 DEF Next

\* An empty ring is an empty queue.
LEMMA RingInit == Init => Queue!Init
<1>. SUFFICES ASSUME Init
              PROVE  Queue!Init
  OBVIOUS
<1>1. cap \in Nat \ {0}
  BY TypeInit DEF TypeOK
<1>2. Contents = <<>>
  BY DEF Init, Contents, Cells
<1>. QED
  BY <1>1, <1>2 DEF Init, Queue!Init

\* For every capacity and every order of queueing, draining and resetting, the
\* ring of sodchan_i_queue_event and sodchan_next_event is a bounded FIFO.
THEOREM RingImplementsQueue == Spec => ImplementsQueue
<1>1. Init => Queue!Init
  BY RingInit
<1>2. TypeOK /\ TypeOK' /\ [Next]_vars => [Queue!Next]_(Queue!queueVars)
  BY RingStep
<1>3. Spec => []TypeOK
  BY RingTypeOK
<1>. QED
  BY <1>1, <1>2, <1>3, PTL DEF Spec, ImplementsQueue, Queue!Spec

============================================================================
