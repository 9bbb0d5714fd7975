---------------------------- MODULE SodchanStream ----------------------------
(***************************************************************************)
(* What the byte layer of one direction promises: the receiver handles the *)
(* messages that were sent, each once and in their order, any number of    *)
(* them in one step; it may stop, it stops at the latest with a final      *)
(* message, and nothing is handled after that.                             *)
(***************************************************************************)
EXTENDS Naturals, Sequences

CONSTANTS
  Messages,    \* what can be sent
  Finals       \* the messages that end the stream

VARIABLES
  sent,        \* everything sent so far
  got,         \* everything handled so far
  stopped      \* the receiver handles nothing any more

stream == <<sent, got, stopped>>

Init == sent = <<>> /\ got = <<>> /\ stopped = FALSE

Send(m) ==
  /\ sent' = Append(sent, m)
  /\ UNCHANGED <<got, stopped>>

\* The receiver catches up with the first n messages.
Receive(n) ==
  /\ ~stopped
  /\ \A i \in 1 .. (n - 1) : sent[i] \notin Finals
  /\ got' = SubSeq(sent, 1, n)
  /\ stopped' \in BOOLEAN
  /\ sent[n] \in Finals => stopped'
  /\ UNCHANGED sent

\* It gives up on the next message.
Stop ==
  /\ ~stopped
  /\ stopped' = TRUE
  /\ UNCHANGED <<sent, got>>

Next ==
  \/ \E m \in Messages : Send(m)
  \/ \E n \in (Len(got) + 1) .. Len(sent) : Receive(n)
  \/ Stop

Spec == Init /\ [][Next]_stream

============================================================================
