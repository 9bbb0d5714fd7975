--------------------------- MODULE MCSodchanFraming ---------------------------
(* Values for the sequence-valued constants of SodchanFraming. *)
EXTENDS SodchanFraming

ShortHeader == <<1>>

\* A short PDU, one of the smaller record limit's size, one of the size of the
\* buffers, and a DISCONNECT.  Their bytes could be lengths.
SomePlains == {<<1>>, <<0, 2>>, <<1, 0, 2, 1>>, <<3>>}

============================================================================
