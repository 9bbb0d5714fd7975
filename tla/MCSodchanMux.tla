---------------------------- MODULE MCSodchanMux ----------------------------
(* Values for the function-valued constants of SodchanMux. *)
EXTENDS SodchanMuxProps

\* One end's value and the other's.
Both(c, s) == [e \in Ends |-> IF e = Client THEN c ELSE s]

AllAllowed    == Both(Names, Names)
ServerForbids == Both(Names, Names \ {"exec"})

OneChannel  == Both(1, 1)
ServerOne   == Both(2, 1)

SmallWindows == Both(1, 2)
UnitPackets  == Both(2, 1)

ClientTwoServerOne == Both(2, 1)
ClientOpensOne == Both(1, 0)

\* Which calls the two hosts make.
FlowCalls    == Both({"open", "send", "window"}, {"accept", "send", "window"})
TableCalls   == Both({"open", "accept", "reject", "close"},
                     {"open", "accept", "reject", "close"})
LiveCalls    == Both({"open", "send", "disconnect"}, {"accept", "reject", "close", "disconnect"})
DrainCalls   == Both({"open"}, {"accept", "disconnect"})
EventCalls   == Both({"open", "send", "eof", "close"}, {"accept", "ping", "disconnect"})

============================================================================
