-------------------------- MODULE MCMsgMonitorList --------------------------
(* Small instances of MsgMonitorList for TLC. *)
EXTENDS MsgMonitorList

CONSTANTS m1, m2, f1, f2, f3

Key(m, f, gui) == [msg |-> m, func |-> f, gui |-> gui]

\* Two callbacks of a message, and a Gui with callbacks of its own for it.
MCOnMessage ==
  [kind |-> "monitor", placements |-> {"first", "last"}, limits |-> {1, 2},
   keys |-> {Key(m1, f1, FALSE), Key(m1, f2, FALSE), Key(m1, f3, TRUE)}]

\* Three callbacks of one event, and one of another.
MCOnEvent ==
  [kind |-> "events", placements |-> {"first"}, limits |-> {1},
   keys |-> {Key(m1, f, FALSE) : f \in {f1, f2, f3}} \cup {Key(m2, f1, FALSE)}]

MCLists == {MCOnMessage, MCOnEvent}
============================================================================
