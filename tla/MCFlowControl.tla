--------------------------- MODULE MCFlowControl ---------------------------
(* FlowControl on small instances whose window is tight: one unit less of  *)
(* it breaks SizingAssumption. As in the defaults the window admits more   *)
(* small frames than the channel queues.                                   *)
EXTENDS FlowControl
=============================================================================
