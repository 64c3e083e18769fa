--------------------------- MODULE MCChannelTable ---------------------------
(* The table on a small instance: two local ids and two ids of the peer.   *)
EXTENDS ChannelTable
=============================================================================
