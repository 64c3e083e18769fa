--------------------------- MODULE MCChannelPair ---------------------------
(***************************************************************************)
(* ChannelPair's uses for TLC: one sender with every disturbance, two      *)
(* senders that confirm their closes, and the undisturbed uses that the    *)
(* documentation speaks of.                                                *)
(***************************************************************************)
EXTENDS ChannelPair

Plain == [confirmed |-> FALSE, timeouts |-> FALSE, leavers |-> {},
          frames |-> [a |-> 0, b |-> 1], refusals |-> 0]

Disturbed == [Plain EXCEPT !.timeouts = TRUE, !.leavers = {"a"},
                           !.refusals = 1]

Orderly == [Plain EXCEPT !.confirmed = TRUE, !.frames = [a |-> 2, b |-> 2]]

MCUses == {Disturbed, Orderly}

PlainUses == {Plain}

RefusedUses == {[Plain EXCEPT !.refusals = 1]}
=============================================================================
