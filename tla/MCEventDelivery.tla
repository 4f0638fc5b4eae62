--------------------------- MODULE MCEventDelivery ---------------------------
(***************************************************************************)
(* An instance of EventDelivery for TLC: two lives among two ids, with no  *)
(* limit, a limit of two events, and no log at all.                        *)
(***************************************************************************)
EXTENDS EventDelivery

MCRetentions == {Unlimited, Bounded(2), Disabled}
MCOutcomes == {[held |-> TRUE, rotated |-> FALSE, fed |-> TRUE, changed |-> FALSE]}
=============================================================================
