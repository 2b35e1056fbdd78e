---------------------------- MODULE MCBroadcasts ----------------------------
EXTENDS Broadcasts, TLC

CONSTANTS b1, b2, r1, r2

\* The dispatched broadcast has two recipients, the inline one has one.
MCAudience == b1 :> {r1, r2} @@ b2 :> {r1}
=============================================================================
