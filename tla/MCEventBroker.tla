--------------------------- MODULE MCEventBroker ---------------------------
(* EventBroker with two subscriptions and two long polls.                  *)
EXTENDS EventBroker, TLC

CONSTANTS t1, t2, p1, p2

TwoTokens   == {t1, t2}
TwoPullers  == {p1, p2}
FullDrain   == {2}
Short       == {1}

Symmetry == Permutations(TwoTokens) \cup Permutations(TwoPullers)

\* What NoLostWakeup assumes of the constants.
ASSUME OnePullerOrFullDrain
=============================================================================
