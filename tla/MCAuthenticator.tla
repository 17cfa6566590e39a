-------------------------- MODULE MCAuthenticator --------------------------
(* Authenticator with two handlers, one request per timestamp.             *)
EXTENDS Authenticator, TLC

CONSTANTS h1, h2, i1

TwoHandlers == {h1, h2}
OneId       == {i1}
SomeCreated == {1}

Symmetry == Permutations(TwoHandlers)
=============================================================================
