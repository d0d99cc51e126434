------------------------------- MODULE MCAuth -------------------------------
EXTENDS Auth

CONSTANTS alice, bob, p1, p2

\* Two credentials with different passwords, so that parts can be mixed up.
TwoCredentials == {[user |-> alice, password |-> p1], [user |-> bob, password |-> p2]}
=============================================================================
