--------------------------- MODULE MCIdentitySync ---------------------------
(* A key two users may share and a key of one user alone.                    *)
EXTENDS IdentitySync

CONSTANTS u1, u2, k1, k2

TwoUsers == {u1, u2}
TwoKeys == {k1, k2}
SharedKey == {<<u1, k1>>, <<u2, k1>>, <<u1, k2>>}
==============================================================================
