----------------------------- MODULE MCReferrals ----------------------------
(***************************************************************************)
(* Instances of Referrals for TLC: every referee was referred by the same  *)
(* user, or by two users in turn.                                          *)
(***************************************************************************)
EXTENDS Referrals, TLC

CONSTANTS u1, u2, r1, r2, r3, h1, h2, q1, q2, q3

OneReferrer   == [r \in Referee |-> u1]
TwoReferrers  == [r \in Referee |-> IF r = r1 THEN u1 ELSE u2]
Hooks         == Permutations({h1, h2})
=============================================================================
