----------------------------- MODULE MCRequests -----------------------------
(***************************************************************************)
(* Requests for TLC: two requests at a time, one account with two codes,   *)
(* two users of KYC and of the reports, every report, two transactions     *)
(* (named as the requests, for the symmetry).                              *)
(***************************************************************************)
EXTENDS Requests, TLC

CONSTANTS u1, u2, b1, b2, b3, btc, sol

\* A network whose sweeps say what they did, and a token whose sweeps say
\* nothing, each with addresses of its own; both ignore a webhook that fails.
MCFamily     == [n \in Network |-> n]
MCLenient    == {w \in Disposable : w[1] = sol}
MCSwallowing == Disposable

\* b1 is alone under its excerpt, b2 and b3 share one.
MCExcerptOf == [b \in Bvn |-> IF b = b1 THEN 1 ELSE 2]
MCMatches   == {<<u1, b1>>, <<u2, b1>>, <<u1, b2>>, <<u2, b3>>}

MCCountry == [u \in User |-> IF u = u1 THEN "NG" ELSE "Unknown"]
MCAsset   == {<<"usdt", "bsc">>, <<"usdt", "UNKNOWN">>}
MCLength  == [today |-> 1, week |-> 2]

Symmetry == Permutations(Slot)
=============================================================================
