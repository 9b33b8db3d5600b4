----------------------------- MODULE MCExtHash -----------------------------
(***************************************************************************)
(* Small instances of ExtHash for TLC.                                     *)
(***************************************************************************)
EXTENDS ExtHash, TLC

CONSTANTS k1, k2, k3, k4

\* The keys k1 and k2 agree on their two low bits, so that to tell them apart
\* takes two doublings; k3 and k4 go to the other half and differ in the second
\* bit, so that their split needs none when k1 and k2 came first.
MCHash == k1 :> 0 @@ k2 :> 4 @@ k3 :> 3 @@ k4 :> 1
=============================================================================
