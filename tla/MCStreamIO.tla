----------------------------- MODULE MCStreamIO -----------------------------
(* A process with pipes and one with a terminal.                           *)
EXTENDS StreamIO, TLC

CONSTANTS p1, p2

MCProcs == {p1, p2}
MCTerminals == {p2}
MCMaxIn == p1 :> 2 @@ p2 :> 0
=============================================================================
