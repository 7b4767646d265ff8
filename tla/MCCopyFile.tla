----------------------------- MODULE MCCopyFile -----------------------------
(* Two files copied at the same time, and one that does not exist.         *)
EXTENDS CopyFile, TLC

CONSTANTS a, b, new, ta, tb, tnew

MCFiles == {a, b, new}
MCTmp == a :> ta @@ b :> tb @@ new :> tnew
MCSizes == a :> {2, 3} @@ b :> {2} @@ new :> {1}
MCExisting == {a, b}
=============================================================================
