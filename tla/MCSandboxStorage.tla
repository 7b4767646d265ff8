-------------------------- MODULE MCSandboxStorage --------------------------
(***************************************************************************)
(* Three containers: two share an ephemeral storage, two a local one, and  *)
(* two have a volume of their own.                                         *)
(***************************************************************************)
EXTENDS SandboxStorage, TLC

CONSTANTS c1, c2, c3, shm, dir, vol1, vol3, sbvol

MCPoints == {shm, dir, vol1, vol3, sbvol}
MCDriver == (shm :> "ephemeral") @@ (dir :> "local") @@ (vol1 :> "plain")
                @@ (vol3 :> "plain") @@ (sbvol :> "plain")
MCRequest == (c1 :> <<shm>>) @@ (c2 :> <<vol1, dir, shm>>)
                @@ (c3 :> <<vol3, dir>>)
MCSandboxPoints == <<sbvol>>

\* The first container may be created, and its removal tried, twice.
MCCreates == (c1 :> 2) @@ (c2 :> 1) @@ (c3 :> 1)
MCRemovals == (c1 :> 2) @@ (c2 :> 1) @@ (c3 :> 1)

Threads == Permutations(Workers)
=============================================================================
