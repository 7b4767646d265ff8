----------------------------- MODULE MountTable -----------------------------
(***************************************************************************)
(* The mount table of one mount namespace, as far as the agent's calls of  *)
(* mount(2), umount(2) and pivot_root(2) see it.  A path is a sequence of  *)
(* names; a table lists the mounts in the order they were made:            *)
(*   at         the mount point                                            *)
(*   fs, root   the file system, and the directory of it that is mounted   *)
(*   ro         whether the mount is read-only                             *)
(***************************************************************************)
EXTENDS Integers, SequencesExt, FiniteSetsExt

MountOf(fs, at, ro) == [at |-> at, fs |-> fs, root |-> <<>>, ro |-> ro]

\* The mount a path leads to: a later mount hides the earlier ones below it.
Covering(table, path) ==
  table[Max({i \in DOMAIN table : IsPrefix(table[i].at, path)})]

Below(prefix, path) == SubSeq(path, Len(prefix) + 1, Len(path))

\* What is found at a path: a file system and a path in it.
Seen(table, path) ==
  LET m == Covering(table, path) IN <<m.fs, m.root \o Below(m.at, path)>>

ReadOnly(table, path) == Covering(table, path).ro

\* The mounts of a list that are in a set come along, from one path to another.
AddOne(S, from, to, t, m) ==
  IF m \in S THEN Append(t, [m EXCEPT !.at = to \o Below(from, m.at)]) ELSE t

AddAll(S, from, to, t, ms) == FoldLeft(LAMBDA u, m : AddOne(S, from, to, u, m), t, ms)

\* MS_BIND; the new mount has the flags of the one it is a part of.  With
\* MS_REC the mounts below that can be reached come along.
Reached(table, from) ==
  {m \in ToSet(table) : IsStrictPrefix(from, m.at) /\ Covering(table, m.at) = m}

Bind(table, from, to, rec) ==
  LET seen  == Seen(table, from)
      bound == Append(table, [at |-> to, fs |-> seen[1], root |-> seen[2],
                              ro |-> ReadOnly(table, from)])
  IN  IF rec THEN AddAll(Reached(table, from), from, to, bound, table) ELSE bound

\* MS_REMOUNT of the mount at a path.
Remount(table, path, ro) ==
  LET i == Max({j \in DOMAIN table : table[j].at = path})
  IN  [table EXCEPT ![i].ro = ro]

IsMountPoint(table, path) == Covering(table, path).at = path

\* pivot_root and the unmounting of the old root, or MS_MOVE and chroot:
\* what is mounted below the new root is all that can be reached.
Pivot(table, root) ==
  LET top == Max({i \in DOMAIN table : table[i].at = root})
  IN  AddAll({m \in ToSet(table) : IsPrefix(root, m.at)}, root, <<>>,
             <<>>, SubSeq(table, top, Len(table)))
=============================================================================
