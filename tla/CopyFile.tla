------------------------------ MODULE CopyFile ------------------------------
(***************************************************************************)
(* CopyFile: do_copy_file (src/src/grpc.rs), which writes a chunk of a     *)
(* file to a temporary file next to it and moves that to its place when    *)
(* its size is the one expected.                                           *)
(*                                                                         *)
(* Requests take no lock: each is a thread of its own whose system calls   *)
(* are steps.  The runtime copies several files at a time, the chunks of   *)
(* one in order, each when the one before has been answered.  When a       *)
(* request fails it starts again from the first chunk, with what the file  *)
(* contains by then: file_size is a field of each request.                 *)
(*                                                                         *)
(* A chunk is <<file, attempt, index>> and a file a sequence of chunks,    *)
(* Hole where nothing was written and Torn where a write has failed.       *)
(***************************************************************************)
EXTENDS Naturals, Sequences

CONSTANTS
    Files,          \* the destinations
    Tmp,            \* destination -> its name with the extension "tmp"
    Sizes,          \* destination -> the sizes it may be copied with, in chunks
    Existing,       \* the destinations that exist; canonicalize needs it
    MaxAttempts     \* bound on the attempts to copy a file

ASSUME SizesAssumption == \A f \in Files : Sizes[f] \subseteq Nat \ {0}

\* No two of the files differ in nothing but the extension.
ASSUME TmpAssumption == \A f, g \in Files : f # g => Tmp[f] # Tmp[g]

VARIABLES
    dest,        \* destination -> its content
    tmp,         \* temporary file -> its content, Absent if there is none
    pc,          \* destination -> control of the request for it, if any
    attempt,     \* destination -> number of the attempt to copy it
    size,        \* destination -> file_size of the requests of that attempt
    chunk,       \* destination -> index of the chunk to be sent
    left         \* destination -> size of the temporary file it began with

vars == <<dest, tmp, pc, attempt, size, chunk, left>>

Absent == <<>>
Hole == <<"hole", 0, 0>>
Torn == <<"torn", 0, 0>>
Chunk(f, i) == <<f, attempt[f], i>>
Whole(f) == [i \in 1..size[f] |-> Chunk(f, i)]
Before(f) == << <<f, 0, 1>> >>

Init ==
    /\ dest = [f \in Files |-> IF f \in Existing THEN Before(f) ELSE Absent]
    /\ tmp = [t \in {Tmp[f] : f \in Files} |-> Absent]
    /\ pc = [f \in Files |-> "ready"]
    /\ attempt = [f \in Files |-> 1]
    /\ size \in [Files -> UNION {Sizes[f] : f \in Files}]
    /\ \A f \in Files : size[f] \in Sizes[f]
    /\ chunk = [f \in Files |-> 1]
    /\ left = [f \in Files |-> 0]

-----------------------------------------------------------------------------
Goto(f, l) == pc' = [pc EXCEPT ![f] = l]

\* Success: the next chunk, if there is one.
Answered(f) ==
    IF chunk[f] = size[f] THEN Goto(f, "copied") /\ UNCHANGED chunk
    ELSE Goto(f, "ready") /\ chunk' = [chunk EXCEPT ![f] = @ + 1]

\* The error is answered.
Fails(f) == Goto(f, "failed") /\ UNCHANGED <<dest, attempt, size, chunk, left>>

\* canonicalize, create_dir_all and the chmod of the directory.  The chmod is
\* given a path without its final NUL, so what it changes, if anything, is
\* open.
Begin(f) ==
    /\ pc[f] = "ready"
    /\ f \in Existing
    /\ Goto(f, "open")
    /\ UNCHANGED <<dest, tmp, attempt, size, chunk, left>>
\* These and the opening may fail; they always do if there is no file yet.
BeginFails(f) == pc[f] \in {"ready", "open"} /\ Fails(f) /\ UNCHANGED tmp

\* Created if need be, never truncated.
Open(f) ==
    /\ pc[f] = "open"
    /\ Goto(f, "write")
    /\ UNCHANGED <<dest, tmp, attempt, size, chunk, left>>

\* Mutation: the chunk goes to the end of the file.
AppendChunk(f) ==
    /\ pc[f] = "write"
    /\ Goto(f, "stat")
    /\ tmp' = [tmp EXCEPT ![Tmp[f]] = Append(@, Chunk(f, chunk[f]))]
    /\ UNCHANGED <<dest, attempt, size, chunk, left>>

\* write_all_at the offset of chunk n; what is not there before it is a hole.
Written(s, n, x) ==
    [i \in 1..(IF Len(s) < n THEN n ELSE Len(s)) |->
        IF i = n THEN x ELSE IF i <= Len(s) THEN s[i] ELSE Hole]

Write(f) ==
    /\ pc[f] = "write"
    /\ Goto(f, "stat")
    /\ tmp' = [tmp EXCEPT ![Tmp[f]] = Written(@, chunk[f], Chunk(f, chunk[f]))]
    /\ UNCHANGED <<dest, attempt, size, chunk, left>>

\* Some of the chunk has been written, or none of it.
WriteFails(f) ==
    /\ pc[f] = "write"
    /\ Fails(f)
    /\ tmp' \in {tmp, [tmp EXCEPT ![Tmp[f]] = Written(@, chunk[f], Torn)]}

StatFails(f) == pc[f] = "stat" /\ Fails(f) /\ UNCHANGED tmp

\* Less or more than the size expected: that is all for this chunk.
StatOther(f) ==
    /\ pc[f] = "stat"
    /\ Len(tmp[Tmp[f]]) # size[f]
    /\ Answered(f)
    /\ UNCHANGED <<dest, tmp, attempt, size, left>>
StatComplete(f) ==
    /\ pc[f] = "stat"
    /\ Len(tmp[Tmp[f]]) = size[f]
    /\ Goto(f, "rename")
    /\ UNCHANGED <<dest, tmp, attempt, size, chunk, left>>

\* chmod, chown and rename of the temporary file.
Rename(f) ==
    /\ pc[f] = "rename"
    /\ dest' = [dest EXCEPT ![f] = tmp[Tmp[f]]]
    /\ tmp' = [tmp EXCEPT ![Tmp[f]] = Absent]
    /\ Answered(f)
    /\ UNCHANGED <<attempt, size, left>>
RenameFails(f) == pc[f] = "rename" /\ Fails(f) /\ UNCHANGED tmp

\* The runtime tries again, or copies the file once more.
Retry(f) ==
    /\ pc[f] = "failed" \/ pc[f] = "copied"
    /\ attempt[f] < MaxAttempts
    /\ attempt' = [attempt EXCEPT ![f] = @ + 1]
    /\ \E n \in Sizes[f] : size' = [size EXCEPT ![f] = n]
    /\ chunk' = [chunk EXCEPT ![f] = 1]
    /\ left' = [left EXCEPT ![f] = Len(tmp[Tmp[f]])]
    /\ Goto(f, "ready")
    /\ UNCHANGED <<dest, tmp>>

Next == \E f \in Files :
    \/ Begin(f) \/ BeginFails(f) \/ Open(f) \/ Write(f) \/ WriteFails(f)
    \/ StatFails(f) \/ StatOther(f) \/ StatComplete(f)
    \/ Rename(f) \/ RenameFails(f) \/ Retry(f)

Spec == Init /\ [][Next]_vars

-----------------------------------------------------------------------------
(***************************************************************************)
(* An attempt that began with a temporary file shorter than its content    *)
(* puts nothing but the whole of that content in the place of the          *)
(* destination, and has done so when its last chunk is answered: though    *)
(* what earlier attempts left behind, with other contents of other sizes,  *)
(* is written over and not truncated, and though any call may fail.        *)
(*                                                                         *)
(* Of the others nothing is promised.  A temporary file that has the size  *)
(* already, left by a longer attempt that failed or by a rename that did,  *)
(* is complete with the first chunk, and a mixture is moved; a longer one  *)
(* is never complete, and success is answered with the old file in place.  *)
(***************************************************************************)
CopiesWhole ==
    [][\A f \in Files : left[f] < size[f] =>
          /\ dest'[f] # dest[f] => dest'[f] = Whole(f)
          /\ pc[f] # "copied" /\ pc'[f] = "copied" => dest'[f] = Whole(f)]_vars
=============================================================================
