------------------------------ MODULE DirSync ------------------------------
(***************************************************************************)
(* The directory synchroniser (Assignment 9, sync.c): a pass that copies   *)
(* what the destination lacks or has different and removes what the source *)
(* lacks, and a pass that sets times and permissions.  The source does not *)
(* change while it runs.  Any system call on an item may fail; the program *)
(* then goes on with the next item.  It is run twice, the second time      *)
(* without failures.  Reports, access times and items that are neither a   *)
(* directory nor a regular file are left out.                              *)
(***************************************************************************)
EXTENDS FiniteSets, Naturals, Sequences, SequencesExt

CONSTANTS
    Name,         \* names of entries
    Path,         \* paths below and with the root <<>>, as sequences of names
    Size,         \* the size of each content of a file
    Cut,          \* the content of a file whose copy was broken off
    Umask,        \* what the umask makes of a mode
    Now, Later,   \* the times of the two runs, later than those in the source
    SrcTrees, DstTrees,
    MaxFaults     \* bound: the items on which calls fail

ASSUME PathAssumption ==
    /\ Path \subseteq Seq(Name)
    /\ <<>> \in Path /\ \A p \in Path \ {<<>>} : Front(p) \in Path

ASSUME CutAssumption ==
    /\ Cut \in DOMAIN Size
    /\ \A d \in DOMAIN Size \ {Cut} : Size[Cut] < Size[d]

ASSUME UmaskAssumption == \A m \in DOMAIN Umask : Umask[m] \in DOMAIN Umask

ASSUME NowAssumption ==
    /\ Now \in Nat /\ Later \in Nat /\ Now < Later
    /\ \A t \in SrcTrees, p \in Path : t[p].mtime < Now

None == [kind |-> "none", data |-> Cut, mtime |-> 0, mode |-> ""]

\* What there can be at a path.  Only files have contents.
Item ==
    {i \in [kind : {"none", "file", "dir"}, data : DOMAIN Size, mtime : Nat,
            mode : DOMAIN Umask \cup {""}] :
        /\ i.kind = "none" => i = None
        /\ i.kind # "file" => i.data = Cut
        /\ i.kind # "none" => i.mode \in DOMAIN Umask}

\* Items are in directories, up to the root.
Tree(t) ==
    /\ t \in [Path -> Item]
    /\ t[<<>>].kind = "dir"
    /\ \A p \in Path \ {<<>>} : t[p] # None => t[Front(p)].kind = "dir"

ASSUME TreeAssumption == \A t \in SrcTrees \cup DstTrees : Tree(t)

\* Operators whose name ends in _Mutant are no part of the model: each is the
\* operator it is named after with a plausible bug, to show that a property
\* can fail.

VARIABLES
    src, dst,     \* the trees
    stack,        \* the calls of sync_dirs and sync_time_permissions
    failed,       \* the items on which a call has failed in this run
    before,       \* the destination when this run began
    run           \* which run this is

vars == <<src, dst, stack, failed, before, run>>

Under(p) == {q \in Path : IsPrefix(p, q)}

Child(d) == {q \in Path \ {<<>>} : Front(q) = d}

\* What readdir lists.
Entries(t, d) == {q \in Child(d) : t[q] # None}

\* The second run repeats one without failures, or repairs what has failed.
Run == {"first", "repeat", "repair"}

\* A call has a directory, the pass it is in, and the entries still to come.
Call(d, pass, todo) == <<[dir |-> d, pass |-> pass, todo |-> todo]>>

TypeOK ==
    /\ src \in SrcTrees
    /\ Tree(dst) /\ Tree(before)
    /\ \A i \in DOMAIN stack : stack[i].dir \in Path /\ stack[i].todo \subseteq Child(stack[i].dir)
    /\ failed \subseteq Path
    /\ run \in Run

Init ==
    /\ src \in SrcTrees
    /\ dst \in DstTrees
    /\ stack = Call(<<>>, "copy", Entries(src, <<>>))
    /\ failed = {}
    /\ before = dst
    /\ run = "first"

-----------------------------------------------------------------------------
(* The file system.                                                        *)

\* What is written or made gets the time of the run.
Clock == IF run = "first" THEN Now ELSE Later

\* Removing the items in lost, with the times of their directories.
Without(t, lost) ==
    [q \in Path |-> IF q \in lost THEN None
                    ELSE IF Entries(t, q) \cap lost # {} THEN [t[q] EXCEPT !.mtime = Clock]
                    ELSE t[q]]

Put(t, p, item) ==
    [q \in Path |-> IF q = p THEN item
                    ELSE IF t[p] = None /\ p \in Child(q) THEN [t[q] EXCEPT !.mtime = Clock]
                    ELSE t[q]]

MakeDir(t, p) ==
    Put(t, p, [kind |-> "dir", data |-> Cut, mtime |-> Clock, mode |-> Umask[src[p].mode]])

\* An existing file keeps its mode.
Write(t, p, data) ==
    Put(t, p, [kind |-> "file", data |-> data, mtime |-> Clock,
               mode |-> IF t[p].kind = "file" THEN t[p].mode ELSE Umask[src[p].mode]])

\* remove_directory that has failed on something: a directory stays when
\* anything in it does.
PartlyRemoved(t, p) ==
    {Without(t, lost) : lost \in {l \in SUBSET (Under(p) \ {p}) :
                                     \A q \in l : Under(q) \subseteq l}}

SetTime(t, p) == [t EXCEPT ![p].mtime = src[p].mtime]

SetAttrs(t, p) == [SetTime(t, p) EXCEPT ![p].mode = src[p].mode]

-----------------------------------------------------------------------------
(* Control.                                                                *)

Working(pass, p) == stack # <<>> /\ Head(stack).pass = pass /\ p \in Head(stack).todo

Listed(pass) == stack # <<>> /\ Head(stack).pass = pass /\ Head(stack).todo = {}

\* The loop goes on after p.
After(p) == <<[Head(stack) EXCEPT !.todo = @ \ {p}]>> \o Tail(stack)

Done(p) == stack' = After(p) /\ UNCHANGED <<src, before, run>>

Works == UNCHANGED failed

Fails(p) ==
    /\ run = "first"
    /\ failed' = failed \cup {p}
    /\ Cardinality(failed') <= MaxFaults

-----------------------------------------------------------------------------
(* sync_dirs: the entries of the source.                                   *)

\* A file in the way is removed first.
WithDir(p) ==
    IF dst[p].kind = "dir" THEN dst
    ELSE MakeDir(Without(dst, {p}), p)

CopyDir(p) ==
    /\ Working("copy", p)
    /\ src[p].kind = "dir"
    /\ dst' = WithDir(p)
    /\ stack' = Call(p, "copy", Entries(src, p)) \o After(p)
    /\ Works
    /\ UNCHANGED <<src, before, run>>

\* remove, mkdir or opendir has failed.
CopyDirFails(p) ==
    /\ Working("copy", p)
    /\ src[p].kind = "dir"
    /\ \/ dst' = dst
       \/ dst[p].kind # "dir" /\ dst' \in {Without(dst, {p}), WithDir(p)}
    /\ Fails(p)
    /\ Done(p)

LooksSame(a, b) ==
    /\ a.kind = "file" /\ b.kind = "file"
    /\ Size[a.data] = Size[b.data]
    /\ a.mtime = b.mtime

\* A directory in the way is removed first.
Cleared(p) == IF dst[p].kind = "dir" THEN Without(dst, Under(p)) ELSE dst

\* Files are copied without being compared.
CopyFile_Mutant(p) ==
    /\ Working("copy", p)
    /\ src[p].kind = "file"
    /\ dst' = Write(Cleared(p), p, src[p].data)
    /\ Works
    /\ Done(p)

CopyFile(p) ==
    /\ Working("copy", p)
    /\ src[p].kind = "file"
    /\ dst' = IF LooksSame(src[p], dst[p]) THEN dst
              ELSE Write(Cleared(p), p, src[p].data)
    /\ Works
    /\ Done(p)

\* remove_directory, open, read or write has failed.  A read error passes for
\* the end of the file; a write error removes only a file that was not there.
CopyFileFails(p) ==
    /\ Working("copy", p)
    /\ src[p].kind = "file"
    /\ ~LooksSame(src[p], dst[p])
    /\ \/ dst' \in PartlyRemoved(dst, p)
       \/ dst' = Cleared(p)
       \/ dst' = Write(Cleared(p), p, Cut)
       \/ dst[p] = None /\ dst' = Without(Write(dst, p, Cut), {p})
    /\ Fails(p)
    /\ Done(p)

-----------------------------------------------------------------------------
(* sync_dirs: the entries of the destination.                              *)

Rewind ==
    /\ Listed("copy")
    /\ LET d == Head(stack).dir
       IN  stack' = Call(d, "prune", Entries(dst, d)) \o Tail(stack)
    /\ Works
    /\ UNCHANGED <<src, dst, before, run>>

Prune(p) ==
    /\ Working("prune", p)
    /\ dst' = IF src[p] = None THEN Without(dst, Under(p)) ELSE dst
    /\ Works
    /\ Done(p)

PruneFails(p) ==
    /\ Working("prune", p)
    /\ src[p] = None
    /\ dst' \in PartlyRemoved(dst, p)
    /\ Fails(p)
    /\ Done(p)

\* The outermost call is followed by the second pass.
SyncDirsReturns ==
    /\ Listed("prune")
    /\ stack' = IF Len(stack) = 1 THEN Call(<<>>, "attrs", Entries(src, <<>>))
                ELSE Tail(stack)
    /\ Works
    /\ UNCHANGED <<src, dst, before, run>>

-----------------------------------------------------------------------------
(* sync_time_permissions.                                                  *)

AttrsDir(p) ==
    /\ Working("attrs", p)
    /\ src[p].kind = "dir" /\ dst[p].kind = "dir"
    /\ stack' = Call(p, "attrs", Entries(src, p)) \o After(p)
    /\ Works
    /\ UNCHANGED <<src, dst, before, run>>

\* A file's time is forgotten.
AttrsFile_Mutant(p) ==
    /\ Working("attrs", p)
    /\ src[p].kind = "file" \/ dst[p].kind # "dir"
    /\ dst' = IF src[p].kind = "dir" \/ dst[p] = None THEN dst
              ELSE [dst EXCEPT ![p].mode = src[p].mode]
    /\ Works
    /\ Done(p)

\* What is missing, or is no directory where one should be, is passed over;
\* a directory in the place of a file is opened like one.
AttrsFile(p) ==
    /\ Working("attrs", p)
    /\ src[p].kind = "file" \/ dst[p].kind # "dir"
    /\ dst' = IF src[p].kind = "dir" \/ dst[p] = None THEN dst ELSE SetAttrs(dst, p)
    /\ Works
    /\ Done(p)

AttrsFail(p) ==
    /\ Working("attrs", p)
    /\ dst' = dst \/ (src[p].kind = "file" /\ dst[p] # None /\ dst' = SetTime(dst, p))
    /\ Fails(p)
    /\ Done(p)

\* The directory itself is left out.
AttrsReturns_Mutant ==
    /\ Listed("attrs")
    /\ stack' = Tail(stack)
    /\ Works
    /\ UNCHANGED <<src, dst, before, run>>

\* After the entries, the directory itself.
AttrsReturns ==
    /\ Listed("attrs")
    /\ dst' = SetAttrs(dst, Head(stack).dir)
    /\ stack' = Tail(stack)
    /\ Works
    /\ UNCHANGED <<src, before, run>>

AttrsReturnsFails ==
    /\ Listed("attrs")
    /\ dst' \in {dst, SetTime(dst, Head(stack).dir)}
    /\ stack' = Tail(stack)
    /\ Fails(Head(stack).dir)
    /\ UNCHANGED <<src, before, run>>

-----------------------------------------------------------------------------

Finished == stack = <<>>

\* The user runs the program again.
RunAgain ==
    /\ Finished
    /\ run = "first"
    /\ run' = IF failed = {} THEN "repeat" ELSE "repair"
    /\ stack' = Call(<<>>, "copy", Entries(src, <<>>))
    /\ failed' = {}
    /\ before' = dst
    /\ UNCHANGED <<src, dst>>

ItemStep(p) ==
    \/ CopyDir(p) \/ CopyDirFails(p) \/ CopyFile(p) \/ CopyFileFails(p)
    \/ Prune(p) \/ PruneFails(p)
    \/ AttrsDir(p) \/ AttrsFile(p) \/ AttrsFail(p)

Next ==
    \/ \E p \in Path : ItemStep(p)
    \/ Rewind \/ SyncDirsReturns \/ AttrsReturns \/ AttrsReturnsFails
    \/ RunAgain

Spec == Init /\ [][Next]_vars

-----------------------------------------------------------------------------
(* Properties.                                                             *)

SameItem(a, b) == a.kind = b.kind /\ a.mtime = b.mtime /\ a.mode = b.mode

\* After a run the destination is the source in structure, times, permissions
\* and contents, except below an item on which a call has failed: failures do
\* not spread, and a second run makes good what the first has missed
\* (sync_dirs, sync_time_permissions).  A file that looked the same when the
\* run began is taken for the same, and left as it was.
Mirrors ==
  /\ TypeOK
  /\ Finished => \A p \in Path :
        (\A q \in failed : ~IsPrefix(q, p)) =>
            /\ SameItem(src[p], dst[p])
            /\ dst[p].data # src[p].data =>
                  LooksSame(src[p], before[p]) /\ dst[p].data = before[p].data

InStep(t) ==
    \A p \in Path : SameItem(src[p], t[p]) /\ Size[src[p].data] = Size[t[p].data]

\* A run right after one without failures changes nothing in the destination
\* at any time, although the first may have made, replaced and removed things
\* in it: what the program sets last is all that it compares next time (the
\* comparisons at sync.c:145-222 and 388-447, and the order of the two passes,
\* 474-477).  Nor does a run that finds the two in step to begin with.
IdleWhenInStep ==
    failed = {} /\ (run = "repeat" \/ InStep(before)) => dst = before

\* A file that is up to date keeps its contents through the run, whatever
\* fails around it (sync.c:222, 292-306).
UpToDateKept ==
    [][\A p \in Path : LooksSame(src[p], dst[p]) =>
          dst'[p].kind = "file" /\ dst'[p].data = dst[p].data]_vars

\* sync.c:94-96: "It copies files from the source directory to the destination
\* directory if they do not exist in the destination directory or if they are
\* different."  A file that could be seen to be different still can be.
DifferenceSeen ==
    Finished => \A p \in Path :
        LooksSame(src[p], dst[p]) /\ dst[p].data # src[p].data
            => LooksSame(src[p], before[p])
=============================================================================
