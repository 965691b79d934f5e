------------------------- MODULE ReviewedRepository -------------------------
(***************************************************************************)
(* What a repository promises the people who review it in several browsers *)
(* (internal/repository, SECURITY.md): every mutation is one step, as if   *)
(* they took turns, and the ones that name what was reviewed (stage all, a *)
(* hunk, an edited file) do to it exactly what their client was shown.     *)
(* There is no lock here, no fingerprint check and no request under way.   *)
(***************************************************************************)
EXTENDS Naturals

CONSTANTS Clients, Paths, Hunks, WholeFile, Absent, Unmerged, NoPath

Versions == {Absent} \cup SUBSET Hunks

VARIABLES
    oid, head, index, wt, \* the commit, its tree, the index, the worktree
    shown,                \* what each client is looking at
    edited                \* somebody outside has written a file

repository == <<oid, head, index, wt>>
state      == <<oid, head, index, wt, shown, edited>>

\* Hunk h is one in which versions a and b differ; a conflict has no hunks.
Differ(a, b, h) ==
    /\ Unmerged \notin {a, b}
    /\ IF h = WholeFile THEN a # b /\ Absent \in {a, b}
       ELSE Absent \notin {a, b} /\ ~(h \in a <=> h \in b)
\* Version v as far as h is concerned is version w.
AgreeOn(v, w, h) ==
    IF h = WholeFile THEN v = w ELSE v # Absent /\ (h \in v <=> h \in w)
\* Version v with hunk h as it is in version w, and all others left alone.
With(v, w, h) ==
    IF h = WholeFile THEN w
    ELSE {k \in v \cup w : IF k = h THEN k \in w ELSE k \in v}

SetIndex(p, v) == index' = [index EXCEPT ![p] = v] /\ UNCHANGED <<oid, head, wt>>
SetFile(p, v)  == wt' = [wt EXCEPT ![p] = v] /\ UNCHANGED <<oid, head, index>>

------------------------------------------------------------------------------
\* The client looks at the whole repository, a diff of one file or a file.
Look(kind, p) ==
    IF kind = "snapshot" THEN repository
    ELSE IF kind = "unstaged" THEN <<index[p], wt[p]>>
    ELSE IF kind = "file" THEN <<wt[p], wt[p]>>
    ELSE IF index[p] = Unmerged THEN <<Unmerged, Unmerged>> ELSE <<head[p], index[p]>>
Sight(kind, p) == [kind |-> kind, path |-> p, fp |-> Look(kind, p)]
Sights == {Sight("snapshot", NoPath)}
          \cup {Sight(kind, p) : kind \in {"unstaged", "staged", "file"}, p \in Paths}
Show(c) ==
    /\ UNCHANGED <<repository, edited>>
    /\ shown'[c] \in Sights
    /\ shown' = [shown EXCEPT ![c] = shown'[c]]

\* What was shown is gone: the request was refused or failed, or is over.
Nothing   == [kind |-> "nothing", path |-> NoPath, fp |-> <<>>]
Done(c)   == UNCHANGED edited /\ shown' = [shown EXCEPT ![c] = Nothing]
Forget(c) == UNCHANGED repository /\ Done(c)

\* The client mutates what it sees in the view of the given kind.
Uses(c, kind) == shown[c].kind = kind /\ Done(c)

------------------------------------------------------------------------------
(* Mutations of what was reviewed.                                         *)

StageAll(c) ==
    /\ Uses(c, "snapshot")
    /\ LET fp == shown[c].fp IN
        /\ fp[1] = oid /\ fp[2] = head /\ fp[3] = index
        /\ ~edited => fp[4] = wt
    /\ index' = wt /\ UNCHANGED <<oid, head, wt>>

\* The hunk is taken as it was shown, even if the file has been edited since.
StageHunk(c, h) ==
    /\ Uses(c, "unstaged")
    /\ LET p == shown[c].path  fp == shown[c].fp IN
        /\ fp[1] = index[p] /\ Differ(fp[1], fp[2], h)
        /\ SetIndex(p, With(fp[1], fp[2], h))
UnstageHunk(c, h) ==
    /\ Uses(c, "staged")
    /\ LET p == shown[c].path  fp == shown[c].fp IN
        /\ fp[1] = head[p] /\ fp[2] = index[p] /\ Differ(fp[1], fp[2], h)
        /\ SetIndex(p, With(fp[2], fp[1], h))
\* A file edited since keeps the edits, and the hunk must still be there.
DiscardHunk(c, h) ==
    /\ Uses(c, "unstaged")
    /\ LET p == shown[c].path  fp == shown[c].fp IN
        /\ fp[1] = index[p] /\ Differ(fp[1], fp[2], h)
        /\ ~edited => fp[2] = wt[p]
        /\ AgreeOn(wt[p], fp[2], h)
        /\ SetFile(p, With(wt[p], fp[1], h))
Write(c) ==
    /\ Uses(c, "file")
    /\ LET p == shown[c].path IN
        /\ ~edited => shown[c].fp[1] = wt[p]
        /\ \E text \in SUBSET Hunks : SetFile(p, text)

(* Mutations of what there is now: their client was shown the file, or the *)
(* repository, but perhaps another version of it.                          *)

Stage(c) == Uses(c, "unstaged") /\ LET p == shown[c].path IN SetIndex(p, wt[p])
Unstage(c) == Uses(c, "staged") /\ LET p == shown[c].path IN SetIndex(p, head[p])
\* A discard deletes only a file that Git has nowhere.
Remove(c) ==
    /\ Uses(c, "unstaged")
    /\ LET p == shown[c].path IN
        index[p] = Absent /\ head[p] = Absent /\ SetFile(p, Absent)
Restore(c) ==
    /\ Uses(c, "unstaged")
    /\ LET p == shown[c].path IN
        index[p] \notin {Absent, Unmerged} /\ SetFile(p, index[p])
Commit(c) ==
    /\ Uses(c, "snapshot")
    /\ index # head /\ \A p \in Paths : index[p] # Unmerged
    /\ oid' = oid + 1 /\ head' = index /\ UNCHANGED <<index, wt>>

\* Outside the repository's reach: an editor writes or deletes a file.
Edit ==
    /\ edited' = TRUE /\ UNCHANGED shown
    /\ \E p \in Paths, v \in Versions : SetFile(p, v)

------------------------------------------------------------------------------
Init ==
    /\ oid \in Nat
    /\ head \in [Paths -> Versions] /\ wt \in [Paths -> Versions]
    /\ index \in [Paths -> {Unmerged} \cup Versions]
    /\ shown = [c \in Clients |-> Nothing]
    /\ edited = FALSE

Reviews(c) ==
    \/ Show(c) \/ Forget(c) \/ StageAll(c) \/ Write(c)
    \/ \E h \in {WholeFile} \cup Hunks :
          StageHunk(c, h) \/ UnstageHunk(c, h) \/ DiscardHunk(c, h)
    \/ Stage(c) \/ Unstage(c) \/ Remove(c) \/ Restore(c) \/ Commit(c)

Next == Edit \/ \E c \in Clients : Reviews(c)

Spec == Init /\ [][Next]_state
=============================================================================
