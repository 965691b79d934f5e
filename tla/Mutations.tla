------------------------------ MODULE Mutations ------------------------------
(***************************************************************************)
(* The mutating half of the repository daemon: the HTTP handlers of        *)
(* internal/server (changeHandler, commitHandler, fileHandler) and the     *)
(* operations of internal/repository they call, run by several browser     *)
(* clients at once against one Git worktree, with an editor or an agent    *)
(* changing the same worktree from outside.                                *)
(*                                                                         *)
(* A file version is the set of independent changes (hunks) it contains,   *)
(* Absent when there is no file.  A fingerprint is the data it hashes:     *)
(* SHA-256 is taken to be injective.  Every Git command is one step,       *)
(* because Repository.git admits one command at a time (gitQueue), and so  *)
(* is every file-system call; r.mu is the variable mu, held across the     *)
(* several commands of one operation.                                      *)
(***************************************************************************)
EXTENDS Naturals, FiniteSets

CONSTANTS Clients,      \* browser tabs talking to the daemon
          Paths,        \* files of the worktree
          Hunks,        \* the independent changes a file can contain
          WholeFile,    \* the only hunk of a diff that creates or deletes
          Absent,       \* no file, no index entry, or not in HEAD
          Unmerged,     \* index entry with conflict stages
          NoPath, Nobody, NoView, \* null values
          MaxEdits,     \* bound on the edits made outside the daemon
          MaxCommits,   \* bound on the number of commits
          ListsTear     \* FALSE bounds the model to file lists that did not change
                        \* before the fingerprint they are shown with was taken

ASSUME ConstantsAssumption ==
    /\ Nobody \notin Clients
    /\ NoPath \notin Paths
    /\ WholeFile \notin Hunks
    /\ \A content \in SUBSET Hunks : Absent # content /\ Unmerged # content
    /\ Absent # Unmerged
    /\ MaxEdits \in Nat
    /\ MaxCommits \in Nat
    /\ ListsTear \in BOOLEAN

Contents == SUBSET Hunks
Versions == {Absent} \cup Contents
Entries  == {Unmerged} \cup Versions

VARIABLES
    oid,      \* number of the commit HEAD names; 0 in an unborn repository
    head,     \* [Paths -> Versions] tree of HEAD
    index,    \* [Paths -> Entries]
    wt,       \* [Paths -> Versions] worktree files
    mu,       \* holder of Repository.mu
    pc,       \* where each client's request is: waiting for r.mu, holding it
              \* ("locked"), or holding it in a command that does not return ("hung")
    req,      \* the request being served
    seen,     \* what the client last read, and the fingerprint it got with it
    edits     \* number of edits made outside so far

git  == <<oid, head, index, wt>>
vars == <<oid, head, index, wt, mu, pc, req, seen, edits>>

------------------------------------------------------------------------------
(* What the server reads.                                                  *)

\* repository.State lists the paths that git status reports.
IsContent(v) == v \notin {Absent, Unmerged}
Untracked(p) == index[p] = Absent /\ wt[p] # Absent
Changed(p)   == ~(head[p] = index[p] /\ index[p] = wt[p])
Staged(p)    == head[p] # index[p]
\* The file list: each path with the letters of its index and its worktree.
Letter(old, new) ==
    IF Unmerged \in {old, new} THEN "U"
    ELSE IF old = new THEN " "
    ELSE IF old = Absent THEN "A" ELSE IF new = Absent THEN "D" ELSE "M"
FileList == [p \in Paths |-> <<Letter(head[p], index[p]), Letter(index[p], wt[p])>>]

SnapshotFingerprint == <<oid, head, index, wt>>
DiffFingerprint(p, area) ==
    IF area = "unstaged" THEN <<index[p], wt[p]>>
    ELSE IF index[p] = Unmerged THEN <<Unmerged, Unmerged>>
         ELSE <<head[p], index[p]>>
FileFingerprint(p) == <<wt[p], wt[p]>>

\* The fingerprint now of the view of the given kind.
Fingerprint(kind, p) ==
    IF kind = "snapshot" THEN SnapshotFingerprint
    ELSE IF kind = "file" THEN FileFingerprint(p)
    ELSE DiffFingerprint(p, kind)

Areas == {"unstaged", "staged"}
Actions == {"stage", "unstage", "discard"}
Area(action) == IF action = "unstage" THEN "staged" ELSE "unstaged"

\* Hunks of the diff from old to new, and old with hunk h taken from new.
DiffHunks(old, new) ==
    IF old = new THEN {}
    ELSE IF Absent \in {old, new} THEN {WholeFile}
    ELSE (old \ new) \cup (new \ old)
Take(old, new, h) ==
    IF h = WholeFile THEN new ELSE (old \ {h}) \cup (new \cap {h})
HunkMatches(v, pre, h) ==
    IF h = WholeFile THEN v = pre
    ELSE IsContent(v) /\ (h \in v <=> h \in pre)

------------------------------------------------------------------------------
(* The Git commands the repository runs.  Each is enabled when the command *)
(* would succeed; its effect is on the index, the worktree or HEAD only.   *)

CanAdd(p) == ~(index[p] = Absent /\ wt[p] = Absent)
GitAdd(p) == index' = [index EXCEPT ![p] = wt[p]] /\ UNCHANGED <<oid, head, wt>>
GitAddAll == index' = wt /\ UNCHANGED <<oid, head, wt>>

CanUnstage(p) ==
    IF oid # 0
    THEN head[p] # Absent \/ IsContent(index[p])  \* git restore --staged
    ELSE /\ index[p] # Absent                       \* git rm --cached
         /\ IsContent(index[p]) /\ wt[p] # Absent => index[p] = wt[p]
GitUnstage(p) ==
    index' = [index EXCEPT ![p] = head[p]] /\ UNCHANGED <<oid, head, wt>>

CanRestore(p) == IsContent(index[p])
GitRestore(p) ==
    wt' = [wt EXCEPT ![p] = index[p]] /\ UNCHANGED <<oid, head, index>>

\* MaxCommits bounds the model: past it git commit fails.
CanCommit ==
    index # head /\ (\A p \in Paths : index[p] # Unmerged) /\ oid < MaxCommits
GitCommit == oid' = oid + 1 /\ head' = index /\ UNCHANGED <<index, wt>>

------------------------------------------------------------------------------
Kinds == {"snapshot", "listing", "file"} \cup Areas
\* What a waiting request wants, and what it does once it has r.mu: to one file,
\* or to the repository.
FileOps == {"change", "patch", "write", "remove", "restore", "apply_index",
            "apply_worktree"}
RepositoryOps == {"none", "commit", "stage_all"}
\* Operations whose fingerprint is compared after r.mu is taken.
GuardedOps == {"stage_all", "apply_index", "apply_worktree", "write"}

Request(op, p) ==
    [op |-> op, path |-> p, hunk |-> WholeFile, pre |-> Absent, post |-> Absent]
NoRequest == Request("none", NoPath)

\* The request is answered: the browser drops what it has read and refetches.
Answer(c) ==
    /\ pc' = [pc EXCEPT ![c] = "idle"]
    /\ req' = [req EXCEPT ![c] = NoRequest]
    /\ seen' = [seen EXCEPT ![c] = NoView]
Unlock == mu' = Nobody
Reject(c) == Answer(c) /\ UNCHANGED <<git, mu, edits>>
\* The request goes for the lock.  Whatever else it says - the action, the hunk,
\* the text - is first used under the lock, and chosen where it is used.
Wait(c, op) ==
    /\ pc' = [pc EXCEPT ![c] = "waiting"]
    /\ req' = [req EXCEPT ![c] = Request(op, seen[c].path)]
    /\ UNCHANGED <<git, mu, seen, edits>>
\* The lock is taken, the request passes its checks and holds the lock.
Hold(c, r) ==
    /\ mu' = c
    /\ pc' = [pc EXCEPT ![c] = "locked"]
    /\ req' = [req EXCEPT ![c] = r]
    /\ UNCHANGED <<git, seen, edits>>
Holds(c, op) == pc[c] = "locked" /\ req[c].op = op

------------------------------------------------------------------------------
(* Reads.  No read takes r.mu.                                             *)

\* torn: the file list shown with the fingerprint is not the one of its state.
View(kind, p, torn) ==
    [kind |-> kind, path |-> p, torn |-> torn, fp |-> Fingerprint(kind, p)]
Read(c, view) ==
    /\ pc[c] = "idle"
    /\ seen' = [seen EXCEPT ![c] = view]
    /\ UNCHANGED <<git, mu, pc, req, edits>>

\* repositoryHandler runs git status for the file list and, after that, the
\* snapshot fingerprint: two steps.
ReadState(c) ==
    Read(c, [kind |-> "listing", path |-> NoPath, torn |-> FALSE,
             fp |-> FileList])
ReadSnapshot(c) ==
    /\ seen[c] # NoView /\ seen[c].kind = "listing"
    /\ seen[c].fp # FileList => ListsTear
    /\ Read(c, View("snapshot", NoPath, seen[c].fp # FileList))
ReadDiff(c) ==
    \E p \in Paths, area \in Areas :
        Read(c, View(area, p, FALSE))
ReadFile(c) ==
    \E p \in Paths :
        /\ wt[p] # Absent
        /\ Read(c, View("file", p, FALSE))

------------------------------------------------------------------------------
(* Whole-file stage, unstage and discard, and commit: the handler compares *)
(* the fingerprint first and takes r.mu afterwards.                        *)

Fresh(c) == Fingerprint(seen[c].kind, seen[c].path) = seen[c].fp
Has(c, kinds) == pc[c] = "idle" /\ seen[c] # NoView /\ seen[c].kind \in kinds

Check(c, op) ==
    \/ Fresh(c) /\ Wait(c, op)
    \/ ~Fresh(c) /\ Reject(c)

CheckChange(c) == Has(c, Areas) /\ Check(c, "change")
CheckCommit(c) == Has(c, {"snapshot"}) /\ Check(c, "commit")

\* Mutant: the operations do not take r.mu.
Gets_NoLock(c, op) == pc[c] = "waiting" /\ req[c].op = op
Gets(c, op) == pc[c] = "waiting" /\ req[c].op = op /\ mu = Nobody
GetsChange(c, action) == Gets(c, "change") /\ seen[c].kind = Area(action)

\* Stage and Unstage run their command and release the lock.
Stage(c) ==
    /\ GetsChange(c, "stage")
    /\ IF CanAdd(req[c].path) THEN GitAdd(req[c].path) ELSE UNCHANGED git
    /\ Answer(c) /\ UNCHANGED <<mu, edits>>
Unstage(c) ==
    /\ GetsChange(c, "unstage")
    /\ IF CanUnstage(req[c].path) THEN GitUnstage(req[c].path) ELSE UNCHANGED git
    /\ Answer(c) /\ UNCHANGED <<mu, edits>>

\* Mutant: any entry of the path that is untracked decides, also when the path
\* has another entry because its deletion is staged.
DiscardDecide_AnyEntry(c) ==
    /\ GetsChange(c, "discard")
    /\ LET p == req[c].path IN
       \/ Untracked(p) /\ Hold(c, Request("remove", p))
       \/ Changed(p) /\ ~Untracked(p) /\ Hold(c, Request("restore", p))
       \/ ~Changed(p) /\ Reject(c)
\* Discard reads the state under the lock and acts on the first entry of the
\* path: an untracked file is removed, a tracked one restored from the index.
DiscardDecide(c) ==
    /\ GetsChange(c, "discard")
    /\ LET p == req[c].path IN
       \/ /\ Changed(p) /\ Untracked(p) /\ ~Staged(p)
          /\ Hold(c, Request("remove", p))
       \/ /\ Changed(p) /\ ~(Untracked(p) /\ ~Staged(p))
          /\ Hold(c, Request("restore", p))
       \/ ~Changed(p) /\ Reject(c)
\* Mutant: removing an untracked file forgets to release r.mu.
DiscardRemove_KeepsLock(c) ==
    /\ Holds(c, "remove")
    /\ wt' = [wt EXCEPT ![req[c].path] = Absent]
    /\ UNCHANGED <<oid, head, index>>
    /\ Answer(c) /\ UNCHANGED <<mu, edits>>
DiscardRemove(c) ==
    /\ Holds(c, "remove")
    /\ wt' = [wt EXCEPT ![req[c].path] = Absent]
    /\ UNCHANGED <<oid, head, index>>
    /\ Answer(c) /\ Unlock /\ UNCHANGED edits
DiscardRestore(c) ==
    /\ Holds(c, "restore")
    /\ IF CanRestore(req[c].path) THEN GitRestore(req[c].path) ELSE UNCHANGED git
    /\ Answer(c) /\ Unlock /\ UNCHANGED edits

\* Commit refuses when git status shows nothing staged.
CommitDecide(c) ==
    /\ Gets(c, "commit")
    /\ \/ (\E p \in Paths : Staged(p)) /\ Hold(c, Request("commit", NoPath))
       \/ (\A p \in Paths : ~Staged(p)) /\ Reject(c)
Commit(c) ==
    /\ Holds(c, "commit")
    /\ IF CanCommit THEN GitCommit ELSE UNCHANGED git
    /\ Answer(c) /\ Unlock /\ UNCHANGED edits

------------------------------------------------------------------------------
(* Stage all, hunk patches and file edits: r.mu first, then the fingerprint *)
(* and then the change, all under the lock.                                *)

Ask(c) ==
    \/ Has(c, {"snapshot"}) /\ Wait(c, "stage_all")
    \/ Has(c, Areas) /\ Wait(c, "patch")
    \/ Has(c, {"file"}) /\ Wait(c, "write")

StageAllCheck(c) ==
    /\ Gets(c, "stage_all")
    /\ IF Fresh(c) THEN Hold(c, req[c]) ELSE Reject(c)
StageAll(c) ==
    /\ Holds(c, "stage_all") /\ GitAddAll
    /\ Answer(c) /\ Unlock /\ UNCHANGED edits

\* The patch ApplyPatch feeds to git apply: the target it changes, the version
\* the hunk must match there and the version it takes the hunk from.
Patch(action, p, h) ==
    [op   |-> IF action = "discard" THEN "apply_worktree" ELSE "apply_index",
     path |-> p,
     hunk |-> h,
     pre  |-> IF action = "discard" THEN wt[p] ELSE index[p],
     post |-> IF action = "stage" THEN wt[p]
              ELSE IF action = "unstage" THEN head[p] ELSE index[p]]
\* Mutant: the diff of a patch that unstages is not compared.
PatchCheck_UnstageUnchecked(c) ==
    \E action \in Actions, h \in Hunks \cup {WholeFile} :
        /\ Gets(c, "patch") /\ seen[c].kind = Area(action)
        /\ LET p == req[c].path
               patch == Patch(action, p, h)
           IN  IF /\ index[p] # Unmerged
                  /\ action = "unstage" \/ Fresh(c)
                  /\ h \in DiffHunks(patch.pre, patch.post)
               THEN Hold(c, patch)
               ELSE Reject(c)
\* Mutant: the conflict check is skipped when the worktree file is deleted.
PatchCheck_DeletedConflict(c) ==
    \E action \in Actions, h \in Hunks \cup {WholeFile} :
        /\ Gets(c, "patch") /\ seen[c].kind = Area(action)
        /\ LET p == req[c].path
               patch == Patch(action, p, h)
           IN  IF /\ index[p] # Unmerged \/ wt[p] = Absent
                  /\ Fresh(c)
                  /\ h \in DiffHunks(patch.pre, patch.post)
               THEN Hold(c, patch)
               ELSE Reject(c)
PatchCheck(c) ==
    \E action \in Actions, h \in Hunks \cup {WholeFile} :
        /\ Gets(c, "patch") /\ seen[c].kind = Area(action)
        /\ LET p == req[c].path
               patch == Patch(action, p, h)
           IN  IF /\ index[p] # Unmerged
                  /\ Fresh(c)
                  /\ h \in DiffHunks(patch.pre, patch.post)
               THEN Hold(c, patch)
               ELSE Reject(c)
\* Mutant: git apply --index, which patches the worktree file as well.
PatchIndex_WorktreeToo(c) ==
    /\ Holds(c, "apply_index")
    /\ LET r == req[c] IN
       IF HunkMatches(index[r.path], r.pre, r.hunk) /\ wt[r.path] = index[r.path]
       THEN /\ index' = [index EXCEPT ![r.path] = Take(@, r.post, r.hunk)]
            /\ wt' = [wt EXCEPT ![r.path] = Take(@, r.post, r.hunk)]
            /\ UNCHANGED <<oid, head>>
       ELSE UNCHANGED git
    /\ Answer(c) /\ Unlock /\ UNCHANGED edits
PatchIndex(c) ==
    /\ Holds(c, "apply_index")
    /\ LET r == req[c] IN
       IF HunkMatches(index[r.path], r.pre, r.hunk)
       THEN /\ index' = [index EXCEPT ![r.path] = Take(@, r.post, r.hunk)]
            /\ UNCHANGED <<oid, head, wt>>
       ELSE UNCHANGED git
    /\ Answer(c) /\ Unlock /\ UNCHANGED edits
PatchWorktree(c) ==
    /\ Holds(c, "apply_worktree")
    /\ LET r == req[c] IN
       IF HunkMatches(wt[r.path], r.pre, r.hunk)
       THEN /\ wt' = [wt EXCEPT ![r.path] = Take(@, r.post, r.hunk)]
            /\ UNCHANGED <<oid, head, index>>
       ELSE UNCHANGED git
    /\ Answer(c) /\ Unlock /\ UNCHANGED edits

WriteCheck(c) ==
    /\ Gets(c, "write")
    /\ LET p == req[c].path IN
       IF Changed(p) /\ wt[p] # Absent /\ Fresh(c)
       THEN Hold(c, req[c])
       ELSE Reject(c)
WriteFile(c) ==
    /\ Holds(c, "write")
    /\ \E text \in Contents : wt' = [wt EXCEPT ![req[c].path] = text]
    /\ UNCHANGED <<oid, head, index>>
    /\ Answer(c) /\ Unlock /\ UNCHANGED edits

------------------------------------------------------------------------------
\* A Git command of the request fails and changes nothing: a hook refused the
\* commit, the commit ran for two minutes, or the client closed the connection,
\* which cancels the context the commands run in (except those of WriteFile).
GitFails(c) ==
    /\ \/ pc[c] = "waiting" /\ mu = Nobody /\ UNCHANGED mu
       \/ pc[c] = "locked" /\ req[c].op \notin {"remove", "write"} /\ Unlock
    /\ Answer(c) /\ UNCHANGED <<git, edits>>
\* Only git commit has a time limit: any other command that runs under r.mu, for
\* the checks or for the change, may hang in a filter or behind another command
\* of gitQueue, and r.mu stays taken ...
Hangs(c) ==
    /\ \/ pc[c] = "waiting" /\ mu = Nobody /\ mu' = c
       \/ /\ pc[c] = "locked" /\ req[c].op \notin {"remove", "write", "commit"}
          /\ UNCHANGED mu
    /\ pc' = [pc EXCEPT ![c] = "hung"]
    /\ req' = [req EXCEPT ![c] = NoRequest]
    /\ seen' = [seen EXCEPT ![c] = NoView]
    /\ UNCHANGED <<git, edits>>
\* ... until the client goes away or somebody kills the command.
HungEnds(c) ==
    /\ pc[c] = "hung"
    /\ Answer(c) /\ Unlock /\ UNCHANGED <<git, edits>>

\* Outside the daemon: an editor or an agent writes or deletes a file.
Edit ==
    /\ edits < MaxEdits
    /\ \E p \in Paths : \E v \in Versions \ {wt[p]} : wt' = [wt EXCEPT ![p] = v]
    /\ edits' = edits + 1
    /\ UNCHANGED <<oid, head, index, mu, pc, req, seen>>

\* The daemon attaches to any repository: unborn or not, clean or not, with
\* or without conflicts.
Init ==
    /\ oid \in {0, 1}
    /\ head \in [Paths -> Versions]
    /\ oid = 0 => \A p \in Paths : head[p] = Absent
    /\ index \in [Paths -> Entries]
    /\ wt \in [Paths -> Versions]
    /\ mu = Nobody
    /\ pc = [c \in Clients |-> "idle"]
    /\ req = [c \in Clients |-> NoRequest]
    /\ seen = [c \in Clients |-> NoView]
    /\ edits = 0

Reads(c) == ReadState(c) \/ ReadSnapshot(c) \/ ReadDiff(c) \/ ReadFile(c)
Asks(c)  == CheckChange(c) \/ CheckCommit(c) \/ Ask(c)
Stops(c) == GitFails(c) \/ Hangs(c) \/ HungEnds(c)
Takes(c) ==   \* steps that take r.mu, whether or not they keep it
    \/ Stage(c) \/ Unstage(c) \/ DiscardDecide(c) \/ CommitDecide(c)
    \/ StageAllCheck(c) \/ PatchCheck(c) \/ WriteCheck(c)
Finishes(c) ==  \* steps of the holder
    \/ DiscardRemove(c) \/ DiscardRestore(c) \/ Commit(c) \/ StageAll(c)
    \/ PatchIndex(c) \/ PatchWorktree(c) \/ WriteFile(c)

Next ==
    \/ \E c \in Clients :
        Reads(c) \/ Asks(c) \/ Takes(c) \/ Finishes(c) \/ Stops(c)
    \/ Edit

Spec == Init /\ [][Next]_vars

\* The mutex hands itself to every waiter in turn (Go's starvation mode), so a
\* request that keeps finding it free gets it; a holder whose Git command does
\* not hang runs to its end.  A command that hangs may do so for ever.
Proceeds(c) ==
    \/ pc[c] = "waiting" /\ Takes(c)
    \/ pc[c] = "locked" /\ Finishes(c)
Fairness == \A c \in Clients : SF_vars(Proceeds(c))
FairSpec == Spec /\ Fairness

------------------------------------------------------------------------------
(* Types.                                                                  *)

Letters   == {" ", "A", "D", "M", "U"}
FileLists == [Paths -> Letters \X Letters]
Snapshots == Nat \X [Paths -> Versions] \X [Paths -> Entries] \X [Paths -> Versions]
Pairs     == Entries \X Entries
Asked(ops, paths) == [op : ops, path : paths, hunk : {WholeFile} \cup Hunks,
                      pre : Versions, post : Versions]
Requests  == Asked(FileOps, Paths) \cup Asked(RepositoryOps, {NoPath})
Views     ==
    [kind : {"listing"}, path : {NoPath}, torn : {FALSE}, fp : FileLists]
    \cup [kind : {"snapshot"}, path : {NoPath}, torn : BOOLEAN, fp : Snapshots]
    \cup [kind : Areas \cup {"file"}, path : Paths, torn : {FALSE}, fp : Pairs]
ASSUME NoViewAssumption == NoView \notin Views

Domains ==
    /\ oid \in Nat
    /\ head \in [Paths -> Versions]
    /\ index \in [Paths -> Entries]
    /\ wt \in [Paths -> Versions]
    /\ mu \in {Nobody} \cup Clients
    /\ pc \in [Clients -> {"idle", "waiting", "locked", "hung"}]
    /\ req \in [Clients -> Requests]
    /\ seen \in [Clients -> {NoView} \cup Views]
    /\ edits \in Nat

\* Every variable stays in its domain; in particular no commit records a
\* conflict, no worktree file is restored from one and no patch takes one.
TypeOK ==
    /\ \A p \in Paths : head[p] # Unmerged /\ wt[p] # Unmerged
    /\ \A c \in Clients : Unmerged \notin {req[c].pre, req[c].post}
    /\ Domains

(* Safety.                                                                 *)

\* The mutations that compare the fingerprint under r.mu (StageAll, ApplyPatch,
\* WriteFile) act on exactly the state their client read, whatever the other
\* clients do meanwhile, as long as nothing outside the daemon interferes.
GuardedFresh ==
    edits = 0 =>
        \A c \in Clients :
            pc[c] = "locked" /\ req[c].op \in GuardedOps => Fresh(c)

\* An editor may write files while such a mutation runs, but the commit and the
\* trees and entries it builds on are still those its client read: all of HEAD
\* and the index for StageAll, the index entry for a patch that stages or
\* discards, the entry and its version in HEAD for one that unstages.  WriteFile
\* compares the file alone, which no lock protects from an editor.
IndexFingerprint(kind, p) ==
    IF kind = "snapshot" THEN <<oid, head, index>>
    ELSE IF kind = "unstaged" THEN <<index[p]>>
    ELSE IF kind = "staged" THEN DiffFingerprint(p, "staged") ELSE <<>>
IndexPart(view) ==
    IF view.kind = "snapshot" THEN <<view.fp[1], view.fp[2], view.fp[3]>>
    ELSE IF view.kind = "unstaged" THEN <<view.fp[1]>>
    ELSE IF view.kind = "staged" THEN view.fp ELSE <<>>
GuardedIndexFresh ==
    \A c \in Clients :
        pc[c] = "locked" /\ req[c].op \in GuardedOps \ {"write"} =>
            IndexFingerprint(seen[c].kind, seen[c].path) = IndexPart(seen[c])

\* What Discard and Commit decided from git status still holds when they act:
\* a file about to be removed is untracked, not staged and not in HEAD, and a
\* commit about to be made still has something staged.
DecisionsHold ==
    \A c \in Clients :
        /\ Holds(c, "remove") =>
              index[req[c].path] = Absent /\ head[req[c].path] = Absent
        /\ Holds(c, "commit") => \E p \in Paths : Staged(p)

\* "Require current fingerprints for mutations and serialize Git writes to
\* reject stale browser state" (SECURITY.md): what a commit records is the index
\* its client reviewed, a discard deletes a file only for a client that was shown
\* an untracked one, and stage all stages the file list its client was shown.
MutatesFor(c) == pc[c] = "locked" /\ pc'[c] = "idle" /\ git' # git
MutatesWhatWasReviewed ==
    [][\A c \in Clients : MutatesFor(c) =>
         /\ req[c].op = "commit" => seen[c].fp[3] = index
         /\ req[c].op = "remove" => seen[c].fp[1] = Absent
         /\ req[c].op = "stage_all" => ~seen[c].torn]_vars

(* Liveness.                                                               *)

\* Every mutation a browser asks for is answered, so that its client is idle
\* again and again, unless a Git command under r.mu hangs for ever (r.mu has no
\* time limit): neither the order r.mu is granted in, nor a command that fails or
\* hangs for a while, nor a mutation that never lets go leaves a browser waiting.
EveryRequestAnswered ==
    \A c \in Clients :
        []<>(pc[c] = "idle") \/ <>[](\E d \in Clients : pc[d] = "hung")

(* Refinement: the repository is the one that ReviewedRepository promises. *)

\* What a client is looking at; the list of files is shown with its snapshot.
Shown(view) ==
    IF view = NoView \/ view.kind = "listing"
    THEN [kind |-> "nothing", path |-> NoPath, fp |-> <<>>]
    ELSE [kind |-> view.kind, path |-> view.path, fp |-> view.fp]
Reviewed == INSTANCE ReviewedRepository WITH
    shown <- [c \in Clients |-> Shown(seen[c])], edited <- edits > 0

\* However requests, their Git commands and an editor are interleaved, the
\* mutations take effect one after another, each in one step, and those that
\* compare under r.mu take effect on what their client was shown.
ImplementsReviewedRepository == Reviewed!Spec
==============================================================================
