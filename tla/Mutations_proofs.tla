-------------------------- MODULE Mutations_proofs --------------------------
(***************************************************************************)
(* Proofs about Mutations for every set of clients, files and hunks: the   *)
(* types, the meaning of r.mu, and that what a mutation compared or decided *)
(* under r.mu still holds when it acts.                                    *)
(***************************************************************************)
EXTENDS Mutations, TLAPS

\* r.mu names the one client inside a locked section, hung or not; a request that
\* waits or goes on still has what its client read.
LockInv ==
    \A c \in Clients :
        /\ pc[c] \in {"locked", "hung"} <=> mu = c
        /\ pc[c] \in {"waiting", "locked"} => seen[c] # NoView

\* The operations of a request that waits for r.mu, and of one that holds it.
WaitingOps == {"change", "commit", "stage_all", "patch", "write"}
LockedOps  == {"remove", "restore", "commit"} \cup GuardedOps

IInv == Domains /\ LockInv /\ GuardedIndexFresh /\ DecisionsHold

------------------------------------------------------------------------------
(* Lemmas on the operators of the model.                                   *)

\* A hunk taken from one version into another yields a version.
LEMMA TakeType ==
    ASSUME NEW old \in Entries, NEW new \in Versions, NEW h \in {WholeFile} \cup Hunks,
           NEW pre \in Versions, HunkMatches(old, pre, h)
    PROVE  Take(old, new, h) \in Versions
  BY DEF Take, HunkMatches, IsContent, Entries, Versions, Contents

\* The patch of a file that is not in conflict takes versions, never a conflict.
LEMMA PatchType ==
    ASSUME Domains, NEW p \in Paths, NEW h \in {WholeFile} \cup Hunks,
           index[p] # Unmerged, NEW action \in Actions
    PROVE  Patch(action, p, h) \in Requests
  BY DEF Domains, Patch, Requests, Asked, FileOps, Entries, Actions

\* A view just read is a view.
LEMMA ViewType ==
    ASSUME Domains, NEW torn \in BOOLEAN
    PROVE  /\ View("snapshot", NoPath, torn) \in Views
           /\ \A p \in Paths, kind \in Areas \cup {"file"} :
                 View(kind, p, FALSE) \in Views
  BY DEF Domains, View, Views, Fingerprint, SnapshotFingerprint, DiffFingerprint,
         FileFingerprint, Snapshots, Pairs, Areas, Entries

\* A fingerprint that is current is current in its index part.
LEMMA FreshIndex ==
    ASSUME NEW c \in Clients, Fresh(c)
    PROVE  IndexFingerprint(seen[c].kind, seen[c].path) = IndexPart(seen[c])
  BY DEF Fresh, Fingerprint, IndexFingerprint, IndexPart, SnapshotFingerprint,
         DiffFingerprint

\* A request either waits for r.mu or is refused at once; one that does not go on
\* is answered and lets go of r.mu, or hangs and keeps it.
LEMMA AskShape ==
    ASSUME NEW c \in Clients, Asks(c)
    PROVE  /\ pc[c] = "idle" /\ seen[c] # NoView
           /\ Reject(c) \/ \E op \in WaitingOps : Wait(c, op)
  BY DEF Asks, CheckChange, CheckCommit, Check, Ask, Has, WaitingOps

LEMMA StopShape ==
    ASSUME NEW c \in Clients, Stops(c)
    PROVE  /\ UNCHANGED git /\ UNCHANGED edits
           /\ \/ mu = Nobody /\ UNCHANGED mu /\ Answer(c)
              \/ pc[c] \in {"locked", "hung"} /\ Unlock /\ Answer(c)
              \/ Hangs(c)
  BY DEF Stops, GitFails, Hangs, HungEnds, git

------------------------------------------------------------------------------
(* Types.                                                                  *)

\* Every step keeps every variable in its domain.
LEMMA TypeStep ==
    ASSUME Domains, [Next]_vars
    PROVE  Domains'
<1> USE DEF Domains
<1>1. CASE UNCHANGED vars
  BY <1>1 DEF vars
<1>2. CASE Edit
  BY <1>2, ConstantsAssumption DEF Edit
<1>3. ASSUME NEW c \in Clients, Reads(c)
      PROVE  Domains'
  <2>a. ASSUME NEW view \in Views, Read(c, view)
        PROVE  Domains'
    BY <2>a DEF Read, git
  <2>b. \A p \in Paths, kind \in Areas \cup {"file"} : View(kind, p, FALSE) \in Views
    BY ViewType
  <2>1. CASE ReadState(c)
    <3>1. FileList \in FileLists
      BY DEF FileList, FileLists, Letter, Letters
    <3> QED  BY <2>1, <3>1 DEF ReadState, Read, git, Views
  <2>2. CASE ReadSnapshot(c)
    BY <2>2, ViewType DEF ReadSnapshot, Read, git
  <2>3. CASE ReadDiff(c)
    BY <2>a, <2>b, <2>3 DEF ReadDiff
  <2>4. CASE ReadFile(c)
    BY <2>a, <2>b, <2>4 DEF ReadFile
  <2> QED  BY <1>3, <2>1, <2>2, <2>3, <2>4 DEF Reads
<1>4. ASSUME NEW c \in Clients
      PROVE  /\ NoRequest \in Requests
             /\ \A op \in RepositoryOps : Request(op, NoPath) \in Requests
             /\ \A op \in FileOps, p \in Paths : Request(op, p) \in Requests
  BY DEF NoRequest, Request, Requests, Asked, RepositoryOps, Versions
<1>5. ASSUME NEW c \in Clients, Reject(c)
      PROVE  Domains'
  BY <1>4, <1>5 DEF Reject, Answer, git
<1>6. ASSUME NEW c \in Clients, NEW r \in Requests, Hold(c, r)
      PROVE  Domains'
  BY <1>6 DEF Hold, git
<1>7. ASSUME NEW c \in Clients, Asks(c)
      PROVE  Domains'
  <2>1. CASE Reject(c)
    BY <1>5, <2>1
  <2>2. ASSUME NEW op, Wait(c, op), Request(op, seen[c].path) \in Requests
        PROVE  Domains'
    BY <2>2 DEF Wait, git
  <2>3. ASSUME Has(c, {"snapshot"})
        PROVE  /\ Request("commit", seen[c].path) \in Requests
               /\ Request("stage_all", seen[c].path) \in Requests
    BY <1>4, <2>3 DEF Has, Views, Areas, RepositoryOps
  <2>4. ASSUME Has(c, Areas) \/ Has(c, {"file"})
        PROVE  \A op \in {"change", "patch", "write"} :
                  Request(op, seen[c].path) \in Requests
    BY <1>4, <2>4 DEF Has, Views, Areas, FileOps
  <2> QED
    BY <1>7, <2>1, <2>2, <2>3, <2>4 DEF Asks, CheckChange, CheckCommit, Check, Ask
<1>8. ASSUME NEW c \in Clients, Takes(c)
      PROVE  Domains'
  <2>1. CASE Stage(c)
    BY <1>4, <2>1 DEF Stage, GitAdd, Answer, git, Entries
  <2>2. CASE Unstage(c)
    BY <1>4, <2>2 DEF Unstage, GitUnstage, Answer, git, Entries
  <2>3. CASE DiscardDecide(c)
    <3>1. req[c].path \in Paths
      BY <2>3 DEF DiscardDecide, GetsChange, Gets, Requests, Asked, RepositoryOps
    <3>2. /\ Request("remove", req[c].path) \in Requests
          /\ Request("restore", req[c].path) \in Requests
      BY <1>4, <3>1 DEF FileOps
    <3> QED  BY <1>5, <1>6, <2>3, <3>2 DEF DiscardDecide
  <2>4. CASE CommitDecide(c)
    <3>1. Request("commit", NoPath) \in Requests
      BY <1>4 DEF RepositoryOps
    <3> QED  BY <1>5, <1>6, <2>4, <3>1 DEF CommitDecide
  <2>5. CASE StageAllCheck(c)
    BY <1>5, <1>6, <2>5 DEF StageAllCheck
  <2>6. CASE PatchCheck(c)
    <3>1. PICK action \in Actions, h \in Hunks \cup {WholeFile} :
            /\ pc[c] = "waiting" /\ req[c].op = "patch"
            /\ \/ /\ index[req[c].path] # Unmerged
                  /\ Hold(c, Patch(action, req[c].path, h))
               \/ Reject(c)
      BY <2>6 DEF PatchCheck, Gets
    <3>2. req[c].path \in Paths
      BY <3>1 DEF Requests, Asked, RepositoryOps
    <3>3. index[req[c].path] # Unmerged => Patch(action, req[c].path, h) \in Requests
      BY <3>2, PatchType
    <3> QED  BY <1>5, <1>6, <3>1, <3>3
  <2>7. CASE WriteCheck(c)
    BY <1>5, <1>6, <2>7 DEF WriteCheck
  <2> QED
    BY <1>8, <2>1, <2>2, <2>3, <2>4, <2>5, <2>6, <2>7 DEF Takes
<1>9. ASSUME NEW c \in Clients, Finishes(c)
      PROVE  Domains'
  <2>1. CASE DiscardRemove(c)
    BY <1>4, <2>1 DEF DiscardRemove, Answer, Unlock, Versions
  <2>2. CASE DiscardRestore(c)
    BY <1>4, <2>2 DEF DiscardRestore, CanRestore, GitRestore, IsContent, Answer,
                     Unlock, git, Entries
  <2>3. CASE Commit(c)
    <3>1. CASE CanCommit /\ GitCommit
      <4>1. head' \in [Paths -> Versions]
        BY <3>1 DEF CanCommit, GitCommit, Entries
      <4>2. oid' \in Nat
        BY <3>1 DEF GitCommit
      <4> QED  BY <1>4, <2>3, <3>1, <4>1, <4>2 DEF Commit, GitCommit, Answer, Unlock
    <3>2. CASE UNCHANGED git
      BY <1>4, <2>3, <3>2 DEF Commit, Answer, Unlock, git
    <3> QED  BY <2>3, <3>1, <3>2 DEF Commit
  <2>4. CASE StageAll(c)
    BY <1>4, <2>4 DEF StageAll, GitAddAll, Answer, Unlock, Entries
  <2>5. CASE PatchIndex(c)
    <3>1. /\ req[c].hunk \in {WholeFile} \cup Hunks
          /\ req[c].pre \in Versions /\ req[c].post \in Versions
      BY DEF Requests, Asked
    <3>2. req[c].path \in Paths /\ HunkMatches(index[req[c].path], req[c].pre, req[c].hunk)
            => Take(index[req[c].path], req[c].post, req[c].hunk) \in Entries
      BY <3>1, TakeType DEF Entries
    <3> QED  BY <1>4, <2>5, <3>2 DEF PatchIndex, Answer, Unlock, git
  <2>6. CASE PatchWorktree(c)
    <3>1. /\ req[c].hunk \in {WholeFile} \cup Hunks
          /\ req[c].pre \in Versions /\ req[c].post \in Versions
      BY DEF Requests, Asked
    <3>2. req[c].path \in Paths /\ HunkMatches(wt[req[c].path], req[c].pre, req[c].hunk)
            => Take(wt[req[c].path], req[c].post, req[c].hunk) \in Versions
      BY <3>1, TakeType DEF Entries
    <3> QED  BY <1>4, <2>6, <3>2 DEF PatchWorktree, Answer, Unlock, git
  <2>7. CASE WriteFile(c)
    BY <1>4, <2>7 DEF WriteFile, Answer, Unlock, Versions
  <2> QED
    BY <1>9, <2>1, <2>2, <2>3, <2>4, <2>5, <2>6, <2>7 DEF Finishes
<1>10. ASSUME NEW c \in Clients, Stops(c)
       PROVE  Domains'
  BY <1>4, <1>10 DEF Stops, GitFails, Hangs, HungEnds, Answer, Unlock, git
<1> QED
  BY <1>1, <1>2, <1>3, <1>7, <1>8, <1>9, <1>10 DEF Next

\* TypeOK: the state of the repository and of every request stays well formed,
\* and neither HEAD, the worktree nor a patch ever holds a conflict entry.
THEOREM TypeCorrect == Spec => []TypeOK
<1>1. Init => Domains
  BY DEF Init, Domains, NoRequest, Request, Requests, Asked, RepositoryOps, Versions
<1>2. Domains => TypeOK
  BY ConstantsAssumption DEF Domains, TypeOK, Requests, Asked, Versions, Contents
<1> QED
  BY <1>1, <1>2, TypeStep, PTL DEF Spec

------------------------------------------------------------------------------
(* The lock and what it protects.                                          *)

\* Who changes what: the commit, HEAD and the index change only in a step that
\* finds r.mu free, or in a step of its holder.
LEMMA IndexUnderLock ==
    ASSUME [Next]_vars, <<oid, head, index>>' # <<oid, head, index>>
    PROVE  \E c \in Clients :
              \/ mu = Nobody /\ UNCHANGED mu /\ Answer(c)
              \/ Finishes(c)
<1>1. PICK c \in Clients : Takes(c) \/ Finishes(c)
  BY AskShape, StopShape
  DEF Next, vars, git, Edit, Reads, ReadState, ReadSnapshot, ReadDiff, ReadFile,
      Read, Wait, Reject
<1>2. CASE Takes(c)
  BY <1>2 DEF Takes, Stage, Unstage, DiscardDecide, CommitDecide, StageAllCheck,
              PatchCheck, WriteCheck, GetsChange, Gets, Hold, Reject, git
<1> QED
  BY <1>1, <1>2

\* Every step of a client that is not a read either leaves the lock alone, takes
\* it for that client or gives it back, and moves only that client.
LEMMA LockStep ==
    ASSUME Domains, LockInv, [Next]_vars
    PROVE  LockInv'
<1> USE DEF Domains, LockInv
<1>1. CASE UNCHANGED vars
  BY <1>1 DEF vars
<1>2. CASE Edit
  BY <1>2 DEF Edit
<1>3. ASSUME NEW c \in Clients, NEW view, Read(c, view)
      PROVE  LockInv'
  BY <1>3 DEF Read
<1>4. ASSUME NEW c \in Clients, Reads(c)
      PROVE  LockInv'
  BY <1>3, <1>4 DEF Reads, ReadState, ReadSnapshot, ReadDiff, ReadFile
<1>5. ASSUME NEW c \in Clients, Answer(c), UNCHANGED mu, mu # c
      PROVE  LockInv'
  BY <1>5 DEF Answer
<1>6. ASSUME NEW c \in Clients, Answer(c), Unlock, mu = c
      PROVE  LockInv'
  BY <1>6, ConstantsAssumption DEF Answer, Unlock
<1>7. ASSUME NEW c \in Clients, NEW r, Hold(c, r), mu = Nobody, seen[c] # NoView
      PROVE  LockInv'
  BY <1>7, ConstantsAssumption DEF Hold
<1>8. ASSUME NEW c \in Clients, Asks(c)
      PROVE  LockInv'
  <2>1. pc[c] = "idle" /\ seen[c] # NoView
    BY <1>8, AskShape
  <2>2. CASE Reject(c)
    BY <1>5, <2>1, <2>2 DEF Reject
  <2>3. ASSUME NEW op, Wait(c, op)
        PROVE  LockInv'
    BY <2>1, <2>3 DEF Wait
  <2> QED  BY <1>8, <2>2, <2>3, AskShape
<1>9. ASSUME NEW c \in Clients, Takes(c)
      PROVE  LockInv'
  <2>1. mu = Nobody /\ seen[c] # NoView
    BY <1>9 DEF Takes, Stage, Unstage, DiscardDecide, CommitDecide, StageAllCheck,
                PatchCheck, WriteCheck, GetsChange, Gets
  <2>2. (\E r : Hold(c, r)) \/ (Answer(c) /\ UNCHANGED mu)
    BY <1>9 DEF Takes, Stage, Unstage, DiscardDecide, CommitDecide, StageAllCheck,
                PatchCheck, WriteCheck, Reject
  <2> QED  BY <1>5, <1>7, <2>1, <2>2, ConstantsAssumption
<1>10. ASSUME NEW c \in Clients, Finishes(c)
       PROVE  LockInv'
  BY <1>6, <1>10 DEF Finishes, DiscardRemove, DiscardRestore, Commit, StageAll,
                     PatchIndex, PatchWorktree, WriteFile, Holds
<1>11. ASSUME NEW c \in Clients, Stops(c)
       PROVE  LockInv'
  <2>1. CASE Hangs(c)
    BY <2>1, ConstantsAssumption DEF Hangs
  <2> QED  BY <1>5, <1>6, <1>11, <2>1, StopShape, ConstantsAssumption
<1> QED
  BY <1>1, <1>2, <1>4, <1>8, <1>9, <1>10, <1>11 DEF Next

\* Only an edit from outside counts as one, and it is never taken back.
LEMMA EditsCount ==
    ASSUME Domains, [Next]_vars
    PROVE  edits' = 0 => edits = 0
<1>1. ASSUME NEW c \in Clients, Reads(c) \/ Asks(c) \/ Stops(c)
      PROVE  UNCHANGED edits
  BY <1>1, AskShape, StopShape
  DEF Reads, ReadState, ReadSnapshot, ReadDiff, ReadFile, Read, Wait, Reject
<1>2. ASSUME NEW c \in Clients, Takes(c)
      PROVE  UNCHANGED edits
  BY <1>2 DEF Takes, Stage, Unstage, DiscardDecide, CommitDecide, StageAllCheck,
              PatchCheck, WriteCheck, Hold, Reject
<1>3. ASSUME NEW c \in Clients, Finishes(c)
      PROVE  UNCHANGED edits
  BY <1>3 DEF Finishes, DiscardRemove, DiscardRestore, Commit, StageAll,
              PatchIndex, PatchWorktree, WriteFile
<1>4. CASE Edit
  BY <1>4 DEF Edit, Domains
<1>5. CASE UNCHANGED vars
  BY <1>5 DEF vars
<1> QED
  BY <1>1, <1>2, <1>3, <1>4, <1>5 DEF Next

\* While a client holds r.mu nobody else moves HEAD or the index, and without
\* outside edits nobody moves the worktree either; its own request and what it
\* read stay as they were.
LEMMA LockedKeeps ==
    ASSUME Domains, LockInv, [Next]_vars, NEW c \in Clients,
           pc[c] = "locked", pc'[c] = "locked"
    PROVE  /\ UNCHANGED <<oid, head, index>>
           /\ seen'[c] = seen[c] /\ req'[c] = req[c]
           /\ edits' = 0 => UNCHANGED wt
<1> USE DEF Domains, LockInv
<1>1. mu = c /\ mu # Nobody
  BY ConstantsAssumption
<1>2. ASSUME NEW d \in Clients, Answer(d)
      PROVE  d # c
  BY <1>2 DEF Answer
<1>3. ASSUME NEW d \in Clients, Finishes(d)
      PROVE  FALSE
  <2>1. pc[d] = "locked" /\ Answer(d)
    BY <1>3 DEF Finishes, DiscardRemove, DiscardRestore, Commit, StageAll,
                PatchIndex, PatchWorktree, WriteFile, Holds
  <2> QED  BY <1>1, <1>2, <2>1
<1>4. ASSUME NEW d \in Clients, Takes(d)
      PROVE  FALSE
  BY <1>1, <1>4 DEF Takes, Stage, Unstage, DiscardDecide, CommitDecide, StageAllCheck,
                    PatchCheck, WriteCheck, GetsChange, Gets
<1>5. UNCHANGED <<oid, head, index>>
  BY <1>1, <1>3, IndexUnderLock
<1>6. seen'[c] = seen[c] /\ req'[c] = req[c] /\ (edits' = 0 => UNCHANGED wt)
  <2>1. CASE UNCHANGED vars
    BY <2>1 DEF vars
  <2>2. CASE Edit
    BY <2>2 DEF Edit, Domains
  <2>3. ASSUME NEW d \in Clients, Reads(d)
        PROVE  seen'[c] = seen[c] /\ req'[c] = req[c] /\ UNCHANGED wt
    BY <2>3 DEF Reads, ReadState, ReadSnapshot, ReadDiff, ReadFile, Read, git
  <2>4. ASSUME NEW d \in Clients, Asks(d) \/ Stops(d)
        PROVE  seen'[c] = seen[c] /\ req'[c] = req[c] /\ UNCHANGED wt
    <3>1. CASE Answer(d) /\ UNCHANGED git
      BY <1>2, <3>1 DEF Answer, git
    <3>2. ASSUME NEW op, Wait(d, op), pc[d] = "idle"
          PROVE  seen'[c] = seen[c] /\ req'[c] = req[c] /\ UNCHANGED wt
      BY <3>2 DEF Wait, git
    <3>3. CASE Hangs(d)
      BY <1>1, <3>3 DEF Hangs, git
    <3> QED  BY <2>4, <3>1, <3>2, <3>3, AskShape, StopShape DEF Reject
  <2> QED
    BY <1>3, <1>4, <2>1, <2>2, <2>3, <2>4 DEF Next
<1> QED
  BY <1>5, <1>6

\* A client that has just taken r.mu and kept it did so after its checks.
LEMMA LockTaken ==
    ASSUME Domains, [Next]_vars, NEW c \in Clients, pc[c] # "locked", pc'[c] = "locked"
    PROVE  /\ UNCHANGED git /\ UNCHANGED seen
           /\ req'[c].op \in GuardedOps => Fresh(c)
           /\ req'[c].op = "remove" =>
                 index[req'[c].path] = Absent /\ head[req'[c].path] = Absent
           /\ req'[c].op = "commit" => \E p \in Paths : Staged(p)
<1> USE DEF Domains, GuardedOps
<1>1. Takes(c)
  <2>1. ASSUME NEW d \in Clients, Answer(d)
        PROVE  FALSE
    BY <2>1 DEF Answer
  <2>2. ASSUME NEW d \in Clients, Finishes(d) \/ Stops(d)
        PROVE  FALSE
    BY <2>1, <2>2, StopShape
    DEF Finishes, DiscardRemove, DiscardRestore, Commit, StageAll, PatchIndex,
        PatchWorktree, WriteFile, Hangs
  <2>3. ASSUME NEW d \in Clients, Asks(d)
        PROVE  FALSE
    BY <2>1, <2>3, AskShape DEF Wait, Reject
  <2>4. ASSUME NEW d \in Clients, Takes(d)
        PROVE  d = c
    <3>1. PICK r : Hold(d, r)
      BY <2>1, <2>4 DEF Takes, Stage, Unstage, DiscardDecide, CommitDecide,
                        StageAllCheck, PatchCheck, WriteCheck, Reject
    <3> QED  BY <3>1 DEF Hold
  <2>5. ~Edit /\ ~UNCHANGED vars /\ ~(\E d \in Clients : Reads(d))
    BY DEF Edit, vars, Reads, ReadState, ReadSnapshot, ReadDiff, ReadFile, Read
  <2> QED
    BY <2>2, <2>3, <2>4, <2>5 DEF Next
<1>2. ~Answer(c) /\ ~Reject(c)
  BY DEF Answer, Reject
<1>3. ASSUME NEW r, Hold(c, r)
      PROVE  req'[c] = r /\ UNCHANGED git /\ UNCHANGED seen
  BY <1>3 DEF Hold
<1>4. CASE DiscardDecide(c)
  BY <1>2, <1>3, <1>4 DEF DiscardDecide, Request, Untracked, Staged
<1>5. CASE CommitDecide(c)
  BY <1>2, <1>3, <1>5 DEF CommitDecide, Request
<1>6. CASE StageAllCheck(c)
  BY <1>2, <1>3, <1>6 DEF StageAllCheck, Gets
<1>7. CASE PatchCheck(c)
  BY <1>2, <1>3, <1>7 DEF PatchCheck, Patch
<1>8. CASE WriteCheck(c)
  BY <1>2, <1>3, <1>8 DEF WriteCheck, Gets
<1> QED
  BY <1>1, <1>2, <1>4, <1>5, <1>6, <1>7, <1>8 DEF Takes, Stage, Unstage

------------------------------------------------------------------------------
(* The guarded mutations and the decisions taken under the lock.           *)

\* The decisions of one client: in the primed state only its own request, HEAD
\* and the index matter.
LEMMA GuardedStep ==
    ASSUME IInv, [Next]_vars
    PROVE  GuardedIndexFresh' /\ DecisionsHold'
<1> USE DEF IInv
<1>1. ASSUME NEW c \in Clients, pc'[c] = "locked",
             req'[c].op \in GuardedOps \ {"write"}
      PROVE  (IndexFingerprint(seen[c].kind, seen[c].path) = IndexPart(seen[c]))'
  <2>1. CASE pc[c] = "locked"
    BY <1>1, <2>1, LockedKeeps
    DEF GuardedIndexFresh, IndexFingerprint, IndexPart, DiffFingerprint
  <2>2. CASE pc[c] # "locked"
    <3>1. IndexFingerprint(seen[c].kind, seen[c].path) = IndexPart(seen[c])
      BY <1>1, <2>2, LockTaken, FreshIndex
    <3>2. UNCHANGED <<oid, head, index, seen>>
      BY <1>1, <2>2, LockTaken DEF git
    <3> QED  BY <3>1, <3>2 DEF IndexFingerprint, IndexPart, DiffFingerprint
  <2> QED  BY <2>1, <2>2
<1>2. ASSUME NEW c \in Clients, pc'[c] = "locked"
      PROVE  /\ req'[c].op = "remove" =>
                   index'[req'[c].path] = Absent /\ head'[req'[c].path] = Absent
             /\ req'[c].op = "commit" => (\E p \in Paths : Staged(p))'
  <2>1. CASE pc[c] = "locked"
    BY <1>2, <2>1, LockedKeeps DEF DecisionsHold, Holds, Staged
  <2>2. CASE pc[c] # "locked"
    BY <1>2, <2>2, LockTaken DEF git, Staged
  <2> QED  BY <2>1, <2>2
<1> QED
  BY <1>1, <1>2 DEF GuardedIndexFresh, DecisionsHold, Holds

\* The inductive invariant of Mutations.
THEOREM Inductive == Spec => []IInv
<1>1. Init => IInv
  <2> SUFFICES ASSUME Init PROVE IInv
    OBVIOUS
  <2>1. Domains
    BY DEF Init, Domains, NoRequest, Request, Requests, Asked, RepositoryOps, Versions
  <2>2. LockInv
    BY ConstantsAssumption DEF Init, LockInv
  <2>3. GuardedIndexFresh /\ DecisionsHold
    BY DEF Init, GuardedIndexFresh, DecisionsHold, Holds
  <2> QED  BY <2>1, <2>2, <2>3 DEF IInv
<1>2. IInv /\ [Next]_vars => IInv'
  BY TypeStep, LockStep, GuardedStep DEF IInv
<1> QED
  BY <1>1, <1>2, PTL DEF Spec

\* GuardedIndexFresh: StageAll and ApplyPatch (to stage, to unstage and to discard)
\* act on the commit, the tree and the index entries their client read, however many
\* clients and outside edits race them.
THEOREM GuardedIndexFreshness == Spec => []GuardedIndexFresh
<1>1. IInv => GuardedIndexFresh
  BY DEF IInv
<1> QED
  BY <1>1, Inductive, PTL

\* DecisionsHold: Discard and Commit act on decisions that still hold.
THEOREM DecisionsStayValid == Spec => []DecisionsHold
<1>1. IInv => DecisionsHold
  BY DEF IInv
<1> QED
  BY <1>1, Inductive, PTL

\* GuardedFresh: until something outside the daemon edits a file, the guarded
\* mutations act on exactly the state their client read, worktree included.
THEOREM GuardedFreshness == Spec => []GuardedFresh
<1>1. Init => GuardedFresh
  BY DEF Init, GuardedFresh
<1>2. IInv /\ GuardedFresh /\ [Next]_vars => GuardedFresh'
  <2> SUFFICES ASSUME IInv, GuardedFresh, [Next]_vars, edits' = 0,
                      NEW c \in Clients, pc'[c] = "locked", req'[c].op \in GuardedOps
               PROVE  Fresh(c)'
    BY DEF GuardedFresh
  <2> USE DEF Fresh, Fingerprint, SnapshotFingerprint, DiffFingerprint, FileFingerprint
  <2>3. edits = 0
    BY EditsCount DEF IInv
  <2>1. CASE pc[c] = "locked"
    <3>1. UNCHANGED <<oid, head, index, wt>> /\ seen'[c] = seen[c] /\ req'[c] = req[c]
      BY <2>1, <2>3, LockedKeeps DEF IInv
    <3> QED  BY <2>1, <2>3, <3>1 DEF GuardedFresh
  <2>2. CASE pc[c] # "locked"
    <3>1. Fresh(c) /\ UNCHANGED <<oid, head, index, wt>> /\ UNCHANGED seen
      BY <2>2, LockTaken DEF IInv, git
    <3> QED  BY <3>1
  <2> QED  BY <2>1, <2>2
<1> QED
  BY <1>1, <1>2, Inductive, PTL DEF Spec

------------------------------------------------------------------------------
(* The refinement of ReviewedRepository.                                   *)

\* Request r is about view v: it names the file the client was looking at, and
\* a patch changes between the two versions shown there.
About(r, v) ==
    LET patches(kind, old, new) ==
            /\ v.kind = kind /\ r.path = v.path
            /\ r.pre = v.fp[old] /\ r.post = v.fp[new]
            /\ Reviewed!Differ(v.fp[1], v.fp[2], r.hunk)
    IN  \/ r.op \in {"change", "patch"} /\ v.kind \in Areas /\ r.path = v.path
        \/ r.op \in {"remove", "restore"} /\ v.kind = "unstaged" /\ r.path = v.path
        \/ r.op \in {"commit", "stage_all"} /\ v.kind = "snapshot"
        \/ r.op = "write" /\ v.kind = "file" /\ r.path = v.path
        \/ r.op = "apply_index" /\ (patches("unstaged", 1, 2) \/ patches("staged", 2, 1))
        \/ r.op = "apply_worktree" /\ patches("unstaged", 2, 1)

\* Every request under way is about what its client still has on the screen.
AboutInv ==
    \A c \in Clients : pc[c] \in {"waiting", "locked"} => About(req[c], seen[c])

\* A patch is about the diff it was compared with.
LEMMA PatchIsAbout ==
    ASSUME Domains, NEW c \in Clients, NEW action \in Actions,
           NEW h \in Hunks \cup {WholeFile}, seen[c] # NoView,
           seen[c].kind = Area(action), Fresh(c), index[seen[c].path] # Unmerged,
           h \in DiffHunks(Patch(action, seen[c].path, h).pre,
                           Patch(action, seen[c].path, h).post)
    PROVE  About(Patch(action, seen[c].path, h), seen[c])
<1> DEFINE p == seen[c].path  r == Patch(action, p, h)
<1>1. p \in Paths
  BY DEF Domains, Area, Views
<1>2. seen[c].fp = IF action = "unstage" THEN <<head[p], index[p]>>
                   ELSE <<index[p], wt[p]>>
  BY DEF Area, Actions, Fresh, Fingerprint, DiffFingerprint
<1>3. head[p] # Unmerged /\ wt[p] # Unmerged
  BY <1>1, ConstantsAssumption DEF Domains, Versions, Contents
<1>4. Reviewed!Differ(seen[c].fp[1], seen[c].fp[2], h)
  <2>1. h \in DiffHunks(r.pre, r.post)
    OBVIOUS
  <2>2. {r.pre, r.post} = {seen[c].fp[1], seen[c].fp[2]}
    BY <1>2 DEF Patch, Actions
  <2>3. ASSUME NEW a \in Versions, NEW b \in Versions, h \in DiffHunks(a, b)
        PROVE  Reviewed!Differ(a, b, h) /\ Reviewed!Differ(b, a, h)
    BY <2>3, ConstantsAssumption DEF DiffHunks, Reviewed!Differ, Versions, Contents
  <2>4. r.pre \in Versions /\ r.post \in Versions
    BY <1>1, <1>3 DEF Patch, Domains, Entries
  <2> QED  BY <2>1, <2>2, <2>3, <2>4
<1> QED
  BY <1>2, <1>4 DEF Patch, Area, Actions, About

LEMMA AboutStep ==
    ASSUME Domains, LockInv, AboutInv, [Next]_vars
    PROVE  AboutInv'
<1> DEFINE Rest(c) == \A d \in Clients \ {c} :
                         /\ pc'[d] = pc[d] /\ req'[d] = req[d] /\ seen'[d] = seen[d]
<1>1. ASSUME NEW c \in Clients, Rest(c), pc'[c] \notin {"waiting", "locked"}
      PROVE  AboutInv'
  BY <1>1 DEF AboutInv
<1>2. ASSUME NEW c \in Clients, Answer(c)
      PROVE  AboutInv'
  BY <1>1, <1>2 DEF Answer, Domains
<1>3. ASSUME NEW c \in Clients, NEW r, Hold(c, r), About(r, seen[c])
      PROVE  AboutInv'
  <2>1. req'[c] = r /\ Rest(c) /\ UNCHANGED seen
    BY <1>3 DEF Hold, Domains
  <2> QED  BY <1>3, <2>1 DEF AboutInv
<1>4. ASSUME NEW c \in Clients, Reads(c)
      PROVE  AboutInv'
  <2>1. pc'[c] = "idle" /\ Rest(c)
    BY <1>4 DEF Reads, ReadState, ReadSnapshot, ReadDiff, ReadFile, Read, Domains
  <2> QED  BY <1>1, <2>1
<1>5. ASSUME NEW c \in Clients, Asks(c)
      PROVE  AboutInv'
  <2>1. CASE Reject(c)
    BY <1>2, <2>1 DEF Reject
  <2>2. CASE ~Reject(c)
    <3>1. PICK op \in WaitingOps :
            Wait(c, op) /\ About(Request(op, seen[c].path), seen[c])
      BY <1>5, <2>2
      DEF Asks, CheckChange, CheckCommit, Check, Ask, Has, WaitingOps, Request, About
    <3>2. /\ req'[c] = Request(op, seen[c].path) /\ Rest(c) /\ UNCHANGED seen
      BY <3>1 DEF Wait, Domains
    <3> QED  BY <3>1, <3>2 DEF AboutInv
  <2> QED  BY <2>1, <2>2
<1>6. ASSUME NEW c \in Clients, Takes(c)
      PROVE  AboutInv'
  <2>1. About(req[c], seen[c]) /\ seen[c] # NoView
    BY <1>6 DEF Takes, Stage, Unstage, DiscardDecide, CommitDecide, StageAllCheck,
                PatchCheck, WriteCheck, GetsChange, Gets, AboutInv, LockInv
  <2>2. CASE Answer(c)
    BY <1>2, <2>2
  <2>3. CASE ~Answer(c)
    <3>1. ~Stage(c) /\ ~Unstage(c) /\ ~Reject(c)
      BY <2>3 DEF Stage, Unstage, Reject
    <3>2. CASE DiscardDecide(c)
      <4>1. PICK op \in {"remove", "restore"} : Hold(c, Request(op, req[c].path))
        BY <3>1, <3>2 DEF DiscardDecide
      <4>2. seen[c].kind = "unstaged" /\ req[c].path = seen[c].path
        BY <2>1, <3>2 DEF DiscardDecide, GetsChange, Gets, Area, About
      <4> QED  BY <1>3, <4>1, <4>2 DEF Request, About
    <3>3. CASE CommitDecide(c)
      <4>1. Hold(c, Request("commit", NoPath))
        BY <3>1, <3>3 DEF CommitDecide
      <4>2. seen[c].kind = "snapshot"
        BY <2>1, <3>3 DEF CommitDecide, Gets, About
      <4> QED  BY <1>3, <4>1, <4>2 DEF Request, About
    <3>4. CASE StageAllCheck(c) \/ WriteCheck(c)
      BY <1>3, <2>1, <3>1, <3>4 DEF StageAllCheck, WriteCheck
    <3>5. CASE PatchCheck(c)
      <4>1. req[c].path = seen[c].path
        BY <2>1, <3>5 DEF PatchCheck, Gets, About
      <4>2. PICK action \in Actions, h \in Hunks \cup {WholeFile} :
              /\ seen[c].kind = Area(action) /\ index[seen[c].path] # Unmerged
              /\ Fresh(c)
              /\ h \in DiffHunks(Patch(action, seen[c].path, h).pre,
                                 Patch(action, seen[c].path, h).post)
              /\ Hold(c, Patch(action, seen[c].path, h))
        BY <3>1, <3>5, <4>1 DEF PatchCheck
      <4> QED  BY <1>3, <2>1, <4>2, PatchIsAbout
    <3> QED  BY <1>6, <3>1, <3>2, <3>3, <3>4, <3>5 DEF Takes
  <2> QED  BY <2>2, <2>3
<1>7. ASSUME NEW c \in Clients, Finishes(c)
      PROVE  AboutInv'
  BY <1>2, <1>7 DEF Finishes, DiscardRemove, DiscardRestore, Commit, StageAll,
                    PatchIndex, PatchWorktree, WriteFile
<1>8. ASSUME NEW c \in Clients, Stops(c)
      PROVE  AboutInv'
  <2>1. CASE Hangs(c)
    BY <1>1, <2>1 DEF Hangs, Domains
  <2> QED  BY <1>2, <1>8, <2>1, StopShape
<1>9. CASE Edit \/ UNCHANGED vars
  BY <1>9 DEF Edit, vars, AboutInv
<1> QED
  BY <1>4, <1>5, <1>6, <1>7, <1>8, <1>9 DEF Next

\* Taking a hunk is what ReviewedRepository says it is.
LEMMA TakeIsWith ==
    ASSUME NEW old, NEW new, NEW h
    PROVE  Take(old, new, h) = Reviewed!With(old, new, h)
<1>1. CASE h = WholeFile
  BY <1>1 DEF Take, Reviewed!With
<1>2. CASE h # WholeFile
  <2>1. (old \ {h}) \cup (new \cap {h})
          = {k \in old \cup new : IF k = h THEN k \in new ELSE k \in old}
    OBVIOUS
  <2> QED  BY <1>2, <2>1 DEF Take, Reviewed!With
<1> QED
  BY <1>1, <1>2

\* A client that is answered has nothing left on the screen.
LEMMA AnswerIsDone ==
    ASSUME Domains, NEW c \in Clients, Answer(c), UNCHANGED edits
    PROVE  Reviewed!Done(c)
<1>1. \A d \in Clients : seen'[d] = IF d = c THEN NoView ELSE seen[d]
  BY DEF Answer, Domains
<1>2. [d \in Clients |-> Shown(seen'[d])]
        = [[d \in Clients |-> Shown(seen[d])] EXCEPT ![c] = Reviewed!Nothing]
  BY <1>1 DEF Shown, Reviewed!Nothing
<1> QED
  BY <1>2 DEF Reviewed!Done, Shown

\* An answer that changes nothing is a review that ends without a mutation.
LEMMA AnswerForgets ==
    ASSUME Domains, NEW c \in Clients, Answer(c), UNCHANGED edits, UNCHANGED git
    PROVE  Reviewed!Next
  BY AnswerIsDone
  DEF git, Reviewed!Forget, Reviewed!repository, Reviewed!Reviews, Reviewed!Next

\* So is a request that hangs: nobody waits for its answer any more.
LEMMA HangForgets ==
    ASSUME Domains, NEW c \in Clients, Hangs(c)
    PROVE  Reviewed!Next
<1>1. \A d \in Clients : seen'[d] = IF d = c THEN NoView ELSE seen[d]
  BY DEF Hangs, Domains
<1>2. [d \in Clients |-> Shown(seen'[d])]
        = [[d \in Clients |-> Shown(seen[d])] EXCEPT ![c] = Reviewed!Nothing]
  BY <1>1 DEF Shown, Reviewed!Nothing
<1>3. UNCHANGED <<oid, head, index, wt>> /\ UNCHANGED edits
  BY DEF Hangs, git
<1> QED
  BY <1>2, <1>3
  DEF Reviewed!Done, Reviewed!Forget, Reviewed!repository, Reviewed!Reviews,
      Reviewed!Next, Shown

\* A client that is answered used the view it had, of whatever kind that was.
LEMMA AnswerUses ==
    ASSUME Domains, NEW c \in Clients, Answer(c), UNCHANGED edits,
           seen[c] # NoView, NEW kind, kind # "listing", seen[c].kind = kind
    PROVE  /\ [d \in Clients |-> Shown(seen[d])][c]
                = [kind |-> seen[c].kind, path |-> seen[c].path, fp |-> seen[c].fp]
           /\ Reviewed!Uses(c, kind)
<1>1. [d \in Clients |-> Shown(seen[d])][c]
        = [kind |-> seen[c].kind, path |-> seen[c].path, fp |-> seen[c].fp]
  BY DEF Shown
<1> QED
  BY <1>1, AnswerIsDone DEF Reviewed!Uses

\* What the holder does to the repository is one reviewed mutation, or nothing.
LEMMA FinishRefines ==
    ASSUME IInv, AboutInv, GuardedFresh, NEW c \in Clients, Finishes(c)
    PROVE  Reviewed!Next
<1> DEFINE r == req[c]  v == seen[c]  p == seen[c].path
           shown == [d \in Clients |-> Shown(seen[d])]
<1>1. /\ Domains /\ LockInv /\ pc[c] = "locked" /\ v # NoView /\ About(r, v)
      /\ Answer(c) /\ UNCHANGED edits
  BY DEF IInv, LockInv, AboutInv, Finishes, DiscardRemove, DiscardRestore, Commit,
         StageAll, PatchIndex, PatchWorktree, WriteFile, Holds
<1>2. ASSUME NEW kind, kind # "listing", v.kind = kind
      PROVE  Reviewed!Uses(c, kind) /\ shown[c].path = p /\ shown[c].fp = v.fp
  <2>1. shown[c] = [kind |-> v.kind, path |-> p, fp |-> v.fp] /\ Reviewed!Uses(c, kind)
    BY <1>1, <1>2, AnswerUses
  <2> HIDE DEF shown
  <2> QED  BY <2>1
<1> HIDE DEF shown
<1>3. ASSUME UNCHANGED git PROVE Reviewed!Next
  BY <1>1, <1>3, AnswerForgets
<1>4. SUFFICES ASSUME git' # git PROVE Reviewed!Reviews(c)
  BY <1>3 DEF Reviewed!Next
<1>5. edits = 0 /\ r.op \in GuardedOps => Fresh(c)
  BY <1>1 DEF GuardedFresh
<1>6. ASSUME v.kind = "unstaged", r.op \in {"apply_index", "apply_worktree"}
      PROVE  v.fp[1] = index[p]
  BY <1>1, <1>6 DEF IInv, GuardedIndexFresh, GuardedOps, IndexFingerprint, IndexPart
<1>7. CASE DiscardRemove(c)
  <2>1. r.op = "remove" /\ r.path = p /\ v.kind = "unstaged"
    BY <1>1, <1>7 DEF DiscardRemove, Holds, About
  <2>2. index[p] = Absent /\ head[p] = Absent
    BY <1>7, <2>1 DEF DiscardRemove, IInv, DecisionsHold
  <2>3. Reviewed!SetFile(p, Absent)
    BY <1>7, <2>1 DEF DiscardRemove, Reviewed!SetFile
  <2>4. Reviewed!Remove(c)
    BY <1>2, <2>1, <2>2, <2>3 DEF Reviewed!Remove, shown
  <2> QED  BY <2>4 DEF Reviewed!Reviews
<1>8. CASE DiscardRestore(c)
  <2>1. r.op = "restore" /\ r.path = p /\ v.kind = "unstaged"
    BY <1>1, <1>8 DEF DiscardRestore, Holds, About
  <2>2. CanRestore(p) /\ GitRestore(p)
    BY <1>4, <1>8, <2>1 DEF DiscardRestore
  <2>3. Reviewed!SetFile(p, index[p]) /\ index[p] \notin {Absent, Unmerged}
    BY <2>2 DEF GitRestore, CanRestore, IsContent, Reviewed!SetFile
  <2>4. Reviewed!Restore(c)
    BY <1>2, <2>1, <2>3 DEF Reviewed!Restore, shown
  <2> QED  BY <2>4 DEF Reviewed!Reviews
<1>9. CASE Commit(c)
  <2>1. v.kind = "snapshot"
    BY <1>1, <1>9 DEF Commit, Holds, About
  <2>2. CanCommit /\ GitCommit
    BY <1>4, <1>9 DEF Commit
  <2>3. Reviewed!Commit(c)
    BY <1>2, <2>1, <2>2 DEF CanCommit, GitCommit, Reviewed!Commit
  <2> QED  BY <2>3 DEF Reviewed!Reviews
<1>10. CASE StageAll(c)
  <2>1. v.kind = "snapshot" /\ r.op = "stage_all" /\ GitAddAll
    BY <1>1, <1>10 DEF StageAll, Holds, About
  <2>2. v.fp[1] = oid /\ v.fp[2] = head /\ v.fp[3] = index
    BY <1>1, <2>1
    DEF IInv, GuardedIndexFresh, GuardedOps, IndexFingerprint, IndexPart
  <2>3. edits = 0 => v.fp[4] = wt
    BY <1>5, <2>1 DEF GuardedOps, Fresh, Fingerprint, SnapshotFingerprint
  <2>4. Reviewed!StageAll(c)
    BY <1>1, <1>2, <2>1, <2>2, <2>3 DEF GitAddAll, Reviewed!StageAll, shown, Domains
  <2> QED  BY <2>4 DEF Reviewed!Reviews
<1>11. CASE PatchIndex(c)
  <2>1. r.op = "apply_index" /\ r.path = p /\ r.hunk \in {WholeFile} \cup Hunks
    BY <1>1, <1>11 DEF PatchIndex, Holds, About, Domains, Requests, Asked
  <2>2. Reviewed!SetIndex(p, Reviewed!With(index[p], r.post, r.hunk))
    BY <1>4, <1>11, <2>1, TakeIsWith DEF PatchIndex, Reviewed!SetIndex
  <2>3. Reviewed!Differ(v.fp[1], v.fp[2], r.hunk)
    BY <1>1, <2>1 DEF About
  <2>4. CASE v.kind = "unstaged"
    <3>1. v.fp[1] = index[p] /\ r.post = v.fp[2]
      BY <1>1, <1>6, <2>1, <2>4 DEF About
    <3>2. Reviewed!StageHunk(c, r.hunk)
      BY <1>2, <2>2, <2>3, <2>4, <3>1 DEF Reviewed!StageHunk, shown
    <3> QED  BY <2>1, <3>2 DEF Reviewed!Reviews
  <2>5. CASE v.kind = "staged"
    <3>1. r.post = v.fp[1]
      BY <1>1, <2>1, <2>5 DEF About
    <3>4. v.fp = DiffFingerprint(p, "staged")
      BY <1>1, <2>1, <2>5
      DEF IInv, GuardedIndexFresh, GuardedOps, IndexFingerprint, IndexPart
    <3>5. v.fp = <<head[p], index[p]>>
      BY <2>3, <3>4 DEF DiffFingerprint, Reviewed!Differ
    <3>2. v.fp[1] = head[p] /\ v.fp[2] = index[p]
      BY <3>5
    <3>3. Reviewed!UnstageHunk(c, r.hunk)
      BY <1>2, <2>2, <2>3, <2>5, <3>1, <3>2 DEF Reviewed!UnstageHunk, shown
    <3> QED  BY <2>1, <3>3 DEF Reviewed!Reviews
  <2> QED  BY <1>1, <2>1, <2>4, <2>5 DEF About
<1>12. CASE PatchWorktree(c)
  <2>1. /\ r.op = "apply_worktree" /\ r.path = p /\ r.hunk \in {WholeFile} \cup Hunks
        /\ v.kind = "unstaged" /\ r.pre = v.fp[2] /\ r.post = v.fp[1]
        /\ Reviewed!Differ(v.fp[1], v.fp[2], r.hunk)
    BY <1>1, <1>12 DEF PatchWorktree, Holds, About, Domains, Requests, Asked
  <2>2. Reviewed!SetFile(p, Reviewed!With(wt[p], v.fp[1], r.hunk))
    BY <1>4, <1>12, <2>1, TakeIsWith DEF PatchWorktree, Reviewed!SetFile
  <2>3. HunkMatches(wt[p], v.fp[2], r.hunk)
    BY <1>4, <1>12, <2>1 DEF PatchWorktree
  <2>4. Reviewed!AgreeOn(wt[p], v.fp[2], r.hunk)
    BY <2>3 DEF HunkMatches, IsContent, Reviewed!AgreeOn
  <2>5. v.fp[1] = index[p]
    BY <1>6, <2>1
  <2>6. edits = 0 => v.fp[2] = wt[p]
    BY <1>5, <2>1 DEF GuardedOps, Fresh, Fingerprint, DiffFingerprint
  <2>7. Reviewed!DiscardHunk(c, r.hunk)
    BY <1>1, <1>2, <2>1, <2>2, <2>4, <2>5, <2>6
    DEF Reviewed!DiscardHunk, shown, Domains
  <2> QED  BY <2>1, <2>7 DEF Reviewed!Reviews
<1>13. CASE WriteFile(c)
  <2>1. r.op = "write" /\ v.kind = "file" /\ r.path = p
    BY <1>1, <1>13 DEF WriteFile, Holds, About
  <2>2. \E text \in Contents : Reviewed!SetFile(p, text)
    BY <1>13, <2>1 DEF WriteFile, Reviewed!SetFile
  <2>3. edits = 0 => v.fp[1] = wt[p]
    BY <1>5, <2>1 DEF GuardedOps, Fresh, Fingerprint, FileFingerprint
  <2>4. Reviewed!Write(c)
    BY <1>1, <1>2, <2>1, <2>2, <2>3 DEF Reviewed!Write, shown, Domains, Contents
  <2> QED  BY <2>4 DEF Reviewed!Reviews
<1> QED
  BY <1>7, <1>8, <1>9, <1>10, <1>11, <1>12, <1>13 DEF Finishes

\* A step that touches neither Git, nor the edits, nor what is shown.
LEMMA NothingShown ==
    ASSUME UNCHANGED git, UNCHANGED seen, UNCHANGED edits
    PROVE  UNCHANGED Reviewed!state
  BY DEF git, Reviewed!state

\* Taking r.mu is no step of ReviewedRepository; staging and unstaging a file,
\* done as soon as it is taken, are.
LEMMA TakeRefines ==
    ASSUME IInv, AboutInv, NEW c \in Clients, Takes(c)
    PROVE  [Reviewed!Next]_Reviewed!state
<1> DEFINE r == req[c]  v == seen[c]  p == seen[c].path
           shown == [d \in Clients |-> Shown(seen[d])]
<1>1. Domains
  BY DEF IInv
<1>2. ASSUME Reject(c) \/ \E q : Hold(c, q)
      PROVE  [Reviewed!Next]_Reviewed!state
  BY <1>1, <1>2, AnswerForgets, NothingShown DEF Reject, Hold
<1>3. CASE Stage(c) \/ Unstage(c)
  <2>1. /\ Answer(c) /\ UNCHANGED edits
        /\ v # NoView /\ About(r, v) /\ r.op = "change"
    BY <1>3 DEF Stage, Unstage, GetsChange, Gets, IInv, LockInv, AboutInv
  <2>2. ASSUME NEW kind, kind # "listing", v.kind = kind
        PROVE  Reviewed!Uses(c, kind) /\ shown[c].path = p
    <3>1. shown[c] = [kind |-> v.kind, path |-> p, fp |-> v.fp] /\ Reviewed!Uses(c, kind)
      BY <1>1, <2>1, <2>2, AnswerUses
    <3> HIDE DEF shown
    <3> QED  BY <3>1
  <2> HIDE DEF shown
  <2>3. CASE UNCHANGED git
    BY <1>1, <2>1, <2>3, AnswerForgets
  <2>4. CASE Stage(c) /\ git' # git
    <3>1. v.kind = "unstaged" /\ r.path = p
      BY <2>1, <2>4 DEF Stage, GetsChange, Area, About
    <3>2. Reviewed!SetIndex(p, wt[p])
      BY <2>4, <3>1 DEF Stage, GitAdd, Reviewed!SetIndex
    <3>3. Reviewed!Stage(c)
      BY <2>2, <3>1, <3>2 DEF Reviewed!Stage, shown
    <3> QED  BY <3>3 DEF Reviewed!Reviews, Reviewed!Next
  <2>5. CASE Unstage(c) /\ git' # git
    <3>1. v.kind = "staged" /\ r.path = p
      BY <2>1, <2>5 DEF Unstage, GetsChange, Area, About
    <3>2. Reviewed!SetIndex(p, head[p])
      BY <2>5, <3>1 DEF Unstage, GitUnstage, Reviewed!SetIndex
    <3>3. Reviewed!Unstage(c)
      BY <2>2, <3>1, <3>2 DEF Reviewed!Unstage, shown
    <3> QED  BY <3>3 DEF Reviewed!Reviews, Reviewed!Next
  <2> QED  BY <1>3, <2>3, <2>4, <2>5
<1>4. CASE ~(Stage(c) \/ Unstage(c))
  BY <1>2, <1>4 DEF Takes, DiscardDecide, CommitDecide, StageAllCheck, PatchCheck,
                   WriteCheck
<1> QED
  BY <1>3, <1>4

\* A read puts the state of the moment on the screen; the list of files that
\* comes before a snapshot is not yet one.
LEMMA ReadRefines ==
    ASSUME Domains, NEW c \in Clients, Reads(c)
    PROVE  Reviewed!Next
<1> DEFINE shown == [d \in Clients |-> Shown(seen[d])]
<1>1. ASSUME NEW view, Read(c, view)
      PROVE  /\ shown' = [shown EXCEPT ![c] = Shown(view)]
             /\ UNCHANGED git /\ UNCHANGED edits
  <2>1. \A d \in Clients : seen'[d] = IF d = c THEN view ELSE seen[d]
    BY <1>1 DEF Read, Domains
  <2>2. [d \in Clients |-> Shown(seen'[d])] = [shown EXCEPT ![c] = Shown(view)]
    BY <2>1 DEF Shown
  <2> QED  BY <1>1, <2>2 DEF Read, Shown
<1>2. ASSUME NEW kind \in {"snapshot", "unstaged", "staged", "file"},
             NEW p \in {NoPath} \cup Paths, kind = "snapshot" <=> p = NoPath,
             NEW torn \in BOOLEAN, kind = "snapshot" \/ torn = FALSE,
             Read(c, View(kind, p, torn))
      PROVE  Reviewed!Show(c)
  <2>1. Fingerprint(kind, p) = Reviewed!Look(kind, p)
    BY DEF Fingerprint, SnapshotFingerprint, DiffFingerprint, FileFingerprint,
           Reviewed!Look, Reviewed!repository
  <2>2. View(kind, p, torn) # NoView
    BY <1>2, ViewType, NoViewAssumption DEF Areas
  <2>3. Shown(View(kind, p, torn))
          = [kind |-> kind, path |-> p, fp |-> Reviewed!Look(kind, p)]
    BY <2>1, <2>2 DEF Shown, View
  <2>4. shown' = [shown EXCEPT ![c] = Reviewed!Sight(kind, p)]
    BY <1>1, <1>2, <2>3 DEF Reviewed!Sight
  <2>5. UNCHANGED <<oid, head, index, wt>> /\ UNCHANGED edits
    BY <1>1, <1>2 DEF git
  <2>6. Reviewed!Sight(kind, p) \in Reviewed!Sights
    BY <1>2, ConstantsAssumption DEF Reviewed!Sights
  <2>7. shown'[c] = Reviewed!Sight(kind, p)
    BY <2>4
  <2> QED  BY <2>4, <2>5, <2>6, <2>7 DEF Reviewed!Show, Reviewed!repository
<1>3. CASE ReadState(c)
  <2>1. PICK view : Read(c, view) /\ view.kind = "listing"
    BY <1>3 DEF ReadState
  <2>2. Shown(view) = Reviewed!Nothing
    BY <2>1 DEF Shown, Reviewed!Nothing
  <2>3. Reviewed!Forget(c)
    BY <1>1, <2>1, <2>2
    DEF Reviewed!Forget, Reviewed!Done, Reviewed!repository, git
  <2> QED  BY <2>3 DEF Reviewed!Reviews, Reviewed!Next
<1>4. CASE ReadSnapshot(c)
  <2>1. PICK torn \in BOOLEAN : Read(c, View("snapshot", NoPath, torn))
    BY <1>4 DEF ReadSnapshot
  <2>2. Reviewed!Show(c)
    BY <1>2, <2>1
  <2> QED  BY <2>2 DEF Reviewed!Reviews, Reviewed!Next
<1>5. CASE ReadDiff(c) \/ ReadFile(c)
  <2>1. PICK kind \in {"unstaged", "staged", "file"}, p \in Paths :
          Read(c, View(kind, p, FALSE))
    BY <1>5 DEF ReadDiff, ReadFile, Areas
  <2>2. p # NoPath
    BY ConstantsAssumption
  <2>3. Reviewed!Show(c)
    BY <1>2, <2>1, <2>2
  <2> QED  BY <2>3 DEF Reviewed!Reviews, Reviewed!Next
<1> QED
  BY <1>3, <1>4, <1>5 DEF Reads

\* Every step is one step of ReviewedRepository, or none.
LEMMA StepRefines ==
    ASSUME IInv, AboutInv, GuardedFresh, [Next]_vars
    PROVE  [Reviewed!Next]_Reviewed!state
<1>1. Domains
  BY DEF IInv
<1>2. CASE UNCHANGED vars
  BY <1>2, NothingShown DEF vars, git
<1>3. CASE Edit
  <2>1. PICK p \in Paths, v \in Versions : wt' = [wt EXCEPT ![p] = v]
    BY <1>3 DEF Edit
  <2>2. Reviewed!SetFile(p, v) /\ v \in Reviewed!Versions
    BY <1>3, <2>1 DEF Edit, Reviewed!SetFile, Versions, Contents, Reviewed!Versions
  <2>3. (edits > 0)' = TRUE
    BY <1>1, <1>3 DEF Edit, Domains
  <2>4. Reviewed!Edit
    BY <1>3, <2>2, <2>3 DEF Edit, Reviewed!Edit
  <2> QED  BY <2>4 DEF Reviewed!Next
<1>4. ASSUME NEW c \in Clients, Asks(c) \/ Stops(c)
      PROVE  [Reviewed!Next]_Reviewed!state
  <2>1. CASE Answer(c) /\ UNCHANGED git /\ UNCHANGED edits
    BY <1>1, <2>1, AnswerForgets
  <2>2. CASE Hangs(c)
    BY <1>1, <2>2, HangForgets
  <2>3. ASSUME NEW op, Wait(c, op)
        PROVE  [Reviewed!Next]_Reviewed!state
    BY <2>3, NothingShown DEF Wait
  <2> QED  BY <1>4, <2>1, <2>2, <2>3, AskShape, StopShape DEF Reject
<1> QED
  BY <1>1, <1>2, <1>3, <1>4, ReadRefines, TakeRefines, FinishRefines DEF Next

\* ImplementsReviewedRepository: whatever clients and editors do meanwhile, each
\* mutation takes effect in one step, and those that compare under r.mu take
\* effect on what their client was shown.
THEOREM RepositoryRefinement == Spec => ImplementsReviewedRepository
<1>1. Init => Reviewed!Init
  <2> SUFFICES ASSUME Init PROVE Reviewed!Init
    OBVIOUS
  <2>1. [c \in Clients |-> Shown(seen[c])] = [c \in Clients |-> Reviewed!Nothing]
    BY DEF Init, Shown, Reviewed!Nothing
  <2> QED
    BY <2>1 DEF Init, Reviewed!Init, Versions, Entries, Contents, Reviewed!Versions
<1>2. Init => AboutInv
  BY DEF Init, AboutInv
<1>3. IInv /\ AboutInv /\ [Next]_vars => AboutInv'
  BY AboutStep DEF IInv
<1>4. IInv /\ AboutInv /\ GuardedFresh /\ [Next]_vars => [Reviewed!Next]_Reviewed!state
  BY StepRefines
<1> QED
  BY <1>1, <1>2, <1>3, <1>4, Inductive, GuardedFreshness, PTL
  DEF Spec, ImplementsReviewedRepository, Reviewed!Spec

------------------------------------------------------------------------------
(* The state in which everyone waits on everyone does not exist.           *)

\* A waiting request has something to do once it has r.mu, and so has its holder.
OpInv ==
    \A c \in Clients :
        /\ pc[c] = "waiting" => req[c].op \in WaitingOps
        /\ pc[c] = "locked" => req[c].op \in LockedOps

\* Nobody waits for r.mu in vain: it is free, or its holder is inside a locked
\* section it can finish without anyone's help, or in a Git command that hangs.
SomebodyGoesOn ==
    \A c \in Clients : pc[c] = "waiting" =>
        \/ mu = Nobody /\ \E op \in WaitingOps : Gets(c, op)
        \/ \E d \in Clients \ {c} : mu = d /\ \E op \in LockedOps : Holds(d, op)
        \/ \E d \in Clients \ {c} : mu = d /\ pc[d] = "hung"

LEMMA OpStep ==
    ASSUME Domains, OpInv, [Next]_vars
    PROVE  OpInv'
<1> USE DEF Domains, OpInv
<1>1. ASSUME NEW c \in Clients, Answer(c)
      PROVE  OpInv'
  BY <1>1 DEF Answer
<1>2. ASSUME NEW c \in Clients, NEW r, Hold(c, r), r.op \in LockedOps
      PROVE  OpInv'
  BY <1>2 DEF Hold
<1>3. ASSUME NEW c \in Clients, Asks(c)
      PROVE  OpInv'
  <2>1. ASSUME NEW op \in WaitingOps, Wait(c, op)
        PROVE  OpInv'
    BY <2>1 DEF Wait, Request
  <2> QED  BY <1>1, <1>3, <2>1, AskShape DEF Reject
<1>4. ASSUME NEW c \in Clients, Takes(c)
      PROVE  OpInv'
  <2>1. Answer(c) \/ \E r : Hold(c, r) /\ r.op \in LockedOps
    <3>1. CASE Stage(c) \/ Unstage(c) \/ DiscardDecide(c) \/ CommitDecide(c)
      BY <3>1 DEF Stage, Unstage, DiscardDecide, CommitDecide, Reject, Request, LockedOps
    <3>2. CASE StageAllCheck(c) \/ WriteCheck(c)
      BY <3>2 DEF StageAllCheck, WriteCheck, Gets, Reject, LockedOps, GuardedOps
    <3>3. CASE PatchCheck(c)
      <4>1. PICK action \in Actions, h \in Hunks \cup {WholeFile} :
              Hold(c, Patch(action, req[c].path, h)) \/ Reject(c)
        BY <3>3 DEF PatchCheck
      <4>2. Patch(action, req[c].path, h).op \in LockedOps
        BY DEF Patch, LockedOps, GuardedOps
      <4> QED  BY <4>1, <4>2 DEF Reject
    <3> QED  BY <1>4, <3>1, <3>2, <3>3 DEF Takes
  <2> QED  BY <1>1, <1>2, <2>1
<1>5. ASSUME NEW c \in Clients, Finishes(c)
      PROVE  OpInv'
  BY <1>1, <1>5 DEF Finishes, DiscardRemove, DiscardRestore, Commit, StageAll,
                    PatchIndex, PatchWorktree, WriteFile
<1>6. ASSUME NEW c \in Clients, Stops(c)
      PROVE  OpInv'
  <2>1. CASE Hangs(c)
    BY <2>1 DEF Hangs
  <2> QED  BY <1>1, <1>6, <2>1, StopShape
<1>7. ASSUME NEW c \in Clients, Reads(c)
      PROVE  OpInv'
  BY <1>7 DEF Reads, ReadState, ReadSnapshot, ReadDiff, ReadFile, Read
<1>8. CASE Edit \/ UNCHANGED vars
  BY <1>8 DEF Edit, vars
<1> QED
  BY <1>3, <1>4, <1>5, <1>6, <1>7, <1>8 DEF Next

\* What EveryRequestAnswered needs of every state: a request that waits for r.mu
\* can take it, or another can finish and release it, unless that one hangs.
THEOREM NobodyWaitsInVain == Spec => []SomebodyGoesOn
<1>1. Init => OpInv
  BY DEF Init, OpInv
<1>2. IInv /\ OpInv /\ [Next]_vars => OpInv'
  BY OpStep DEF IInv
<1>3. IInv /\ OpInv => SomebodyGoesOn
  BY DEF IInv, Domains, LockInv, OpInv, SomebodyGoesOn, Gets, Holds
<1> QED
  BY <1>1, <1>2, <1>3, Inductive, PTL DEF Spec
==============================================================================
