# Verification of git-review

TLA+ models of the git-review programs, the TLC runs that check them on small
instances, and TLAPS proofs about them for every instance.

Reading order: the inventory, then one section per modelled component (its
module, its correspondence to the code, what is checked and what is proved),
then what is left out and the plan.

## The system

git-review lets a person review, in a browser, what a coding agent has changed
in a Git worktree.

- A **repository daemon** (`cmd/git-repo-server`, `internal/server`,
  `internal/repository`) serves one worktree: file list, diffs, file contents,
  mutations (stage, unstage, discard, commit, edit), comments, two kinds of event
  streams. It keeps the review session in memory only.
- A **command line tool** (`cmd/git-review`, `internal/daemon`) starts the daemon
  of the current worktree or attaches to the one that runs, streams the
  reviewer's comments to the agent that called it, and stops the daemon.
- A **hub** (`cmd/git-review-hub`, `internal/hub`, `internal/identity`) gathers the
  daemons of enrolled hosts: each daemon dials it (`internal/registration`), keeps
  a multiplexed tunnel open and registers its repository; the hub lists the
  repositories and forwards the browsers' requests through the tunnels.
- A **web interface** (`web/src`) runs in the browser, against a daemon or a hub.

```
 editor, agent ── worktree ──┐
                             │ git subprocesses
 git-review (CLI) ── HTTP ── git-repo-server ══ tunnel ══ git-review-hub ── HTTP ── browsers
   state file, flock            comments, streams            sessions, list, streams
```

### Inventory

| component | state it keeps | operations | interacts with | hard behaviours | what makes it correct | status |
|---|---|---|---|---|---|---|
| repository mutations (`internal/repository`, mutating handlers of `internal/server`) | none of its own beyond `Repository.mu` and `gitQueue`; it reads and changes HEAD, the index and the worktree | stage, unstage, discard, commit, stage all, hunk patches, file edit; state, snapshot, diff and file reads with fingerprints | browsers (HTTP), Git (subprocesses), editors and agents (the worktree) | clients and an editor racing; fingerprints compared before or after the lock; Git commands that fail; conflicts; unborn repositories | a mutation acts on what its client reviewed; a decision under the lock still holds when it is acted on; every request is answered | `Mutations`, `ReviewedRepository`, modelled |
| review session (`internal/server`: handlers, events, watch, routes) | comments and their lines, last fingerprint seen, subscribers and their channels | add, resolve, reopen and delete comments; relocate them after a change; notice changes; publish; stream; stop with a summary | browsers, the agent's CLI, the repository | location looked up without the lock and stored later; events printed and published after the lock; full channels; requests during the stop | relocation undoes no decision; nobody keeps an old view; the agent knows what is open; the summary is complete | `ReviewServer`, partly |
| hub registry (`internal/hub`) | sessions by repository ID, listed repositories with `lastSeen`, subscribers | accept and register a tunnel, refresh and recheck on a ticker, remove, expire, list, publish, stream | daemons (tunnels), browsers, the identity store | a reconnecting agent against the handler of its old tunnel; two looks at the owner with the lock released between; expiry against late refreshes; publish after unlock into full channels; revocation during a handshake | list and sessions agree; a live tunnel is reachable; an ID in use never changes hosts; no browser keeps an old list; revoked hosts leave | `HubRegistry`, partly |
| agent tunnel (`internal/registration`) | the current tunnel and the backoff | dial, register, serve, retry with backoff | the hub, the daemon's handler | the hub answers "ready" before it has registered the session; retry racing the old tunnel's removal; giving up when the first attempt fails | an agent that keeps retrying is eventually listed, by one session | `TunnelAgent`, partly |
| daemon life cycle (`internal/daemon`, `cmd/git-review`, `cmd/git-repo-server`) | lock file (flock), state file, log file, the process | start, probe, attach, stop, idle shutdown, crash | the CLI processes of one worktree | two starts at once; a state file that outlives its process; compare-then-unlink; a CLI that gives up before the daemon is up | at most one daemon per worktree; a running daemon is found again; its state file is not taken away by a predecessor | `Daemon`, modelled |
| hub identity (`internal/identity` store, pki, files; `cmd/git-review-hub`) | hosts, one-time enrollment codes, certificates, a lock file | add, enroll, revoke, allow | hosts (enrollment), the hub's handlers | one code presented twice; a crash between consuming the code and answering; writers in two processes | a code enrolls one host once; a revoked host is refused | `Enrollment`, `IdentityStore`, modelled; keys and certificates opaque |
| host credentials (`internal/identity` client, credentials; `git-review enroll`) | credentials file, one entry per hub | save, load, choose | the hub, several CLI processes | read-modify-write of the file without a lock | every completed enrollment is kept | `Enrollment`, modelled |
| pure algorithms (`SelectPatch`, `ParseDiff`, `locateComment`, `locateSourceLine`) | none | select lines of a patch; number the lines of a diff; find a commented line again | the mutations and the review session | a patch applied in reverse; content lines that look like headers; edges of hunks | a selected patch changes exactly the selected lines; located lines are the numbers `ParseDiff` shows | `Patches`, partly |
| browser controller (`repository-controller.ts`, `app.ts`, `app-model.ts`, `api-client.ts`) | repository, selection, diff, comments, streams | connect, load, select, mutate, follow streams | the daemon or the hub | overlapping asynchronous loads; a reconnecting stream; answers that arrive after the selection changed | what is shown belongs to what is selected; the newest answer wins | `ReviewPage`, partly |
| reverse proxy (`internal/hub/tunnel.go` `proxy`, `allowedProxyPath`, `crossOrigin`) | none between requests | forward a request to a session | browsers, tunnels | a session that ends during a request | forwards to the session registered when it looked | not modelled: stateless; reads one session record under the lock |
| HTTP helpers (`internal/httpapi`) | none | decode, answer, compare a bearer token | all handlers | none | - | not modelled: no state |
| web presentation (templates, shell, view, theme, language, diff and file-tree models) | none of its own | render | browser controller | none over time | - | not modelled: rendering |
| skill installer, licenses, line-count, build and release files | none | copy, print, count | - | none | - | not modelled: no behaviour over time |

`PROJECT.json` lists the hazards of each component at the line where they bite,
with the properties that watch them.

## Files

| file | what it holds |
|---|---|
| `Mutations.tla`, `HubRegistry.tla`, `ReviewServer.tla`, `Daemon.tla`, `Enrollment.tla`, `Patches.tla`, `ReviewPage.tla` | the models of the components, with their properties |
| `TunnelAgent.tla` | daemons composed with `HubRegistry`, which it extends |
| `IdentityStore.tla` | the abstract specification that `Enrollment` implements |
| `ReviewedRepository.tla` | the abstract specification that `Mutations` implements |
| `MC*.tla` | the modules TLC runs, with symmetry sets where a run uses them |
| `MC*.cfg` | the instances, one per run |
| `*_proofs.tla` | theorems and their proofs |

Inside a model, an operator whose name ends in an underscore and a word
(`Gets_NoLock`, `Expire_KeepsSessions`) is a deliberately wrong variant of the
operator that follows it. No specification uses it; putting it in place of the right one
must make a property fail, which shows that the property says something about the code.

Conventions: a step between two lock operations, or one Git command, is one action;
an action's name is the function's or says which part of the function it is;
history variables (marked so) are never read by a guard.

## `Mutations` and `ReviewedRepository`: the repository under concurrent reviewers

**What is modelled.** Any number of browser clients, each with one request at a
time, and an editor that writes the same worktree.

| TLA+ | code |
|---|---|
| `oid`, `head`, `index`, `wt` | the commit HEAD names, its tree, the index, the worktree files |
| `mu` | `Repository.mu` |
| `pc`, `req` | where the handler is: outside (`idle`), going for `r.mu` (`waiting`), past its checks and holding it (`locked`), or holding it behind a Git command that does not return (`hung`); what it wants, and once it holds the lock what it does |
| `seen` | what the browser last read, with the fingerprint that came with it |
| `ReadState`, `ReadSnapshot` | `repositoryHandler`: two separate runs of `git status` |
| `ReadDiff`, `ReadFile` | `diffHandler`, `fileHandler` |
| `CheckChange`, `CheckCommit` | `changeHandler`, `commitHandler`: the fingerprint compared before `r.mu` is taken |
| `Stage`, `Unstage`, `DiscardDecide`/`DiscardRemove`/`DiscardRestore`, `CommitDecide`/`Commit` | the operations of `changes.go`, cut between their Git commands |
| `StageAllCheck`/`StageAll`, `PatchCheck`/`PatchIndex`/`PatchWorktree`, `WriteCheck`/`WriteFile` | the operations that compare under `r.mu` |
| `Ask`, `Wait`, `Gets` | a request reaches `r.mu.Lock()`, and gets it; the action, the hunk or the text it carries is chosen where the code first uses it |
| `FileList` | the letters of `git status`, so that a list and a later snapshot can differ in what the list shows |
| `GitFails` | any Git command of an operation failing without effect |
| `Hangs`, `HungEnds` | any Git command under `r.mu` except `git commit` not returning, for a while or for ever |
| `CanAdd`, `GitAdd`, ... | the Git commands as the code uses them (external) |

**Abstractions.** A file version is the set of independent changes (hunks) it
contains, or `Absent`; an index entry can be `Unmerged`. A fingerprint is the tuple of
data it hashes (SHA-256 is taken to be injective; the modification time in a file's
fingerprint is taken to change with its content). Patches select whole hunks; selecting
single lines is left to `Patches`. Left out: renames, files too large to
show, symbolic links, branches, Git run by hand (the editor only writes
files), and what a killed Git command may leave behind (`index.lock`).

**Bounds.** `MaxEdits` outside edits and `MaxCommits` commits: past it `git commit`
fails, which it may do anyway. One edit is enough to come between any two steps of a
mutation; two clients are enough for one to interfere with another, since `r.mu` and the
fingerprints treat all others alike. One file: operations on
different files share only the lock, and stage all and the snapshot read all files at once.
One hunk is a file that has or lacks a change in each of HEAD, index and worktree, which
is all the fingerprints and decisions look at. `ListsTear` says whether a file list may be shown
with the fingerprint of a state that lists differently: only `MutatesWhatWasReviewed` looks
at that, so only its run has it, and the proofs are for both. Which lines a patch takes is the question of
`Patches`, and the proofs are for any set of hunks.

**Properties.**

- `TypeOK`: domains; in particular no conflict reaches HEAD, the worktree or a patch.
- `GuardedFresh`: StageAll, ApplyPatch and WriteFile act on exactly what
  their client read, until somebody outside edits a file.
- `GuardedIndexFresh`: for StageAll and ApplyPatch the commit and index are still the ones
  read even when editors interfere: all of HEAD and the index for stage all, the file's entry
  for a patch that stages or discards, its entry and its version in HEAD for one that unstages.
  The worktree part cannot be promised, nor anything for WriteFile, which compares nothing else:
  `r.mu` binds no other program.
- `DecisionsHold`: a file that Discard is about to delete is in neither HEAD nor the
  index; a commit about to be made has something staged.
- `EveryRequestAnswered` (liveness): every client is idle again and again, also one that waits
  for `r.mu`, unless some Git command under `r.mu` hangs for ever.
- `ImplementsReviewedRepository`: the refinement, below.
- `MutatesWhatWasReviewed` is *violated*: see Findings.

**The abstract specification.** `ReviewedRepository` has no lock, no fingerprint check
and no request under way: a client looks at something, and then one step mutates the
repository. Stage all, a hunk and an edited file do this to the very thing the client was
shown: the index that changes, or that the worktree is compared with, is the one shown, a
staged or unstaged hunk is taken between the two versions shown, and the worktree is the one
shown unless somebody outside has written a file (`edited`); a discarded hunk must then
still be there, and what else was edited stays. A hunk is defined there by the change
it makes (`Differ`, `With`), not by how a patch is computed. Whole-file
stage, unstage, discard and commit act on what there is at that moment, because their
fingerprint is compared before `r.mu` is taken (the finding); what is promised of them is
that they are one step, that a discard deletes only a file in neither HEAD nor the index,
and that a commit has something to commit and no conflict. The refinement mapping takes `shown` from
`seen` (the file list that precedes a snapshot, and whether it was torn, are not part of
what is promised) and `edited` from `edits > 0`; taking the lock and passing a check
are stuttering steps.

| run | instance | result |
|---|---|---|
| `mutations_race` | 2 clients, 1 file, 1 hunk, 1 edit, 1 commit; no symmetry | the first six properties above hold (406 thousand states) |
| `mutations_reviewed` | 2 clients, 1 file, 1 hunk, no edit, 2 commits, lists tear; symmetry | counterexample to `MutatesWhatWasReviewed` |

**Fairness.** `FairSpec` has strong fairness, per client, of `Proceeds`: the steps that take `r.mu`
(`Takes`) and the holder's (`Finishes`). Go's mutex enters starvation mode for a waiter of more than
1 ms and hands itself over, so a waiter that finds it free again and again gets it; a holder
whose Git command returns runs on. That it returns is *not* assumed: only `git commit` has a
time limit (two minutes, `changes.go:188`), every other command runs as long as its client stays
connected. So `Hangs` may happen to each of them and need never end, and the property says what
is true then. Nothing is assumed of clients or of editors.

**Proved** (`Mutations_proofs`, for any clients, files, hunks and bounds):
`TypeCorrect`, `Inductive`, `GuardedIndexFreshness`, `DecisionsStayValid`,
`GuardedFreshness`, `RepositoryRefinement`, `NobodyWaitsInVain`. The inductive invariant `IInv` adds `LockInv` to the domains: a
client is in a locked section or hung exactly if it holds `mu`, and a client that waits or is
past its checks still has its view. `GuardedFresh` is not inductive without it, because only the lock
keeps another client's `Finishes` step away. The argument: `IndexUnderLock`
(HEAD and the index move only in a step that starts with `mu` free or held by the
mover), `LockedKeeps` (so nothing moves under a holder that stays), `LockTaken` (a
client that has just taken the lock has passed its checks in the same step), and
`GuardedStep`, which joins the last two. `EditsCount` lets `GuardedFresh` speak of the
time before the first edit.

`RepositoryRefinement` proves `ImplementsReviewedRepository`. It needs to know what a
request under way is about, which `IInv` does not say: `AboutInv` adds that the request
names the file of the view its client still has, that a patch changes between the two
versions of that view, and that a hunk being unstaged is still in HEAD and the index as it
was shown. It is inductive next to the lock (`AboutStep`; TLC agrees with it on the
instance of `mutations_race`), and a patch gets it when it passes its check
(`PatchIsAbout`). The steps are then mapped one by one: the holder's to a reviewed
mutation or to nothing (`FinishRefines`, with `GuardedIndexFresh`, `GuardedFresh` and
`DecisionsHold` as the guards of the abstract actions), the steps that take the lock to a
stage, an unstage or nothing (`TakeRefines`), reads to `Show` (`ReadRefines`).

`NobodyWaitsInVain` is the safety half of `EveryRequestAnswered`: whenever a request waits for
`r.mu`, either it is free and the request's step is one of those that take it, or another client
holds it with an operation whose step has no other guard, or with a command that hangs.

The only assumptions are `ConstantsAssumption` and `NoViewAssumption` (null values are
distinct from real ones).

## `HubRegistry`: the hub's list of live repositories

**What is modelled.** `acceptTunnel` step by step for each connection, the expiry
goroutine, host revocation, and the event streams of browsers.

| TLA+ | code |
|---|---|
| `sessions`, `repos`, `age` | `Server.sessions`, `Server.repos`, time since `lastSeen` |
| `pc`, `host`, `id`, `open`, `old` | one handler goroutine per connection: its next step, certificate, registration, whether its yamux session is open, the session it replaced |
| `timer` | time since the handler served its liveness ticker |
| `subs`, `queue` | `Server.subs` and the channels |
| `expiring` | `expire` between the map update and its publish |
| `allowed` | hosts in the identity store |
| `owed` | history: streams whose last event is older than the list |
| `CheckHost`, `CheckOwner`, `Register`/`RegisterRefused`, `CloseOld`, `Announce` | the handshake: host lookup, owner lookup under the read lock, registration under the lock, closing the replaced session, publish |
| `Refresh`, `Recheck` | the ticker's case: refresh under the lock, host lookup after it |
| `RemoveSession`, `AnnounceGone` | `removeSession` and its publish |
| `Expire`, `AnnounceExpired` | `expireAt`, `expire` |

**Abstractions.** Time is an age that `Tick` advances; ages stop counting at
`TTL + 1`, beyond which nothing looks at them. A connection slot is used again once
its handler has returned. The proxy is left out: it changes none of this state.

**Bounds and the one assumption on time.** `Late` bounds how late a handler may serve
its ticker of `Period`. The code's constants are a check every 10 s against a lifetime of
30 s; the runs use small numbers with the same order (`Period + Late <= TTL`), or, in
`hub_late`, deliberately the opposite. Two connections and two hosts are the least for
replacement, for the owner race and for a dead handler beside a live one; the
safety properties are proved for any number. A channel of one or two makes full channels common.

**Properties.**

- `ListMatchesSessions`: listed exactly while there is a session, whose handler is still there.
- `LiveTunnelsListed`: a registered tunnel that is up is its ID's session, or is about
  to be closed by a newer one. This is where the handler of an old tunnel could take the
  new session out, and where expiry could hit a live one.
- `NoMissedChange`: whenever the list changed after the last event a stream was
  sent, another event is queued or on its way, although full channels drop events
  (an event that is dropped leaves an event of the same meaning in the channel).
- `HostKeepsRepository`: an ID in use never passes to another host.
- `RevokedHostsLeave` (liveness): after a revocation the host ends up with no session for good.

| run | instance | result |
|---|---|---|
| `hub_late` | 2 hosts, 1 ID, 2 tunnels, 2 browsers, `Late` 3 > `TTL`; symmetry | `TypeOK`, `ListMatchesSessions`, `NoMissedChange`, `HostKeepsRepository` hold although live registrations expire (864 thousand states) |

`LiveTunnelsListed` and `RevokedHostsLeave` need handlers that are in time, and are checked with
the daemons' side in `hub_agents`, below.

**Proved** (`HubRegistry_proofs`, for any hosts, IDs, tunnels, browsers and
capacities): `TypeCorrect`, `ListedTunnels`, `ChangesReachBrowsers`,
`HostsKeepRepositories`, and `LiveTunnels` under the assumption `Period + Late <= TTL`.
`Registry` (types and `ListMatchesSessions`) is inductive by itself.
`LiveTunnelsListed` is not: it needs `Timely` (no handler is later than allowed, and a
registration is no older than its handler's timer), from which `NothingOverdue`
concludes that under the assumption nothing ever expires while its handler runs.
`hub_late` shows what happens to the rest of the system without that assumption.

## `ReviewServer`: the review session

**What is modelled.** Request goroutines and the watcher as processes of several
steps, browser streams, the agent's stream, and the stop request.

| TLA+ | code |
|---|---|
| `version`, `lastState` | the state of the repository, the watcher's last fingerprint |
| `comments`, `created` | `Server.comments`; a comment has the version its line was found in (`NoLine`: it is on none; `Outdated`: not found) and whether it is resolved |
| `pc`, `item`, `note`, `copy`, `todo`, `found`, `changed` | a goroutine's next step and its local variables |
| `queue`, `subs`, `blocks`, `attached` | the channels of browsers and agents |
| `summary`, `stopping`, `running` | the stop request and the process |
| `want`, `crossed`, `owed`, `dropped`, `heard`, `missed` | history |
| `Locate`, `Add`, `Delete`, `PrintComment`, `Tell` | `commentsHandler`, `commentHandler`: look the line up without the lock, change under the lock, print, publish |
| `Find`, `Resolve`, `Refuse` | PATCH: the comment looked up and the body read while `Server.mu` is held, then the change, or a body that is wrong or cut off |
| `MuFree` | `Server.mu` is not held by such a PATCH: the guard of every other step that needs it |
| `Mutate`, `Look`, `CopyComments`, `Relocate`, `Store`, `EndReconcile`, `Report` | a mutation or the watcher, and `repositoryChanged` with `reconcileComments` |
| `Stop`, `Exit` | `stopHandler`, the end of `Run`, which ends the streams |

**Abstractions.** A repository state is a number, a location is the version it was
found in (every change moves every line or loses it, the worst case for staleness); how
a line is found is left to `Patches`. A line may also be outdated in any version: it is
gone, or Git or the file could not be read. Comment texts and authentication are left out. The model starts when the watcher has taken its
first fingerprint. The answer to a stop request is assumed to arrive.

**Bounds.** `MaxVersion` states of the repository: two changes let one arrive while the
reconciliation of another runs. One comment, because comments do not interact except
through the channels, and a channel of one is full with one comment already. IDs are used
once, as the code's random IDs are.

**Properties.**

- `ReviewersDecide`: a comment is resolved exactly if the last request about it said so,
  and a deleted one does not come back, whatever reconciliation stores meanwhile.
- `NothingMissed`: a stream whose channel never was full has, for every kind of change since
  its last event of that kind, one queued or certain to be published.
- `AgentInTheLoop`: an agent that stayed attached, lost no block and has read all knows
  whether a comment is open, except for a comment two of whose events
  crossed: the change is made under the lock and printed after it, so two
  requests about one comment can print in the opposite order. The exclusion is exact: it ends
  with the next change that crosses nothing.
- `SessionProgresses` (liveness): if no goroutine waits for ever for a client's body or for
  Git to find a line (`Waits`; neither has a time limit), then requests and rounds of the watcher
  end, and the watcher notices every change. The condition is needed: a client that does not
  finish the body of a PATCH keeps `Server.mu`, and with it every handler and the watcher.
- `SummaryComplete`, of comments that no unanswered request is about, is *violated*: see Findings.

| run | instance | result |
|---|---|---|
| `review_session` | 1 request goroutine and the watcher, 1 comment, 1 browser, channel of 1, 3 versions | `TypeOK`, `ReviewersDecide`, `NothingMissed`, `SessionProgresses` hold (322 thousand states) |
| `review_agents` | 3 request goroutines, 1 comment, 1 agent, channel of 2; the repository rests (the agent hears of comments only); symmetry | `TypeOK`, `AgentInTheLoop` hold (197 thousand states) |
| `review_summary` | 1 request goroutine, 1 comment | counterexample to `SummaryComplete` |

Deadlock is not checked here: sessions end, and then nothing happens any more.

**Fairness.** Strong fairness of each goroutine's next step that waits for no client and no Git
command: goroutines run, and `sync.RWMutex` starves nobody, so one that finds `Server.mu` free
again and again gets it. Strong fairness of the watcher's look, which a ticker repeats every
five seconds; that its `git status` answers again and again is an assumption. The steps that
end a wait (`Resolve`, `Refuse`, `Relocate`) have no fairness. Nothing is assumed of browsers,
agents or reviewers.

**Proved** (`ReviewServer_proofs`, for any requests, comments, browsers, agents, capacities
and versions): `TypeCorrect`, `ReviewersAlwaysDecide`, `NothingEverMissed`,
`AgentStaysInTheLoop`. Types need
`Working` (a goroutine about to add or store has a comment to work on).
`ReviewersDecide` is then inductive: `Store` changes a line and nothing else, and only of
a comment that still exists. `NothingMissed` needs `Behind` (the watcher's last
fingerprint is never ahead of the repository, and a reconciliation that has stored something
has not ended) and `Followed` (only streams that are followed are owed anything). The
argument: what a step makes a stream owe is promised by the end of the step
(`OwedIsPromised`), a promise is kept until it is published (`PromiseKept`), and
what is published stays queued until it is sent (`PublishQueues`, `QueueKept`).
`AgentInTheLoop` speaks of empty channels only, so it needs `LoopInv`: what is about to
be printed of an uncrossed comment is true of it (`PrintsTruth`), and when nothing is
about to be printed, the last word about it in the channel, or else the last one heard, is
true (`ChannelsTrue`). `PutInTheLoop` shows why a change has to find nothing unprinted.
The assumption is `ReviewAssumption`: null values are distinct and capacities positive.

## `TunnelAgent`: daemons that stay registered

**What is modelled.** `Client.Maintain` and `serve` of each daemon, composed with the hub: the
module extends `HubRegistry` and joins its `Dial`, `Handler` and `Drop` with the steps of
the daemons (`AgentNext`). The two ends of a tunnel learn of a loss separately: a daemon may
have dialled again while the hub still serves the old tunnel, and a handler that was
slow between `ready` and its registration may then replace the live session by its
own dead one.

| TLA+ | code |
|---|---|
| `agent`, `conn`, `first` | where `Maintain` is, its current connection, whether it has ever been ready |
| `told` | connections on which `acceptTunnel` has written `ready` |
| `Connect`, `ReadReady` | the dial and the registration in `serve`; the answer read |
| `NoticeClosed`, `Lose` | the session ends because the hub closed it, or because the network failed |
| `ServeReturns` | what `Maintain` does then: give up after a first failure, else wait and dial again |
| `Handle`, `HubNotices`, `HubLoses` | the hub's handler; keepalives that find the daemon gone; a loss seen first by the hub |

**Abstractions and bounds.** A retry may come at any time after a failure, so the length of the
backoff and its reset are not modelled. `MaxFaults` bounds the losses: the liveness
property is about what happens when they end, and two let a second tunnel break
while the handler of the first is still at work. One daemon, two connections.

**Properties.** `AgentTypeOK`; `TunnelsAgree`: a connection held by a daemon and open at
the hub is served for that daemon and its host, and once registered it is the repository's
session or about to be closed by a later tunnel of the same daemon; `LiveTunnelsListed` and
`RevokedHostsLeave` of `HubRegistry`, here with real daemons; `AgentsComeBack` (liveness): a
daemon that has come up once, is not stopped and not revoked is in the end the
session of its repository for good.

| run | instance | result |
|---|---|---|
| `hub_agents` | 1 host, 1 daemon, 2 connections, 2 losses, `TTL` 2, `Period` 1, `Late` 1 | all five hold (25 thousand states) |

**Fairness.** Weak fairness of handlers, of reading what has arrived, of noticing a closed
connection (yamux keepalives) and of time; strong fairness of `Connect` (a free connection slot
always comes back, it is the model that reuses them) and of
`RemoveSession` (Go's `select` chooses at random between a ticker and a closed session
that are both ready).

**Proved** (`TunnelAgent_proofs`, for any hosts, daemons and connections):
`AgentsImplementHub` (`AgentSpec => Spec`: every step of the composition is a step of
`HubRegistry` or leaves it alone, so all theorems about the registry hold of the
composition), `AgentTypeCorrect`, and `EndsAgree` under `Period + Late <= TTL`. The inductive
invariant is `AgentInv`: besides the types, a handler that has returned has no
connection, who serves has been answered, and an open connection that is held carries
the daemon's own ID and host.

## `Daemon`: one daemon per worktree

**What is modelled.** The commands `git-review` and `git-review stop` of one worktree
and the daemons they start, each read, comparison, request and unlink a step of its
own. A command or a daemon may be killed between any two steps.

| TLA+ | code |
|---|---|
| `lock`, `file` | the flock; the state file: none, unreadable, or the ID of a daemon |
| `pc`, `kind`, `target`, `child` | a command: its next step, start or stop, the state it has read, the daemon it has started |
| `stage` | a daemon: started, connected to the hub, serving, about to shut down after `watchIdle` looked, closing, unlinking its state, dead |
| `deserted`, `astray` | history: daemons whose starter stopped waiting; those of them that wrote the state file all the same |
| `ReadState`, `Scrap`, `ProbeOk`, `ProbeFails`, `Alive` | `existingState`, `probeState`, `ProcessAlive` |
| `Compare`, `Unlink` | `daemon.Remove` called by a command; `RemoveOwn`, `UnlinkOwn`: called by the daemon |
| `Spawn`, `AwaitRead`, `AwaitProbe`, `GiveUp` | `startDaemon` and its ten seconds |
| `Unlock`, `Attach`, `Leave`, `PostStop` | the lock given up, `follow`, `stopDaemon` |
| `Connected`, `WriteState`, `IdleLook`, `IdleShutdown`, `Dies` | `git-repo-server`'s `main`, `watchIdle` |

**Abstractions and bounds.** Configuration, flags, the terminal and logs are left out; a
daemon of another configuration is the free choice `Mismatch`. `kill(pid, 0)` on a dead
daemon's process ID may find another process. Two commands and two daemons: the one
that runs or has died, and its successor.

**Properties.** `RunningDaemonIsFound`: a daemon that has announced itself is the one the
state file names, so the next command finds it, there is no second one, and neither
a command that clears up a stale file nor a predecessor that ends takes the file away. It leaves
out the runs in which a daemon came up after its starter had given it up
(`astray`): those can leave two daemons, and the code does not prevent it.
`EveryCommandEnds` (liveness): a command that waits for the lock ends or gets to follow its daemon.

| run | instance | result |
|---|---|---|
| `daemon` | 2 commands, 2 daemons; no symmetry | `TypeOK`, `RunningDaemonIsFound`, `EveryCommandEnds` hold (72 thousand states) |

**Fairness.** The holder of the lock goes on (every request it makes has a timeout, the wait for
its child a deadline) and `flock` serves who keeps waiting (strong fairness of `Acquire`).
The code's `stop` request has no timeout of its own: that it is answered is an assumption.
Nothing is assumed of daemons.

**Proved** (`Daemon_proofs`, any number of commands and daemons): `DaemonTypeOK`,
`StateFileLeadsToDaemon`, `LockIsNeverLeftBehind`. The invariant adds to the types `ChildInv` (who boots is waited for by
a command that holds the lock, or is deserted) and `FileInv` (what the holder may rely
on: no state file while it starts a daemon and until its child writes one; while it probes, the file is
the one it read or gone; what it is about to remove belongs to a dead daemon).
The lock covers everything from the first read of the file to the child's announcement,
which is why the daemon's own unlocked write and removal are harmless.
`LockIsNeverLeftBehind` is the safety half of `EveryCommandEnds`: whoever is killed where, the lock
belongs to exactly the command that is between taking it and letting it go.

## `Enrollment` and `IdentityStore`: hosts, codes and files

**What is modelled.** The hub's identity file, changed by handlers of the hub and by
`git-review-hub` commands through `Store.update`, step by step; the enroll command's
request and its read-modify-write of the credentials file. Any process may fail or be
killed at any step, also after the rename and before its answer. A credentials file that cannot be
read or parsed counts as an empty one, as in `SaveCredentials`.

| TLA+ | code |
|---|---|
| `file`, `copy`, `lock` | the identity file, each updater's copy, the file lock |
| `pc`, `op` | where `Store.update` is, and with which change |
| `Begin...`, `Acquire`, `ReadAndChange`, `Rename`, `Answer`, `Abandon` | its callers, the lock, the read and the change, `atomicWrite`, the return to the caller, any failure |
| `Changed`, `Permitted` | the closures of `CreateEnrollment`, `SignEnrollment`, `Revoke`, `Ensure`, and when they refuse |
| `Post`, `GiveUp`, `ReadCredentials`, `WriteCredentials` | `Enroll`, `SaveCredentials` |
| `printed`, `acked`, `offered` | history: what was reported; every code that was in the file |

`IdentityStore` is the abstract specification: codes are offered, a code enrolls a
host and is used up, a host is revoked, each in one step.

**Abstractions and bounds.** Keys, certificates and hashes are opaque; random numbers do not
repeat. A server certificate that is renewed changes nothing the model looks at. Two commands on
each side, two codes, two hosts, two hubs, a clock of two values and codes that expire at once
(`Life` 0): enough for a code to be presented twice, to expire between two steps, and
for every pair of updates to overlap.

**Properties.** `OneHostPerCode`; `ReportsHold`: what a process reported (a bundle with its
authority, a certificate, a revocation) is in the file and stays; `ImplementsStore`: the
refinement, with the file's fields for the abstract variables.

| run | instance | result |
|---|---|---|
| `enrollment` | 2 clients, 2 admins, 2 codes, 2 hosts, 2 hubs; symmetry | `TypeOK`, `OneHostPerCode`, `ReportsHold` and `ImplementsStore` hold (539 thousand states) |

**Proved** (`Enrollment_proofs`, for any sets): `EnrollmentTypeOK`, `CodesAreOneTime`,
`ReportsAreTrue`, and the refinement `StoreRefinement`. The inductive
invariant `HubInv` has a part for the lock (who is past it holds it), for operations (what
they draw is their own and not yet in the file), for the file, for copies (a changed
copy is the file with that change and no other, which is the heart of the refinement: the file
cannot move between a read and the rename) and for clients. `RenameEffect` says which of
the abstract steps a rename is; every other step stutters.

Nothing is claimed of credentials once saved beyond their type: overlapping saves lose an
entry, and so does a save whose read failed. Both are in the model, and the code prevents neither.

Liveness of updates is not checked: an updater waits for a file lock whose fairness the
code does not have.

## `Patches`: three readings of one diff

**What is modelled.** A diff grows line by line as `git diff` writes it, so the reachable
states are all diffs within the bounds. On each, the readings of the code are compared with each
other: `ParseDiff` (`First`, `Number`, `Ordinal`), `SelectPatch` (`Kept`, `Cut`, `Refused`),
`locateComment` (`Misread`, `Candidate`, `Matches`), and `splitHunk` of the browser (`Blocks`).
`git apply` and `git diff` are external (`Fits`, `Result`, `Complete`); the model of
`git apply` was compared with git 2.39 on generated patches.

**Properties.** `ActionsExact`: staging any contiguous lines and unstaging or discarding a hunk
is accepted and changes exactly what was chosen (`Stays` is the reference definition). `OrdinalsAgree`: the
ordinal the browser shows selects that line and no other. `CommentsLocated`: while the diff
is unchanged a comment is found under the number shown, or is outdated because its line is
not unique or looks like a file header. `BlocksDiscarded` is *violated*: see Findings.

| run | instance | result |
|---|---|---|
| `patches` | diffs of up to 5 lines in up to 2 hunks, texts `x`, `--`, `++` | the three properties hold (83 thousand states) |
| `patches_discard` | the same | counterexample to `BlocksDiscarded` |

Five lines hold a hunk with context, a removal, an addition and a missing newline, or two small hunks; the three
texts are equal or not, and look like a header or not, which is all the code distinguishes.
Deadlock is not checked: a diff at its bounds ends.

**Left out.** `EndUnchosen` excludes selections beside an unterminated line that is itself
an unchosen change, where `ActionsExact` fails. Reverse patches of single lines are mostly
refused by git and are not claimed. `CommentsLocated` leaves out lines after a misread one in
their hunk, which are numbered too low. `locateSourceLine`, type changes, and git's
search for a patch at another offset are not modelled.

**Proofs** (`Patches_proofs`). The three properties hold of every diff, of any length, with any
number of hunks and any texts; of the bounds only that they are numbers is assumed. Nothing is
recursive: the lines of a patch, or of a version, are those of a hunk at some set of places, in
order, and `Nth` is the k-th place. Its section derives from the well-ordering of the natural
numbers that `Nth` counts through a finite set in order (`NthPlace`, `NthRank`, `NthOrder`), and
that places chosen from chosen places are places of the hunk (`NthNth`). The invariant is
`Shape`: types, and what may follow a "\ No newline" line (after a removal only added lines,
otherwise nothing). Then `KeptEnds`: in a patch a line is followed by
the marker exactly if it is in the hunk, unless `EndUnchosen`; `PatchSide`: a side of the
patch is therefore a selection of the hunk's own lines, for the old side all of the
file (`git apply` finds what it looks for) and for the new side `Stays`; `StaysFile`: only its last
line can lack a newline. `OrdinalsDiffer` counts changed lines. That git's diffs are minimal is not
needed, so the three properties do not assume it.

## `ReviewPage`: the page in the browser

**What is modelled.** The page connected to one repository. Each click starts an asynchronous
function; a task is the list of answers (`todo`) such a function still waits for, and
answers arrive in any order, so functions interleave at every `await`. An agent edits the files
meanwhile.

| TLA+ | code |
|---|---|
| `selection`, `diff`, `lit`, `last` | `state.selection`, `state.diff`, `state.diffHighlights`, `languageGeneration` |
| `content`, `mode`, `view` | `state.fileContent` (its text is also its fingerprint), `state.editorMode`, `editorView` |
| `tasks`, `live` | the functions under way; the event stream |
| `Click`, `Event`, `CancelEdit` | the actions of `app.ts` up to their first request; one event of the stream |
| `Render` | the effect in `app.ts` that makes and destroys the editor |
| `LoadComments`, `LoadDiff`, `Highlight`, `Refresh`, `Move`, `OpenEditor`, `OpenSource`, `CloseEditor`, `Fail` | what `repository-controller.ts`, `app.ts` and `app-model.ts` do with each answer, or with an error |
| `ReadFile`, `AcceptSave` | the daemon reading a file, and `WriteFile` accepting a save (the text under its fingerprint is still there) |

**Abstractions and bounds.** Which files a list contains and whether a change is accepted is free; only a
save is followed to the file. The two areas of a diff, comment texts, drafts, scrolling
and messages are left out. Two clicks under way and the event stream, two files, two texts.

**Properties.** `TypeOK` includes that no request goes out without the path it is
about. `HighlightsMatch`: highlights on the screen are those of the diff on the screen.
`SavesLoseNothing`: a save that is accepted replaces exactly the text its editor was
opened with, although the text is in one place (`editorView`) and the fingerprint in another
(`state.fileContent`), unless an answer came in while the editor was on the screen (`crossed`).

| run | instance | result |
|---|---|---|
| `review_page` | 2 clicks and the stream, 2 files, 2 texts; symmetry | the three properties hold (916 thousand states) |

**Proved** (`ReviewPage_proofs`, for any files, texts and functions under way):
`PageTypeCorrect`, `HighlightsAlwaysMatch`, `AcceptedSavesLoseNothing`. The inductive
invariant `IInv` has `EditorInv` (a view is on the screen, an open editor has one, and an
uncrossed one was opened with the content the page holds: `Fits`) and `TasksInv` (each function waits
for something the code waits for, has the path it will need, and a save carries a
view that matches its fingerprint). `OnlyAccept` shows that only the daemon accepting
a save can make one accepted.

**Gaps of the page.** "Edit file" stays clickable while the editor is open, and its answer
replaces the fingerprint and not the text on the screen: saving then overwrites an edit
nobody saw (excluded by `crossed`; dropping that exclusion, TLC finds it). A diff that arrives
after the selection changed is shown under the new one until the next load; its
fingerprint keeps it from being acted on. The continuation of a staged or unstaged file moves the
selection although the user has moved on. The stream does not reconnect, and a
change between the first load and the stream is not shown. Connecting to a second
repository while a first connection is under way is not modelled; the code does not guard it.

## Findings

Three runs show the code disagreeing with what is said of it.

- `mutations_reviewed`: `SECURITY.md:94` asks for current fingerprints for mutations and
  serialized Git writes. The mutations that compare under `r.mu` do that (`GuardedFresh`).
  Three others leave a gap: `changeHandler` and `commitHandler` compare first and take
  `r.mu` afterwards, so another client's request fits in between (worst case: a discard reviewed
  as a change of a staged file deletes the file, because it was unstaged
  meanwhile), and `repositoryHandler` pairs a file list with the fingerprint of a later
  state, which stage all then accepts. The property has one conjunct per gap, each of
  which is violated on its own; TLC reports one of the shortest.
- `review_summary`: `internal/skill/SKILL.md:56` says stopping outputs any remaining
  unresolved comments. A comment accepted after the summary was computed and before the process
  exits is answered with 201 and is in no output. TLC's trace is `Locate`, `Stop`, `Add`,
  `PrintComment`, `Tell` (the answer), `Exit`; a comment whose request is still unanswered at the
  exit does not count.
- `patches_discard`: "Discard this block" (`web/src/review-templates.ts:128`) of a hunk in which
  another block lost the file's final newline joins two lines: `SelectPatch` keeps the marker
  of a line it drops, and shapes the patch for applying it forward.

Smaller gaps, each excluded from a property by a named condition or left out of a model:

- a client that does not finish the body of a PATCH, or a Git command that hangs, keeps
  `Server.mu` or `r.mu` from everybody (`SessionProgresses`, `EveryRequestAnswered` are conditional);
- events about one comment that cross (`AgentInTheLoop`, `crossed`); a `repository` event dropped by
  a channel full of `comments` events (`NothingMissed`, `dropped`); a line located before a
  change and stored after the watcher has handled it (`Store` takes whatever was found);
- an enrollment whose answer is lost has used up its code; the expiry of a code is judged by a
  clock read before waiting for the lock; overlapping saves of credentials lose one, and a
  credentials file that cannot be read is replaced by one with the new entry alone;
- a daemon given up by its starter may come up beside another (`astray`); a reused process ID, or a
  daemon that is closing, makes a start refuse; the idle shutdown cuts off a client that attaches between
  its look and its end; an unreadable state file is removed whoever wrote it;
- those of the page, above.

## What is checked and not proved

- Liveness: `EveryRequestAnswered`, `RevokedHostsLeave`, `AgentsComeBack`, `SessionProgresses`,
  `EveryCommandEnds`. The proof system's backends do not handle fairness and `ENABLED`; for two
  of them the safety half is proved (`NobodyWaitsInVain`, `LockIsNeverLeftBehind`).
- The violated properties, which are counterexamples.

## Not modelled

- The reverse proxy, the HTTP helpers, the rendering of the web interface, the skill
  installer, licenses, the line counter and the build: they keep no state between calls.
- Of the hub: `Run`'s start and shutdown. Of the review session: authentication and texts. Of
  the agent's tunnel: the length of delays. Of the page: connecting and switching repositories, the
  hub's event stream, drafts, and the list of all files.
- Cryptography, Git and the network are modelled by what the code relies on.

## Plan

Done: all seven component models, the composition `TunnelAgent`, the abstract `IdentityStore` and
`ReviewedRepository` and their refinements, and theorems about every model. Left, in this order:

1. `ReviewPage` with two repositories: connecting, switching, the hub's event stream.
2. `locateSourceLine` in `Patches`, over files instead of diffs.
