------------------------------- MODULE Daemon -------------------------------
(***************************************************************************)
(* The repository daemons of one worktree (cmd/git-review,                 *)
(* cmd/git-repo-server, internal/daemon): commands that start, attach to   *)
(* or stop the daemon, serialised by a file lock, and daemons that announce*)
(* themselves in a state file, without the lock, and take it away again.   *)
(*                                                                         *)
(* Every read, comparison, request and unlink is a step of its own.  Any   *)
(* process may be killed between two of them: the kernel frees the lock of *)
(* a command, its child lives on in a session of its own, and the state    *)
(* file of a killed daemon stays.  A daemon stands for its process and its *)
(* random ID; each is started once.                                        *)
(***************************************************************************)
EXTENDS Naturals

CONSTANTS Clis,      \* processes of git-review, one command at a time each
          Daemons,   \* processes of git-repo-server
          None,
          NoFile, Garbage   \* no state file, one that cannot be read

ASSUME DaemonAssumption ==
    /\ None \notin Clis \cup Daemons
    /\ NoFile \notin Daemons /\ Garbage \notin Daemons /\ NoFile # Garbage

VARIABLES
    lock,      \* who holds the flock of the state file's lock file
    file,      \* the daemon whose ID the state file holds
    stage,     \* how far each daemon has come
    pc, kind,  \* where each command is, and which it is
    target,    \* the state each command has read
    child,     \* the daemon each command has started
    deserted,  \* history: daemons whose starter stopped waiting before they wrote
    astray     \* history: deserted daemons that wrote the state file all the same

cli  == <<pc, kind, target, child>>
vars == <<lock, file, stage, cli, deserted, astray>>

------------------------------------------------------------------------------
\* Serve answers requests; Shutdown has not begun.
Answering(d) == stage[d] \in {"serving", "doomed"}
\* The daemon has written its state and not finished removing it.
Announced == {"serving", "doomed", "closing", "unlinking"}
Booting == {"booting", "connected"}
\* kill(pid, 0) finds the process of a daemon that runs, and may find another
\* process with the ID of one that does not.
ProcessAlive(d) == IF stage[d] # "dead" THEN {TRUE} ELSE BOOLEAN

Go(c, from, to) == pc[c] = from /\ pc' = [pc EXCEPT ![c] = to]
Same == UNCHANGED <<file, stage, kind, child, deserted, astray>>

\* The child a command leaves behind when it stops waiting for it.
Desert(c) == deserted' = deserted \cup {d \in {child[c]} \cap Daemons : stage[d] \in Booting}

\* The process ends, and the kernel frees its lock.
Exit(c) ==
    /\ pc' = [pc EXCEPT ![c] = "idle"]
    /\ target' = [target EXCEPT ![c] = None]
    /\ child' = [child EXCEPT ![c] = None]
    /\ kind' = [kind EXCEPT ![c] = "start"]
    /\ lock' = IF lock = c THEN None ELSE lock
    /\ Desert(c)
    /\ UNCHANGED <<file, stage, astray>>

------------------------------------------------------------------------------
(* git-review and git-review stop.                                         *)

Begin(c, k) ==
    /\ Go(c, "idle", "waiting")
    /\ kind' = [kind EXCEPT ![c] = k]
    /\ UNCHANGED <<lock, file, stage, target, child, deserted, astray>>
\* Mutant: the lock is taken as a shared one.
Acquire_Shared(c) ==
    /\ lock' = c
    /\ Go(c, "waiting", "read")
    /\ UNCHANGED target /\ Same
Acquire(c) ==
    /\ lock = None /\ lock' = c
    /\ Go(c, "waiting", "read")
    /\ UNCHANGED target /\ Same

\* No daemon was found: a start goes on to start one, a stop fails.
NotFound(c) ==
    IF kind[c] = "start"
    THEN /\ pc' = [pc EXCEPT ![c] = "spawn"]
         /\ target' = [target EXCEPT ![c] = None]
         /\ UNCHANGED <<lock, stage, kind, child, deserted, astray>>
    ELSE /\ pc' = [pc EXCEPT ![c] = "ending"]
         /\ UNCHANGED <<lock, stage, kind, target, child, deserted, astray>>

\* existingState: the state file is read; an unreadable one is removed.
ReadState(c) ==
    /\ pc[c] = "read"
    /\ \/ /\ file = NoFile
          /\ NotFound(c) /\ UNCHANGED file
       \/ /\ file = Garbage
          /\ Go(c, "read", "scrap")
          /\ UNCHANGED <<lock, target>> /\ Same
       \/ /\ file \in Daemons
          /\ Go(c, "read", "probe")
          /\ target' = [target EXCEPT ![c] = file]
          /\ UNCHANGED lock /\ Same
Scrap(c) ==
    /\ pc[c] = "scrap"
    /\ file' = NoFile
    /\ NotFound(c)

\* probeState: a daemon that answers may still be too slow.
ProbeOk(c) ==
    /\ Go(c, "probe", "found")
    /\ Answering(target[c])
    /\ UNCHANGED <<lock, target>> /\ Same
ProbeFails(c) ==
    /\ Go(c, "probe", "silent")
    /\ UNCHANGED <<lock, target>> /\ Same
\* Mutant: a daemon that does not answer is taken for dead.
Alive_NotAsked(c) ==
    /\ Go(c, "silent", "compare")
    /\ UNCHANGED <<lock, target>> /\ Same
\* A process that is alive and silent is an error.
Alive(c) ==
    /\ pc[c] = "silent"
    /\ \E alive \in ProcessAlive(target[c]) :
          Go(c, "silent", IF alive THEN "ending" ELSE "compare")
    /\ UNCHANGED <<lock, target>> /\ Same
\* daemon.Remove: the file is read again, and removed if it is still the same.
Compare(c) ==
    /\ pc[c] = "compare"
    /\ \/ /\ file = target[c]
          /\ Go(c, "compare", "unlink")
          /\ UNCHANGED <<lock, target>> /\ Same
       \/ /\ file = Garbage
          /\ Go(c, "compare", "ending")
          /\ UNCHANGED <<lock, target>> /\ Same
       \/ /\ file \notin {target[c], Garbage}
          /\ NotFound(c) /\ UNCHANGED file
Unlink(c) ==
    /\ pc[c] = "unlink"
    /\ \/ /\ file = NoFile
          /\ Go(c, "unlink", "ending")
          /\ UNCHANGED <<lock, target>> /\ Same
       \/ /\ file # NoFile /\ file' = NoFile
          /\ NotFound(c)

\* The daemon found serves another directory, hub or message: an error.
Mismatch(c) ==
    /\ kind[c] = "start"
    /\ Go(c, "found", "ending")
    /\ UNCHANGED <<lock, target>> /\ Same
\* Mutant: the lock is kept until the command ends.
Unlock_AtExit(c) ==
    /\ pc[c] \in (IF kind[c] = "start" THEN {"up", "found"} ELSE {})
    /\ pc' = [pc EXCEPT ![c] = "attach"]
    /\ Desert(c)
    /\ child' = [child EXCEPT ![c] = None]
    /\ UNCHANGED <<lock, file, stage, kind, target, astray>>
Unlock(c) ==
    /\ pc[c] \in (IF kind[c] = "start" THEN {"up", "found"} ELSE {})
    /\ pc' = [pc EXCEPT ![c] = "attach"]
    /\ lock' = None
    /\ Desert(c)
    /\ child' = [child EXCEPT ![c] = None]
    /\ UNCHANGED <<file, stage, kind, target, astray>>

\* startDaemon: the daemon is started, or cannot be; its state is read and
\* probed every tenth of a second for ten seconds.  Nobody waits for the child
\* process, so one that has died still answers kill(pid, 0).
Spawn(c, d) ==
    /\ stage[d] = "unused"
    /\ Go(c, "spawn", "await")
    /\ stage' = [stage EXCEPT ![d] = "booting"]
    /\ child' = [child EXCEPT ![c] = d]
    /\ UNCHANGED <<lock, file, kind, target, deserted, astray>>
SpawnFails(c) ==
    /\ Go(c, "spawn", "ending")
    /\ UNCHANGED <<lock, target>> /\ Same
AwaitRead(c) ==
    /\ file \in Daemons
    /\ Go(c, "await", "check")
    /\ target' = [target EXCEPT ![c] = file]
    /\ UNCHANGED lock /\ Same
AwaitProbe(c) ==
    /\ pc[c] = "check"
    /\ \/ /\ Answering(target[c]) /\ Go(c, "check", "up")
          /\ UNCHANGED target
       \/ /\ Go(c, "check", "await")
          /\ target' = [target EXCEPT ![c] = None]
    /\ UNCHANGED lock /\ Same
GiveUp(c) ==
    /\ pc[c] \in {"await", "check"}
    /\ Exit(c)

\* follow: the event stream is opened after the lock is released.
Attach(c) ==
    /\ pc[c] = "attach"
    /\ \/ /\ Answering(target[c])
          /\ Go(c, "attach", "following")
          /\ UNCHANGED <<lock, target>> /\ Same
       \/ Exit(c)
\* The stream ends with the daemon, or the user interrupts the command.
Leave(c) == pc[c] = "following" /\ Exit(c)

\* git-review stop: the request is answered before the daemon shuts down, the
\* answer may be cut off; either way the command ends.
PostStop(c) ==
    /\ pc[c] = "found" /\ kind[c] = "stop"
    /\ pc' = [pc EXCEPT ![c] = "ending"]
    /\ stage' = IF Answering(target[c]) THEN [stage EXCEPT ![target[c]] = "closing"]
                                        ELSE stage
    /\ UNCHANGED <<lock, file, kind, target, child, deserted, astray>>
\* fatal, or the end of main.
End(c) == pc[c] = "ending" /\ Exit(c)
\* The command is killed.
Kill(c) == pc[c] # "idle" /\ Exit(c)

------------------------------------------------------------------------------
(* git-repo-server.                                                        *)

Enter(d, from, to) == stage[d] = from /\ stage' = [stage EXCEPT ![d] = to]

\* The hub has accepted the registration.
Connected(d) ==
    /\ Enter(d, "booting", "connected")
    /\ UNCHANGED <<lock, file, cli, deserted, astray>>
\* daemon.Write, by a rename and without the lock; then Run serves.
WriteState(d) ==
    /\ Enter(d, "connected", "serving")
    /\ file' = d
    /\ astray' = astray \cup ({d} \cap deserted)
    /\ UNCHANGED <<lock, cli, deserted>>
\* watchIdle looks for clients under the lock, and shuts down after it.
IdleLook(d) ==
    /\ \A c \in Clis : ~(pc[c] = "following" /\ target[c] = d)
    /\ Enter(d, "serving", "doomed")
    /\ UNCHANGED <<lock, file, cli, deserted, astray>>
IdleShutdown(d) ==
    /\ Enter(d, "doomed", "closing")
    /\ UNCHANGED <<lock, file, cli, deserted, astray>>
\* The deferred daemon.Remove: the file is read, and unlinked if it is its own.
RemoveOwn(d) ==
    /\ Enter(d, "closing", IF file = d THEN "unlinking" ELSE "dead")
    /\ UNCHANGED <<lock, file, cli, deserted, astray>>
UnlinkOwn(d) ==
    /\ Enter(d, "unlinking", "dead")
    /\ file' = NoFile
    /\ UNCHANGED <<lock, cli, deserted, astray>>
\* The hub does not answer, the state cannot be written, or the process is
\* killed: no deferred call runs, and the state file stays.
Dies(d) ==
    /\ stage[d] \notin {"unused", "dead"}
    /\ stage' = [stage EXCEPT ![d] = "dead"]
    /\ UNCHANGED <<lock, file, cli, deserted, astray>>

------------------------------------------------------------------------------
Init ==
    /\ lock = None
    /\ file \in {NoFile, Garbage}
    /\ stage = [d \in Daemons |-> "unused"]
    /\ pc = [c \in Clis |-> "idle"]
    /\ kind = [c \in Clis |-> "start"]
    /\ target = [c \in Clis |-> None]
    /\ child = [c \in Clis |-> None]
    /\ deserted = {} /\ astray = {}

\* What a command does by itself once it has the lock.
Holder(c) ==
    \/ ReadState(c) \/ Scrap(c) \/ ProbeOk(c) \/ ProbeFails(c) \/ Alive(c)
    \/ Compare(c) \/ Unlink(c) \/ Mismatch(c) \/ Unlock(c) \/ PostStop(c)
    \/ SpawnFails(c) \/ (\E d \in Daemons : Spawn(c, d))
    \/ AwaitRead(c) \/ AwaitProbe(c) \/ End(c)
Cli(c) ==
    \/ (\E k \in {"start", "stop"} : Begin(c, k))
    \/ Acquire(c) \/ Holder(c) \/ GiveUp(c) \/ Attach(c) \/ Leave(c) \/ Kill(c)
Server(d) ==
    \/ Connected(d) \/ WriteState(d) \/ IdleLook(d) \/ IdleShutdown(d)
    \/ RemoveOwn(d) \/ UnlinkOwn(d) \/ Dies(d)

Next == (\E c \in Clis : Cli(c)) \/ (\E d \in Daemons : Server(d))

Spec == Init /\ [][Next]_vars

\* A command that has the lock goes on, its deadline comes, and flock serves
\* whoever keeps waiting.  Nothing is assumed of daemons, or of a command that
\* follows one.
Fairness ==
    \A c \in Clis : WF_vars(Holder(c)) /\ WF_vars(GiveUp(c)) /\ SF_vars(Acquire(c))
FairSpec == Spec /\ Fairness

------------------------------------------------------------------------------
Stages == {"unused", "dead"} \cup Booting \cup Announced
\* Where a command is when it has the lock.
Holding == {"read", "scrap", "probe", "silent", "compare", "unlink", "found", "spawn",
            "await", "check", "up", "ending"}

\* Every variable stays in its domain, and only the holder of the lock is past it.
TypeOK ==
    /\ lock \in Clis \cup {None}
    /\ file \in Daemons \cup {NoFile, Garbage}
    /\ stage \in [Daemons -> Stages]
    /\ pc \in [Clis -> Holding \cup {"idle", "waiting", "attach", "following"}]
    /\ kind \in [Clis -> {"start", "stop"}]
    /\ target \in [Clis -> Daemons \cup {None}]
    /\ child \in [Clis -> Daemons \cup {None}]
    /\ deserted \subseteq Daemons /\ astray \subseteq deserted
    /\ \A c \in Clis : pc[c] \in Holding => lock = c

\* The state file leads to the daemon: as long as no daemon came up after its
\* starter had stopped waiting for it, a daemon that runs is the one the state
\* file names, so the next command finds it, there is no second one, and neither
\* a command that clears up a stale file nor a predecessor that ends takes the
\* file away.
RunningDaemonIsFound ==
    astray = {} => \A d \in Daemons : stage[d] \in Announced => file = d

\* Nobody waits for the lock forever: every command ends or gets to follow its
\* daemon, whatever daemons and other commands do, and a command that follows a
\* daemon for hours keeps nobody waiting.
EveryCommandEnds ==
    \A c \in Clis : pc[c] = "waiting" ~> pc[c] \in {"idle", "attach"}
==============================================================================
