--------------------------- MODULE Daemon_proofs ---------------------------
(***************************************************************************)
(* Proofs about Daemon: the state file leads to the daemon that runs.      *)
(*                                                                         *)
(* The argument: the lock covers everything a command does from reading    *)
(* the state file to the moment its child has announced itself, so a       *)
(* daemon that announces itself while its starter waits finds no state     *)
(* file; and what a command removes belongs to a daemon that is dead.      *)
(***************************************************************************)
EXTENDS Daemon, TLAPS

Awaiting == {"await", "check", "up"}

\* Commands know what they read and started; whoever boots is waited for, or
\* was deserted.
ChildInv ==
    /\ \A c \in Clis :
          /\ pc[c] \in {"probe", "silent", "compare", "unlink", "found", "check", "up",
                        "attach", "following"} => target[c] \in Daemons
          /\ child[c] # None => pc[c] \in Awaiting /\ stage[child[c]] # "unused"
          /\ pc[c] \in Awaiting => child[c] \in Daemons
    /\ \A d \in Daemons : stage[d] \in Booting /\ d \notin deserted =>
          \E c \in Clis : pc[c] \in Awaiting /\ child[c] = d
    /\ \A d \in deserted : stage[d] # "unused"

\* What the holder of the lock may rely on as long as no daemon went astray.
FileInv ==
    astray = {} =>
        /\ \A d \in Daemons : stage[d] \in Announced => file = d
        /\ \A c \in Clis :
              /\ pc[c] = "spawn" => file = NoFile
              /\ pc[c] \in Awaiting /\ stage[child[c]] \in Booting => file = NoFile
              /\ pc[c] \in {"probe", "silent", "compare", "unlink"} =>
                    file \in {target[c], NoFile}
              /\ pc[c] \in {"compare", "unlink"} => stage[target[c]] = "dead"
              /\ pc[c] = "scrap" => file = Garbage

IInv == TypeOK /\ ChildInv /\ FileInv

LEMMA InitInv == Init => IInv
BY DaemonAssumption
   DEF Init, IInv, TypeOK, ChildInv, FileInv, Stages, Holding, Awaiting, Booting, Announced

\* What a command does before it starts a daemon or leaves.
LEMMA LookStep ==
    ASSUME IInv, NEW c \in Clis,
           \/ \E k \in {"start", "stop"} : Begin(c, k)
           \/ Acquire(c) \/ ReadState(c) \/ Scrap(c) \/ ProbeOk(c) \/ ProbeFails(c)
           \/ Alive(c) \/ Compare(c) \/ Unlink(c) \/ Mismatch(c)
    PROVE  IInv'
<1> USE DaemonAssumption DEF IInv, Go, Same
<1>1. ASSUME NEW k \in {"start", "stop"}, Begin(c, k) PROVE IInv'
  <2>1. TypeOK' BY <1>1 DEF TypeOK, Begin, Holding
  <2>2. ChildInv' BY <1>1 DEF TypeOK, ChildInv, Begin, Awaiting
  <2>3. FileInv' BY <1>1 DEF TypeOK, FileInv, Begin, Awaiting
  <2> QED BY <2>1, <2>2, <2>3
<1>2. CASE Acquire(c)
  <2>1. TypeOK' BY <1>2 DEF TypeOK, Acquire, Holding
  <2>2. ChildInv' BY <1>2 DEF TypeOK, ChildInv, Acquire, Awaiting
  <2>3. FileInv' BY <1>2 DEF TypeOK, FileInv, Acquire, Awaiting
  <2> QED BY <2>1, <2>2, <2>3
<1>3. CASE ReadState(c)
  <2>1. TypeOK' BY <1>3 DEF TypeOK, ReadState, NotFound, Holding
  <2>2. ChildInv' BY <1>3 DEF TypeOK, ChildInv, ReadState, NotFound, Awaiting
  <2>3. FileInv' BY <1>3 DEF TypeOK, FileInv, ReadState, NotFound, Awaiting
  <2> QED BY <2>1, <2>2, <2>3
<1>4. CASE Scrap(c)
  <2>1. TypeOK' BY <1>4 DEF TypeOK, Scrap, NotFound, Holding
  <2>2. ChildInv' BY <1>4 DEF TypeOK, ChildInv, Scrap, NotFound, Awaiting
  <2>3. FileInv' BY <1>4 DEF TypeOK, FileInv, Scrap, NotFound, Awaiting, Holding
  <2> QED BY <2>1, <2>2, <2>3
<1>5. CASE ProbeOk(c) \/ ProbeFails(c)
  <2>1. TypeOK' BY <1>5 DEF TypeOK, ProbeOk, ProbeFails, Holding
  <2>2. ChildInv' BY <1>5 DEF TypeOK, ChildInv, ProbeOk, ProbeFails, Awaiting
  <2>3. FileInv' BY <1>5 DEF TypeOK, FileInv, ProbeOk, ProbeFails, Awaiting
  <2> QED BY <2>1, <2>2, <2>3
<1>6. CASE Alive(c)
  <2>0. /\ pc[c] = "silent" /\ pc' \in {[pc EXCEPT ![c] = "ending"], [pc EXCEPT ![c] = "compare"]}
        /\ pc' = [pc EXCEPT ![c] = "compare"] => stage[target[c]] = "dead" \/ pc' = [pc EXCEPT ![c] = "ending"]
        /\ UNCHANGED <<lock, file, stage, kind, target, child, deserted, astray>>
    BY <1>6 DEF Alive, ProcessAlive
  <2>1. TypeOK' BY <2>0 DEF TypeOK, Holding
  <2>2. ChildInv' BY <2>0 DEF TypeOK, ChildInv, Awaiting
  <2>3. FileInv' BY <2>0 DEF TypeOK, FileInv, Awaiting
  <2> QED BY <2>1, <2>2, <2>3
<1>7. CASE Compare(c)
  <2>1. TypeOK' BY <1>7 DEF TypeOK, Compare, NotFound, Holding
  <2>2. ChildInv' BY <1>7 DEF TypeOK, ChildInv, Compare, NotFound, Awaiting
  <2>3. FileInv' BY <1>7 DEF TypeOK, FileInv, Compare, NotFound, Awaiting
  <2> QED BY <2>1, <2>2, <2>3
<1>8. CASE Unlink(c)
  <2>1. TypeOK' BY <1>8 DEF TypeOK, Unlink, NotFound, Holding
  <2>2. ChildInv' BY <1>8 DEF TypeOK, ChildInv, Unlink, NotFound, Awaiting
  <2>3. FileInv'
    BY <1>8 DEF TypeOK, ChildInv, FileInv, Unlink, NotFound, Awaiting, Holding, Announced
  <2> QED BY <2>1, <2>2, <2>3
<1>9. CASE Mismatch(c)
  <2>1. TypeOK' BY <1>9 DEF TypeOK, Mismatch, Holding
  <2>2. ChildInv' BY <1>9 DEF TypeOK, ChildInv, Mismatch, Awaiting
  <2>3. FileInv' BY <1>9 DEF TypeOK, FileInv, Mismatch, Awaiting
  <2> QED BY <2>1, <2>2, <2>3
<1> QED BY <1>1, <1>2, <1>3, <1>4, <1>5, <1>6, <1>7, <1>8, <1>9

LEMMA WaitStep ==
    ASSUME IInv, NEW c \in Clis,
           \/ \E d \in Daemons : Spawn(c, d)
           \/ SpawnFails(c) \/ AwaitRead(c) \/ AwaitProbe(c) \/ Unlock(c) \/ PostStop(c)
    PROVE  IInv'
<1> USE DaemonAssumption DEF IInv, Go, Same
<1>1. ASSUME NEW d \in Daemons, Spawn(c, d) PROVE IInv'
  <2>1. TypeOK' BY <1>1 DEF TypeOK, Spawn, Holding, Stages, Booting
  <2>2. ChildInv' BY <1>1 DEF TypeOK, ChildInv, Spawn, Awaiting, Booting
  <2>3. FileInv'
    BY <1>1 DEF TypeOK, ChildInv, FileInv, Spawn, Awaiting, Booting, Announced, Holding
  <2> QED BY <2>1, <2>2, <2>3
<1>2. CASE SpawnFails(c)
  <2>1. TypeOK' BY <1>2 DEF TypeOK, SpawnFails, Holding
  <2>2. ChildInv' BY <1>2 DEF TypeOK, ChildInv, SpawnFails, Awaiting
  <2>3. FileInv' BY <1>2 DEF TypeOK, FileInv, SpawnFails, Awaiting
  <2> QED BY <2>1, <2>2, <2>3
<1>3. CASE AwaitRead(c) \/ AwaitProbe(c)
  <2>1. TypeOK' BY <1>3 DEF TypeOK, AwaitRead, AwaitProbe, Holding
  <2>2. ChildInv' BY <1>3 DEF TypeOK, ChildInv, AwaitRead, AwaitProbe, Awaiting
  <2>3. FileInv' BY <1>3 DEF TypeOK, FileInv, AwaitRead, AwaitProbe, Awaiting
  <2> QED BY <2>1, <2>2, <2>3
<1>4. CASE Unlock(c)
  <2>0. pc[c] \in {"up", "found"} BY <1>4 DEF Unlock
  <2>1. TypeOK' BY <1>4, <2>0 DEF TypeOK, Unlock, Desert, Holding
  <2>2. ChildInv' BY <1>4, <2>0 DEF TypeOK, ChildInv, Unlock, Desert, Awaiting, Booting
  <2>3. FileInv' BY <1>4, <2>0 DEF TypeOK, FileInv, Unlock, Awaiting
  <2> QED BY <2>1, <2>2, <2>3
<1>5. CASE PostStop(c)
  <2>1. TypeOK' BY <1>5 DEF TypeOK, ChildInv, PostStop, Holding, Stages, Announced
  <2>2. ChildInv' BY <1>5 DEF TypeOK, ChildInv, PostStop, Answering, Awaiting, Booting
  <2>3. FileInv'
    BY <1>5 DEF TypeOK, ChildInv, FileInv, PostStop, Answering, Awaiting, Booting, Announced
  <2> QED BY <2>1, <2>2, <2>3
<1> QED BY <1>1, <1>2, <1>3, <1>4, <1>5

LEMMA ExitStep == ASSUME IInv, NEW c \in Clis, Exit(c) PROVE IInv'
<1> USE DaemonAssumption DEF IInv
<1>1. TypeOK' BY DEF TypeOK, Exit, Desert, Holding
<1>2. ChildInv' BY DEF TypeOK, ChildInv, Exit, Desert, Awaiting, Booting
<1>3. FileInv' BY DEF TypeOK, FileInv, Exit, Awaiting
<1> QED BY <1>1, <1>2, <1>3

LEMMA ServerStep == ASSUME IInv, NEW d \in Daemons, Server(d) PROVE IInv'
<1> USE DaemonAssumption DEF IInv, Enter, cli
<1>1. CASE Connected(d)
  <2>1. TypeOK' BY <1>1 DEF TypeOK, Connected, Stages, Booting
  <2>2. ChildInv' BY <1>1 DEF TypeOK, ChildInv, Connected, Booting
  <2>3. FileInv' BY <1>1 DEF TypeOK, ChildInv, FileInv, Connected, Booting, Announced
  <2> QED BY <2>1, <2>2, <2>3
<1>2. CASE WriteState(d)
  <2>1. TypeOK' BY <1>2 DEF TypeOK, WriteState, Stages, Announced
  <2>2. ChildInv' BY <1>2 DEF TypeOK, ChildInv, WriteState, Booting
  <2>3. ASSUME astray' = {} PROVE FileInv'
    <3>1. astray = {} /\ d \notin deserted BY <1>2, <2>3 DEF WriteState
    <3>2. PICK c \in Clis : pc[c] \in Awaiting /\ child[c] = d
      BY <1>2, <3>1 DEF ChildInv, WriteState, Booting
    <3>3. file = NoFile BY <1>2, <3>1, <3>2 DEF FileInv, WriteState, Booting
    <3>4. \A e \in Clis \ {c} : pc[e] \notin Holding
      BY <3>2 DEF TypeOK, Holding, Awaiting
    <3>5. \A e \in Daemons : stage'[e] \in Announced => e = d
      BY <1>2, <3>1, <3>3 DEF FileInv, WriteState, TypeOK
    <3> QED
      BY <1>2, <3>1, <3>2, <3>4, <3>5
         DEF FileInv, WriteState, TypeOK, Holding, Awaiting, Booting
  <2> QED BY <2>1, <2>2, <2>3 DEF FileInv
<1>3. CASE IdleLook(d) \/ IdleShutdown(d)
  <2>1. TypeOK' BY <1>3 DEF TypeOK, IdleLook, IdleShutdown, Stages, Announced
  <2>2. ChildInv' BY <1>3 DEF TypeOK, ChildInv, IdleLook, IdleShutdown, Booting
  <2>3. FileInv'
    BY <1>3 DEF TypeOK, ChildInv, FileInv, IdleLook, IdleShutdown, Booting, Announced
  <2> QED BY <2>1, <2>2, <2>3
<1>4. CASE RemoveOwn(d)
  <2>1. TypeOK' BY <1>4 DEF TypeOK, RemoveOwn, Stages, Announced
  <2>2. ChildInv' BY <1>4 DEF TypeOK, ChildInv, RemoveOwn, Booting
  <2>3. FileInv' BY <1>4 DEF TypeOK, ChildInv, FileInv, RemoveOwn, Booting, Announced
  <2> QED BY <2>1, <2>2, <2>3
<1>5. CASE UnlinkOwn(d)
  <2>1. TypeOK' BY <1>5 DEF TypeOK, UnlinkOwn, Stages
  <2>2. ChildInv' BY <1>5 DEF TypeOK, ChildInv, UnlinkOwn, Booting
  <2>3. FileInv' BY <1>5 DEF TypeOK, ChildInv, FileInv, UnlinkOwn, Booting, Announced
  <2> QED BY <2>1, <2>2, <2>3
<1>6. CASE Dies(d)
  <2>1. TypeOK' BY <1>6 DEF TypeOK, Dies, Stages
  <2>2. ChildInv' BY <1>6 DEF TypeOK, ChildInv, Dies, Booting
  <2>3. FileInv' BY <1>6 DEF TypeOK, ChildInv, FileInv, Dies, Booting, Announced
  <2> QED BY <2>1, <2>2, <2>3
<1> QED BY <1>1, <1>2, <1>3, <1>4, <1>5, <1>6 DEF Server

LEMMA NextInv == IInv /\ [Next]_vars => IInv'
<1> SUFFICES ASSUME IInv, [Next]_vars PROVE IInv' OBVIOUS
<1>1. ASSUME NEW c \in Clis, Cli(c) PROVE IInv'
  <2>1. CASE \/ \E k \in {"start", "stop"} : Begin(c, k)
             \/ Acquire(c) \/ ReadState(c) \/ Scrap(c) \/ ProbeOk(c) \/ ProbeFails(c)
             \/ Alive(c) \/ Compare(c) \/ Unlink(c) \/ Mismatch(c)
    BY <2>1, LookStep
  <2>2. CASE \/ \E d \in Daemons : Spawn(c, d)
             \/ SpawnFails(c) \/ AwaitRead(c) \/ AwaitProbe(c) \/ Unlock(c) \/ PostStop(c)
    BY <2>2, WaitStep
  <2>3. CASE Exit(c) BY <2>3, ExitStep
  <2>4. CASE Attach(c) /\ ~Exit(c)
    <3> USE DaemonAssumption DEF IInv, Go, Same
    <3>1. TypeOK' BY <2>4 DEF TypeOK, Attach, Holding
    <3>2. ChildInv' BY <2>4 DEF TypeOK, ChildInv, Attach, Awaiting
    <3>3. FileInv' BY <2>4 DEF TypeOK, FileInv, Attach, Awaiting
    <3> QED BY <3>1, <3>2, <3>3
  <2> QED BY <1>1, <2>1, <2>2, <2>3, <2>4 DEF Cli, Holder, GiveUp, Leave, End, Kill
<1>2. ASSUME NEW d \in Daemons, Server(d) PROVE IInv' BY <1>2, ServerStep
<1>3. CASE UNCHANGED vars
  <2>1. TypeOK' /\ ChildInv' BY <1>3 DEF vars, cli, IInv, TypeOK, ChildInv
  <2>2. FileInv' BY <1>3 DEF vars, cli, IInv, FileInv
  <2> QED BY <2>1, <2>2 DEF IInv
<1> QED BY <1>1, <1>2, <1>3 DEF Next

LEMMA Invariance == Spec => []IInv
BY InitInv, NextInv, PTL DEF Spec

\* Every variable stays in its domain, and only the holder of the lock is past it.
THEOREM DaemonTypeOK == Spec => []TypeOK
<1>1. IInv => TypeOK BY DEF IInv
<1> QED BY <1>1, Invariance, PTL

\* The state file leads to the daemon that runs, unless a daemon came up after
\* its starter had stopped waiting.
THEOREM StateFileLeadsToDaemon == Spec => []RunningDaemonIsFound
<1>1. IInv => RunningDaemonIsFound BY DEF IInv, FileInv, RunningDaemonIsFound
<1> QED BY <1>1, Invariance, PTL

\* The lock belongs to exactly the command that is between taking it and letting
\* it go; a command that has ended, was killed or follows its daemon has it not.
LockInv == \A c \in Clis : lock = c <=> pc[c] \in Holding

LEMMA LockStep == ASSUME TypeOK, LockInv, [Next]_vars PROVE LockInv'
<1> USE DaemonAssumption DEF TypeOK, LockInv, Go, Same, Holding
<1>1. ASSUME NEW c \in Clis, Exit(c) PROVE LockInv' BY <1>1 DEF Exit
<1>2. ASSUME NEW c \in Clis, Holder(c), ~Exit(c) PROVE LockInv'
  <2>1. CASE ReadState(c) \/ Scrap(c) \/ Compare(c) \/ Unlink(c)
    BY <2>1 DEF ReadState, Scrap, Compare, Unlink, NotFound
  <2>2. CASE ProbeOk(c) \/ ProbeFails(c) \/ Mismatch(c) \/ PostStop(c) \/ SpawnFails(c)
    BY <2>2 DEF ProbeOk, ProbeFails, Mismatch, PostStop, SpawnFails
  <2>3. CASE Alive(c)
    <3>1. /\ pc[c] = "silent" /\ UNCHANGED lock
          /\ pc' \in {[pc EXCEPT ![c] = "ending"], [pc EXCEPT ![c] = "compare"]}
      BY <2>3 DEF Alive
    <3> QED BY <3>1
  <2>4. CASE Unlock(c)
    <3>1. pc[c] \in {"up", "found"} BY <2>4 DEF Unlock
    <3> QED BY <2>4, <3>1 DEF Unlock
  <2>5. CASE (\E d \in Daemons : Spawn(c, d)) \/ AwaitRead(c) \/ AwaitProbe(c)
    BY <2>5 DEF Spawn, AwaitRead, AwaitProbe
  <2> QED BY <1>2, <2>1, <2>2, <2>3, <2>4, <2>5 DEF Holder, End
<1>3. ASSUME NEW c \in Clis, ~Exit(c),
             (\E k \in {"start", "stop"} : Begin(c, k)) \/ Acquire(c) \/ Attach(c)
      PROVE  LockInv'
  BY <1>3 DEF Begin, Acquire, Attach
<1>4. ASSUME NEW d \in Daemons, Server(d) PROVE LockInv'
  BY <1>4 DEF Server, Connected, WriteState, IdleLook, IdleShutdown, RemoveOwn, UnlinkOwn,
              Dies, cli
<1>5. CASE UNCHANGED vars BY <1>5 DEF vars, cli
<1>6. ASSUME NEW c \in Clis, Cli(c) PROVE LockInv'
  BY <1>1, <1>2, <1>3, <1>6 DEF Cli, GiveUp, Leave, Kill
<1> QED BY <1>4, <1>5, <1>6 DEF Next

\* What EveryCommandEnds needs of every state: the lock is never left behind by a
\* command that no longer goes on, however commands and daemons are killed.
THEOREM LockIsNeverLeftBehind == Spec => []LockInv
<1>1. Init => LockInv
  <2> SUFFICES ASSUME Init, NEW c \in Clis PROVE lock # c /\ pc[c] \notin Holding
    BY DEF LockInv
  <2> QED BY DaemonAssumption DEF Init, Holding
<1>2. TypeOK /\ LockInv /\ [Next]_vars => LockInv' BY LockStep
<1> QED BY <1>1, <1>2, DaemonTypeOK, PTL DEF Spec
=============================================================================
