----------------------------- MODULE Enrollment -----------------------------
(***************************************************************************)
(* Enrolling hosts with a hub (internal/identity, the enroll handler of    *)
(* internal/hub, the commands of cmd/git-review-hub and git-review enroll):*)
(* the hub's identity file, which handlers of the hub and commands in      *)
(* other processes change by reading it, changing the copy and renaming a  *)
(* new file over it, under a file lock; and the credentials file of an     *)
(* agent's account, which enroll commands change the same way without one. *)
(*                                                                         *)
(* Any process may fail or be killed between two steps: the kernel frees   *)
(* its lock, the file stays as the last rename left it, and an answer may  *)
(* be lost.  Keys, certificates and hashes are opaque: a certificate is    *)
(* its serial number, a code its identifier, an authority the process that *)
(* generated it; random numbers do not repeat.                             *)
(***************************************************************************)
EXTENDS Naturals

CONSTANTS Clients,  \* runs of git-review enroll, each with its handler
          Admins,   \* processes that run git-review-hub commands, TLS handshakes
          Codes, Hosts,
          Hubs, Here,       \* hubs by URL, and the one whose store is modelled
          NoOne, NoCode, NoHost,
          Life,     \* how long a code is valid
          MaxTime   \* bound on the clock

Procs == Clients \cup Admins

ASSUME EnrollmentAssumption ==
    /\ Clients \cap Admins = {}
    /\ NoOne \notin Procs /\ NoCode \notin Codes /\ NoHost \notin Hosts
    /\ Here \in Hubs /\ Life \in Nat /\ MaxTime \in Nat

VARIABLES
    clock,
    lock,      \* who holds the file lock of the identity file
    file,      \* the identity file: authority, pending codes, hosts
    copy,      \* each updater's copy of it
    pc, op,    \* where each updater is, and with which change
    deadline,  \* the expiry time in the record of each code
    drawn,     \* codes and serial numbers that were ever drawn
    stage, ask, target, cert,   \* enroll commands: code, hub, certificate
    creds,     \* the credentials file: whose credentials it holds per hub
    snap,      \* the credentials file as each enroll command read it
    offered,   \* history: codes that were ever in the identity file
    printed,   \* history: the authority in the bundle printed for each code
    acked      \* history: hosts whose revocation was reported

hub    == <<lock, file, copy, pc, op, deadline, drawn, offered, printed, acked>>
client == <<stage, ask, target, cert, creds, snap>>
vars   == <<clock, hub, client>>

------------------------------------------------------------------------------
(* The hub's side: Store.update and the changes it is given.               *)

\* What an updater is about to do; "now" is read before it waits for the lock.
Op(kind, code, host, now) == [kind |-> kind, code |-> code, host |-> host, now |-> now]
NoOp == Op("ensure", NoCode, NoHost, 0)
Ops  == [kind : {"ensure", "create", "sign", "revoke"}, code : Codes \cup {NoCode},
         host : Hosts \cup {NoHost}, now : Nat]
Files == [ca : Procs \cup {NoOne}, pending : SUBSET Codes,
          name : [Hosts -> Codes \cup {NoCode}], revoked : SUBSET Hosts]
NewFile == [ca |-> NoOne, pending |-> {}, name |-> [h \in Hosts |-> NoCode], revoked |-> {}]

Begin(p, o) ==
    /\ pc[p] = "idle"
    /\ pc' = [pc EXCEPT ![p] = "waiting"]
    /\ op' = [op EXCEPT ![p] = o]
Handled == UNCHANGED <<clock, lock, file, copy, offered, printed, acked>>

\* git-review-hub enroll: CreateEnrollment.
BeginCreate(a, c) ==
    /\ c \notin drawn
    /\ Begin(a, Op("create", c, NoHost, clock))
    /\ drawn' = drawn \cup {c}
    /\ deadline' = [deadline EXCEPT ![c] = clock + Life]
    /\ Handled /\ UNCHANGED client
\* git-review-hub revoke.
BeginRevoke(a, h) ==
    /\ Begin(a, Op("revoke", NoCode, h, 0))
    /\ Handled /\ UNCHANGED <<deadline, drawn, client>>
\* Ensure: the hub starts, or a peer begins a TLS handshake.
BeginEnsure(a) ==
    /\ Begin(a, NoOp)
    /\ Handled /\ UNCHANGED <<deadline, drawn, client>>
\* The enroll handler receives a client's code and draws a serial number.
BeginSign(q, h) ==
    /\ stage[q] = "posted" /\ target[q] = Here /\ h \notin drawn
    /\ Begin(q, Op("sign", ask[q], h, clock))
    /\ stage' = [stage EXCEPT ![q] = "asked"]
    /\ drawn' = drawn \cup {h}
    /\ Handled /\ UNCHANGED <<deadline, ask, target, cert, creds, snap>>

\* Mutant: the file is not locked.
Acquire_NoLock(p) ==
    /\ pc[p] = "waiting"
    /\ pc' = [pc EXCEPT ![p] = "locked"]
    /\ UNCHANGED <<clock, lock, file, copy, op, deadline, drawn, offered, printed, acked, client>>
Acquire(p) ==
    /\ pc[p] = "waiting" /\ lock = NoOne
    /\ lock' = p
    /\ pc' = [pc EXCEPT ![p] = "locked"]
    /\ UNCHANGED <<clock, file, copy, op, deadline, drawn, offered, printed, acked, client>>

Expired(c, now) == deadline[c] < now
\* Mutant: a code that was used stays in the file.
Changed_KeepsCode(v, o) ==
    CASE o.kind = "create" ->
            [v EXCEPT !.pending = {c \in v.pending : ~Expired(c, o.now)} \cup {o.code}]
      [] o.kind = "sign"   -> [v EXCEPT !.name[o.host] = o.code]
      [] o.kind = "revoke" -> [v EXCEPT !.revoked = @ \cup {o.host}]
      [] o.kind = "ensure" -> v
\* The change each caller makes to its copy, and when it refuses to.
Changed(v, o) ==
    CASE o.kind = "create" ->
            [v EXCEPT !.pending = {c \in v.pending : ~Expired(c, o.now)} \cup {o.code}]
      [] o.kind = "sign"   -> [v EXCEPT !.pending = @ \ {o.code}, !.name[o.host] = o.code]
      [] o.kind = "revoke" -> [v EXCEPT !.revoked = @ \cup {o.host}]
      [] o.kind = "ensure" -> v
Permitted(v, o) ==
    /\ o.kind = "sign" => o.code \in v.pending /\ ~Expired(o.code, o.now)
    /\ o.kind = "revoke" => v.name[o.host] # NoCode

\* Mutant: renewing the server's certificate makes a new authority too.
Content_NewAuthority(p) == [file EXCEPT !.ca = p]
\* The file is read, or a new state with a new authority made if there is none.
Content(p) == IF file.ca = NoOne THEN [file EXCEPT !.ca = p] ELSE file
ReadAndChange(p) ==
    /\ pc[p] = "locked" /\ Permitted(Content(p), op[p])
    /\ copy' = [copy EXCEPT ![p] = Changed(Content(p), op[p])]
    /\ pc' = [pc EXCEPT ![p] = "changed"]
    /\ UNCHANGED <<clock, lock, file, op, deadline, drawn, offered, printed, acked, client>>
\* atomicWrite: the new file takes the old one's place.
Rename(p) ==
    /\ pc[p] = "changed"
    /\ file' = copy[p]
    /\ offered' = offered \cup file'.pending
    /\ pc' = [pc EXCEPT ![p] = "written"]
    /\ UNCHANGED <<clock, lock, copy, op, deadline, drawn, printed, acked, client>>

Return(p) ==
    /\ pc' = [pc EXCEPT ![p] = "idle"]
    /\ op' = [op EXCEPT ![p] = NoOp]
    /\ copy' = [copy EXCEPT ![p] = NewFile]
    /\ lock' = IF lock = p THEN NoOne ELSE lock
\* The lock is given up and the caller reports: a bundle with the authority, the
\* revocation, or the certificate, unless the client has stopped waiting.
Answer(p) ==
    /\ pc[p] = "written" /\ Return(p)
    /\ printed' = IF op[p].kind = "create" THEN [printed EXCEPT ![op[p].code] = copy[p].ca]
                                           ELSE printed
    /\ acked' = IF op[p].kind = "revoke" THEN acked \cup {op[p].host} ELSE acked
    /\ IF p \in Clients /\ stage[p] = "asked"
       THEN /\ stage' = [stage EXCEPT ![p] = "certified"]
            /\ cert' = [cert EXCEPT ![p] = op[p].host]
       ELSE UNCHANGED <<stage, cert>>
    /\ UNCHANGED <<clock, file, deadline, drawn, offered, ask, target, creds, snap>>
\* An update refuses its change, fails to read, write or rename, or is killed,
\* after the rename too: the lock is free again, and nobody is told anything.
Abandon(p) ==
    /\ pc[p] # "idle" /\ Return(p)
    /\ UNCHANGED <<clock, file, deadline, drawn, offered, printed, acked, client>>

Update(p) == Acquire(p) \/ ReadAndChange(p) \/ Rename(p) \/ Answer(p) \/ Abandon(p)
Command(a) ==
    \/ BeginEnsure(a)
    \/ \E c \in Codes : BeginCreate(a, c)
    \/ \E h \in Hosts : BeginRevoke(a, h)

------------------------------------------------------------------------------
(* The agent's side: git-review enroll.                                    *)

NoCredentials == [u \in Hubs |-> NoOne]
Move(q, from, to) == stage[q] = from /\ stage' = [stage EXCEPT ![q] = to]

\* A bundle that was printed and has not expired is presented to the hub.
Post(q, c) ==
    /\ Move(q, "idle", "posted")
    /\ printed[c] # NoOne /\ clock <= deadline[c]
    /\ ask' = [ask EXCEPT ![q] = c]
    /\ UNCHANGED <<clock, hub, target, cert, creds, snap>>
\* Another hub, which is not modelled, has enrolled this account.
EnrolledElsewhere(q, u) ==
    /\ Move(q, "idle", "certified")
    /\ u # Here
    /\ target' = [target EXCEPT ![q] = u]
    /\ UNCHANGED <<clock, hub, ask, cert, creds, snap>>
\* The answer is a refusal, or does not come in time, or the command is killed.
GiveUp(q) ==
    /\ stage[q] \in {"posted", "asked", "certified", "merging"}
    /\ stage' = [stage EXCEPT ![q] = "failed"]
    /\ ask' = [ask EXCEPT ![q] = NoCode]
    /\ cert' = [cert EXCEPT ![q] = NoHost]
    /\ snap' = [snap EXCEPT ![q] = NoCredentials]
    /\ UNCHANGED <<clock, hub, target, creds>>

\* SaveCredentials: the file is read, and written with one more entry.  A file
\* that cannot be read, or is not JSON, counts as one without entries.
ReadCredentials(q) ==
    /\ Move(q, "certified", "merging")
    /\ \E entries \in {creds, NoCredentials} : snap' = [snap EXCEPT ![q] = entries]
    /\ UNCHANGED <<clock, hub, ask, target, cert, creds>>
\* Mutant: the entry is stored under the host's name, not under the hub's.
WriteCredentials_ByHost(q) ==
    /\ Move(q, "merging", "saved")
    /\ creds' = [u \in Hubs \cup {cert[q]} |-> IF u = cert[q] THEN q ELSE snap[q][u]]
    /\ snap' = [snap EXCEPT ![q] = NoCredentials]
    /\ UNCHANGED <<clock, hub, ask, target, cert>>
WriteCredentials(q) ==
    /\ Move(q, "merging", "saved")
    /\ creds' = [snap[q] EXCEPT ![target[q]] = q]
    /\ snap' = [snap EXCEPT ![q] = NoCredentials]
    /\ UNCHANGED <<clock, hub, ask, target, cert>>

Enroll(q) ==
    \/ \E c \in Codes : Post(q, c)
    \/ \E u \in Hubs : EnrolledElsewhere(q, u)
    \/ \E h \in Hosts : BeginSign(q, h)
    \/ ReadCredentials(q) \/ WriteCredentials(q) \/ GiveUp(q)

Tick ==
    /\ clock < MaxTime
    /\ clock' = clock + 1
    /\ UNCHANGED <<hub, client>>

------------------------------------------------------------------------------
Init ==
    /\ clock = 0
    /\ lock = NoOne
    /\ file = NewFile
    /\ copy = [p \in Procs |-> NewFile]
    /\ pc = [p \in Procs |-> "idle"]
    /\ op = [p \in Procs |-> NoOp]
    /\ deadline = [c \in Codes |-> 0]
    /\ drawn = {}
    /\ stage = [q \in Clients |-> "idle"]
    /\ ask = [q \in Clients |-> NoCode]
    /\ target = [q \in Clients |-> Here]
    /\ cert = [q \in Clients |-> NoHost]
    /\ creds = NoCredentials
    /\ snap = [q \in Clients |-> NoCredentials]
    /\ offered = {}
    /\ printed = [c \in Codes |-> NoOne]
    /\ acked = {}

Next ==
    \/ \E p \in Procs : Update(p)
    \/ \E a \in Admins : Command(a)
    \/ \E q \in Clients : Enroll(q)
    \/ Tick

Spec == Init /\ [][Next]_vars

------------------------------------------------------------------------------
Stages == {"idle", "posted", "asked", "certified", "merging", "saved", "failed"}

\* Every variable stays in its domain.
TypeOK ==
    /\ clock \in 0..MaxTime
    /\ lock \in Procs \cup {NoOne}
    /\ file \in Files
    /\ copy \in [Procs -> Files]
    /\ pc \in [Procs -> {"idle", "waiting", "locked", "changed", "written"}]
    /\ op \in [Procs -> Ops]
    /\ deadline \in [Codes -> Nat]
    /\ drawn \subseteq Codes \cup Hosts
    /\ stage \in [Clients -> Stages]
    /\ ask \in [Clients -> Codes \cup {NoCode}]
    /\ target \in [Clients -> Hubs]
    /\ cert \in [Clients -> Hosts \cup {NoHost}]
    /\ creds \in [Hubs -> Clients \cup {NoOne}]
    /\ snap \in [Clients -> [Hubs -> Clients \cup {NoOne}]]
    /\ offered \subseteq Codes
    /\ printed \in [Codes -> Procs \cup {NoOne}]
    /\ acked \subseteq Hosts

(* Safety.                                                                 *)

\* "Enrollment uses a random 256-bit one-time secret [...] and is consumed
\* atomically" (SECURITY.md): however many hosts present a code, and whichever
\* process dies between which steps, it enrolls one host at most, and a code that
\* enrolled a host is not pending.
OneHostPerCode ==
    \A h \in Hosts : file.name[h] # NoCode =>
        /\ file.name[h] \notin file.pending
        /\ \A g \in Hosts : file.name[g] = file.name[h] => g = h

\* What was reported has happened and stays: a bundle carries the authority
\* that signs the certificates, an agent's certificate names a host enrolled by
\* the code it presented, and a host reported as revoked is revoked.
ReportsHold ==
    /\ \A c \in Codes : printed[c] # NoOne => c \in offered /\ printed[c] = file.ca
    /\ \A q \in Clients : cert[q] # NoHost => file.name[cert[q]] = ask[q]
    /\ acked \subseteq file.revoked

(* Refinement: the file is the store that IdentityStore promises.          *)

Store == INSTANCE IdentityStore WITH
    pending <- file.pending, enrolledBy <- file.name, revoked <- file.revoked

\* Whatever processes do between their reads and their renames, the codes and
\* hosts in the file change as if each update were one step, and no update is
\* taken back by another.
ImplementsStore == Store!Spec
==============================================================================
