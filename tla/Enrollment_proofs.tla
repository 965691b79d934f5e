------------------------- MODULE Enrollment_proofs -------------------------
(***************************************************************************)
(* Proofs about Enrollment: the identity file implements the store that    *)
(* IdentityStore promises, and what was reported holds.                    *)
(*                                                                         *)
(* The argument: whoever is past the lock holds it, so the file is still   *)
(* the one an updater read when it renames its copy over it, and the copy  *)
(* is the file with that updater's change and no other.                    *)
(***************************************************************************)
EXTENDS Enrollment, TLAPS

Before == {"waiting", "locked", "changed"}

\* Only the holder of the lock is past it.
LockInv == \A p \in Procs : pc[p] \in {"locked", "changed", "written"} => lock = p

\* An operation names what it needs; what it draws is its own, and is not in
\* the file before its rename.
OpInv ==
    \A p \in Procs :
        /\ pc[p] = "idle" => op[p] = NoOp
        /\ op[p].kind \in {"create", "sign"} => op[p].code \in Codes
        /\ op[p].kind \in {"sign", "revoke"} => op[p].host \in Hosts
        /\ op[p].kind = "create" => op[p].code \in drawn
        /\ op[p].kind = "sign" => op[p].host \in drawn
        /\ pc[p] \in Before /\ op[p].kind = "create" => op[p].code \notin offered
        /\ pc[p] \in Before /\ op[p].kind = "sign" => file.name[op[p].host] = NoCode
        /\ \A r \in Procs \ {p} : op[p].kind = op[r].kind =>
              /\ op[p].kind = "create" => op[p].code # op[r].code
              /\ op[p].kind = "sign" => op[p].host # op[r].host

\* What is in the file was drawn and offered, and a code has one host at most.
FileInv ==
    /\ offered \subseteq drawn
    /\ file.pending \subseteq offered
    /\ \A h \in Hosts : file.name[h] # NoCode => h \in drawn /\ file.name[h] \in offered
    /\ OneHostPerCode

\* A changed copy is the file with the change, and a written one is the file.
CopyOK(p) ==
    /\ pc[p] = "changed" =>
          Permitted(Content(p), op[p]) /\ copy[p] = Changed(Content(p), op[p])
    /\ pc[p] = "written" =>
          /\ copy[p] = file
          /\ op[p].kind = "create" => op[p].code \in offered
          /\ op[p].kind = "sign" => file.name[op[p].host] = op[p].code
          /\ op[p].kind = "revoke" => op[p].host \in file.revoked
CopyInv == \A p \in Procs : CopyOK(p)

\* A handler works on the code its client asked with.
ClientInv ==
    \A q \in Clients :
        /\ stage[q] \in {"posted", "asked"} => ask[q] \in Codes
        /\ pc[q] # "idle" => stage[q] \notin {"idle", "posted"}
        /\ pc[q] # "idle" /\ stage[q] = "asked" =>
              op[q].kind = "sign" /\ op[q].code = ask[q]
        /\ cert[q] # NoHost => ask[q] \in Codes /\ stage[q] \in {"certified", "merging", "saved"}

HubInv == LockInv /\ OpInv /\ FileInv /\ CopyInv /\ ClientInv /\ ReportsHold
IInv == TypeOK /\ HubInv

OpOK(o) == /\ o.kind \in {"create", "sign"} => o.code \in Codes
           /\ o.kind \in {"sign", "revoke"} => o.host \in Hosts

\* What a change does to each part of the identity file.
LEMMA ChangedFields ==
    ASSUME NEW v \in Files, NEW o \in Ops, OpOK(o)
    PROVE  /\ Changed(v, o) \in Files
           /\ Changed(v, o).ca = v.ca
           /\ o.kind = "create" =>
                 /\ Changed(v, o).pending \subseteq v.pending \cup {o.code}
                 /\ o.code \in Changed(v, o).pending
                 /\ Changed(v, o).name = v.name /\ Changed(v, o).revoked = v.revoked
           /\ o.kind = "sign" =>
                 /\ Changed(v, o).pending = v.pending \ {o.code}
                 /\ Changed(v, o).name = [v.name EXCEPT ![o.host] = o.code]
                 /\ Changed(v, o).revoked = v.revoked
           /\ o.kind = "revoke" =>
                 /\ Changed(v, o).pending = v.pending /\ Changed(v, o).name = v.name
                 /\ Changed(v, o).revoked = v.revoked \cup {o.host}
           /\ o.kind = "ensure" => Changed(v, o) = v
<1>1. o.kind \in {"ensure", "create", "sign", "revoke"} BY DEF Ops
<1>2. CASE o.kind = "create"  BY <1>2 DEF Changed, Files, Ops, OpOK
<1>3. CASE o.kind = "sign"    BY <1>3 DEF Changed, Files, Ops, OpOK
<1>4. CASE o.kind = "revoke"  BY <1>4 DEF Changed, Files, Ops, OpOK
<1>5. CASE o.kind = "ensure"  BY <1>5 DEF Changed, Files, Ops, OpOK
<1> QED BY <1>1, <1>2, <1>3, <1>4, <1>5

LEMMA ContentFields ==
    ASSUME TypeOK, NEW p \in Procs
    PROVE  /\ Content(p) \in Files
           /\ Content(p).pending = file.pending /\ Content(p).name = file.name
           /\ Content(p).revoked = file.revoked
           /\ file.ca # NoOne => Content(p) = file
BY DEF TypeOK, Content, Files

LEMMA InitInv == Init => IInv
<1> SUFFICES ASSUME Init PROVE IInv OBVIOUS
<1> USE EnrollmentAssumption DEF Init
<1>1. TypeOK
  <2> NoOp \in Ops /\ NewFile \in Files BY DEF NoOp, Op, Ops, NewFile, Files
  <2> NoCredentials \in [Hubs -> Clients \cup {NoOne}] BY DEF NoCredentials
  <2> QED BY DEF TypeOK, Stages, Procs
<1>2. LockInv /\ ClientInv BY DEF LockInv, ClientInv, Procs
<1>3. OpInv BY DEF OpInv, NoOp, Op, Before
<1>4. FileInv BY DEF FileInv, OneHostPerCode, NewFile
<1>5. CopyInv BY DEF CopyInv, CopyOK
<1>6. ReportsHold BY DEF ReportsHold
<1> QED BY <1>1, <1>2, <1>3, <1>4, <1>5, <1>6 DEF IInv, HubInv

LEMMA TypeStep == IInv /\ [Next]_vars => TypeOK'
<1> SUFFICES ASSUME IInv, [Next]_vars PROVE TypeOK' OBVIOUS
<1> USE EnrollmentAssumption DEF IInv, TypeOK, HubInv
<1>0. NoOp \in Ops /\ NewFile \in Files /\ NoCredentials \in [Hubs -> Clients \cup {NoOne}]
  BY DEF NoOp, Op, Ops, NewFile, Files, NoCredentials
<1>1. ASSUME NEW p \in Procs, Acquire(p) PROVE TypeOK' BY <1>1 DEF Acquire, client
<1>2. ASSUME NEW p \in Procs, ReadAndChange(p) PROVE TypeOK'
  <2>1. Changed(Content(p), op[p]) \in Files
    <3>1. op[p] \in Ops /\ OpOK(op[p]) BY DEF OpInv, OpOK
    <3> QED BY <3>1, ContentFields, ChangedFields
  <2> QED BY <1>2, <2>1 DEF ReadAndChange, client
<1>3. ASSUME NEW p \in Procs, Rename(p) PROVE TypeOK'
  <2>1. file' \in Files BY <1>3 DEF Rename
  <2>2. file'.pending \subseteq Codes BY <2>1 DEF Files
  <2> QED BY <1>3, <2>1, <2>2 DEF Rename, client
<1>4. ASSUME NEW p \in Procs, Answer(p) PROVE TypeOK'
  <2>1. copy[p].ca \in Procs \cup {NoOne} BY DEF Files
  <2>2. printed' \in [Codes -> Procs \cup {NoOne}] BY <1>4, <2>1 DEF Answer
  <2>3. op[p].kind = "revoke" => op[p].host \in Hosts BY DEF OpInv
  <2>4. acked' \subseteq Hosts BY <1>4, <2>3 DEF Answer
  <2>5. op[p].host \in Hosts \cup {NoHost} BY DEF Ops
  <2>6. stage' \in [Clients -> Stages] /\ cert' \in [Clients -> Hosts \cup {NoHost}]
    BY <1>4, <2>5 DEF Answer, Stages
  <2> QED BY <1>4, <1>0, <2>2, <2>4, <2>6 DEF Answer, Return
<1>5. ASSUME NEW p \in Procs, Abandon(p) PROVE TypeOK'
  BY <1>5, <1>0 DEF Abandon, Return, client
<1>6. ASSUME NEW a \in Admins, Command(a) PROVE TypeOK'
  <2>0. a \in Procs BY DEF Procs
  <2>1. CASE BeginEnsure(a) BY <1>0, <2>0, <2>1 DEF BeginEnsure, Begin, Handled, client
  <2>2. ASSUME NEW c \in Codes, BeginCreate(a, c) PROVE TypeOK'
    <3>1. clock \in Nat /\ clock + Life \in Nat OBVIOUS
    <3>2. Op("create", c, NoHost, clock) \in Ops BY <3>1 DEF Op, Ops
    <3> QED BY <2>0, <2>2, <3>1, <3>2 DEF BeginCreate, Begin, Handled, client
  <2>3. ASSUME NEW h \in Hosts, BeginRevoke(a, h) PROVE TypeOK'
    <3>1. Op("revoke", NoCode, h, 0) \in Ops BY DEF Op, Ops
    <3> QED BY <2>0, <2>3, <3>1 DEF BeginRevoke, Begin, Handled, client
  <2> QED BY <1>6, <2>1, <2>2, <2>3 DEF Command
<1>7. ASSUME NEW q \in Clients, Enroll(q) PROVE TypeOK'
  <2>0. q \in Procs BY DEF Procs
  <2>1. ASSUME NEW c \in Codes, Post(q, c) PROVE TypeOK'
    BY <2>1 DEF Post, Move, hub, Stages
  <2>2. ASSUME NEW u \in Hubs, EnrolledElsewhere(q, u) PROVE TypeOK'
    BY <2>2 DEF EnrolledElsewhere, Move, hub, Stages
  <2>3. ASSUME NEW h \in Hosts, BeginSign(q, h) PROVE TypeOK'
    <3>1. clock \in Nat OBVIOUS
    <3>2. Op("sign", ask[q], h, clock) \in Ops BY <3>1 DEF Op, Ops
    <3> QED BY <2>0, <2>3, <3>2 DEF BeginSign, Begin, Handled, Stages
  <2>4. CASE ReadCredentials(q)
    BY <1>0, <2>4 DEF ReadCredentials, Move, hub, Stages
  <2>5. CASE WriteCredentials(q)
    BY <1>0, <2>5 DEF WriteCredentials, Move, hub, Stages
  <2>6. CASE GiveUp(q) BY <1>0, <2>6 DEF GiveUp, hub, Stages
  <2> QED BY <1>7, <2>1, <2>2, <2>3, <2>4, <2>5, <2>6 DEF Enroll
<1>8. CASE Tick BY <1>8 DEF Tick, hub, client
<1>9. CASE UNCHANGED vars BY <1>9 DEF vars, hub, client
<1> QED BY <1>1, <1>2, <1>3, <1>4, <1>5, <1>6, <1>7, <1>8, <1>9 DEF Next, Update

\* Steps that change neither the file nor an updater keep the hub's part.
LEMMA ClientStep ==
    ASSUME IInv, NEW q \in Clients,
           \/ \E c \in Codes : Post(q, c)
           \/ \E u \in Hubs : EnrolledElsewhere(q, u)
           \/ ReadCredentials(q) \/ WriteCredentials(q) \/ GiveUp(q)
    PROVE  HubInv'
<1> USE EnrollmentAssumption DEF IInv, HubInv, TypeOK
<1>1. UNCHANGED hub
  BY DEF Post, EnrolledElsewhere, ReadCredentials, WriteCredentials, GiveUp
<1>2. LockInv' /\ OpInv' /\ FileInv' /\ CopyInv'
  <2>1. LockInv' BY <1>1 DEF hub, LockInv
  <2>2. OpInv' BY <1>1 DEF hub, OpInv
  <2>3. FileInv' BY <1>1 DEF hub, FileInv, OneHostPerCode
  <2>4. CopyInv'
    <3>1. \A r \in Procs : Content(r)' = Content(r) BY <1>1 DEF hub, Content
    <3>2. ASSUME NEW v, NEW o
          PROVE  /\ Permitted(v, o)' <=> Permitted(v, o)
                 /\ Changed(v, o)' = Changed(v, o)
      BY <1>1 DEF hub, Permitted, Changed, Expired
    <3>3. ASSUME NEW r \in Procs PROVE CopyOK(r)'
      BY <1>1, <3>1, <3>2 DEF hub, CopyInv, CopyOK
    <3> QED BY <3>3 DEF CopyInv
  <2> QED BY <2>1, <2>2, <2>3, <2>4
<1>3. ClientInv' /\ ReportsHold'
  <2>1. ASSUME NEW c \in Codes, Post(q, c) PROVE ClientInv' /\ ReportsHold'
    <3>1. /\ stage[q] = "idle" /\ stage' = [stage EXCEPT ![q] = "posted"]
          /\ ask' = [ask EXCEPT ![q] = c] /\ cert' = cert
      BY <2>1 DEF Post, Move
    <3>2. pc[q] = "idle" /\ cert[q] = NoHost BY <3>1 DEF ClientInv
    <3>3. ClientInv' BY <1>1, <3>1, <3>2 DEF hub, ClientInv
    <3>4. ReportsHold' BY <1>1, <3>1, <3>2 DEF hub, ReportsHold
    <3> QED BY <3>3, <3>4
  <2>2. ASSUME NEW u \in Hubs, EnrolledElsewhere(q, u) PROVE ClientInv' /\ ReportsHold'
    BY <1>1, <2>2 DEF EnrolledElsewhere, Move, hub, ClientInv, ReportsHold
  <2>3. CASE ReadCredentials(q)
    BY <1>1, <2>3 DEF ReadCredentials, Move, hub, ClientInv, ReportsHold
  <2>4. CASE WriteCredentials(q)
    BY <1>1, <2>4 DEF WriteCredentials, Move, hub, ClientInv, ReportsHold
  <2>5. CASE GiveUp(q)
    BY <1>1, <2>5 DEF GiveUp, hub, ClientInv, ReportsHold
  <2> QED BY <2>1, <2>2, <2>3, <2>4, <2>5
<1> QED BY <1>2, <1>3

\* Process p begins o with a code or a serial number nobody else has.
Begun(p, o) ==
    /\ Begin(p, o) /\ Handled /\ drawn \subseteq drawn'
    /\ o.kind \in {"create", "sign"} => o.code \in Codes
    /\ o.kind \in {"sign", "revoke"} => o.host \in Hosts
    /\ o.kind = "create" => o.code \in drawn' /\ o.code \notin drawn
    /\ o.kind = "sign" => o.host \in drawn' /\ o.host \notin drawn
    /\ \A c \in Codes \cap drawn : deadline'[c] = deadline[c]
    /\ \/ p \in Admins /\ UNCHANGED client
       \/ /\ p \in Clients /\ stage[p] = "posted"
          /\ o.kind = "sign" /\ o.code = ask[p]
          /\ stage' = [stage EXCEPT ![p] = "asked"]
          /\ UNCHANGED <<ask, cert>>

LEMMA BeginStep ==
    ASSUME IInv, NEW p \in Procs, NEW o, Begun(p, o)
    PROVE  HubInv'
<1> USE EnrollmentAssumption DEF IInv, HubInv, TypeOK
<1> USE DEF Begun, Begin, Handled
<1>0. op' = [op EXCEPT ![p] = o] /\ pc' = [pc EXCEPT ![p] = "waiting"] OBVIOUS
<1>1. LockInv' BY DEF LockInv
<1>2. OpInv'
  <2>2. o.kind = "create" => o.code \notin offered BY DEF FileInv
  <2>3. o.kind = "sign" => file.name[o.host] = NoCode BY DEF FileInv
  <2>4. ASSUME NEW r \in Procs \ {p}
        PROVE  /\ op[r].kind = "create" => op[r].code \in drawn
               /\ op[r].kind = "sign" => op[r].host \in drawn
    BY DEF OpInv
  <2> QED BY <1>0, <2>2, <2>3, <2>4 DEF OpInv, Before
<1>3. FileInv' BY DEF FileInv, OneHostPerCode
<1>4. CopyInv'
  <2> SUFFICES ASSUME NEW r \in Procs \ {p}, pc[r] \in {"changed", "written"}
               PROVE  CopyOK(r)'
    BY <1>0 DEF CopyInv, CopyOK
  <2>1. op'[r] = op[r] /\ pc'[r] = pc[r] /\ UNCHANGED <<file, copy, offered>> BY <1>0
  <2>2. Content(r)' = Content(r) BY <2>1 DEF Content
  <2>3. CASE pc[r] = "changed"
    <3>1. Content(r).pending \subseteq Codes \cap drawn
      BY ContentFields DEF FileInv, Files
    <3>2. op[r] \in Ops /\ OpOK(op[r]) BY DEF OpInv, OpOK
    <3>3. \A c \in Content(r).pending : Expired(c, op[r].now)' <=> Expired(c, op[r].now)
      BY <2>1, <3>1 DEF Expired
    <3>4. Permitted(Content(r), op[r])' <=> Permitted(Content(r), op[r])
      BY <2>1, <2>2, <3>3 DEF Permitted
    <3>5. Changed(Content(r), op[r])' = Changed(Content(r), op[r])
      BY <2>1, <2>2, <3>2, <3>3 DEF Changed, Ops
    <3> QED BY <2>1, <2>2, <2>3, <3>4, <3>5 DEF CopyInv, CopyOK
  <2>4. CASE pc[r] = "written" BY <2>1, <2>4 DEF CopyInv, CopyOK
  <2> QED BY <2>3, <2>4
<1>5. ClientInv' BY <1>0 DEF ClientInv, client, Procs
<1>6. ReportsHold' BY DEF ReportsHold, client
<1> QED BY <1>1, <1>2, <1>3, <1>4, <1>5, <1>6

LEMMA BeginSteps ==
    ASSUME IInv, NEW p \in Procs,
           \/ p \in Admins /\ Command(p)
           \/ p \in Clients /\ \E h \in Hosts : BeginSign(p, h)
    PROVE  HubInv'
<1> USE EnrollmentAssumption DEF IInv, HubInv, TypeOK
<1>1. ASSUME p \in Admins, BeginEnsure(p) PROVE HubInv'
  <2>1. Begun(p, NoOp) BY <1>1 DEF BeginEnsure, NoOp, Op, Begun
  <2> QED BY <2>1, BeginStep
<1>2. ASSUME p \in Admins, NEW c \in Codes, BeginCreate(p, c) PROVE HubInv'
  <2>1. Begun(p, Op("create", c, NoHost, clock)) BY <1>2 DEF BeginCreate, Op, Begun
  <2> QED BY <2>1, BeginStep
<1>3. ASSUME p \in Admins, NEW h \in Hosts, BeginRevoke(p, h) PROVE HubInv'
  <2>1. Begun(p, Op("revoke", NoCode, h, 0)) BY <1>3 DEF BeginRevoke, Op, Begun
  <2> QED BY <2>1, BeginStep
<1>4. ASSUME p \in Clients, NEW h \in Hosts, BeginSign(p, h) PROVE HubInv'
  <2>1. Begun(p, Op("sign", ask[p], h, clock)) BY <1>4 DEF BeginSign, Op, Begun, ClientInv
  <2> QED BY <2>1, BeginStep
<1> QED BY <1>1, <1>2, <1>3, <1>4 DEF Command

LEMMA AcquireStep == ASSUME IInv, NEW p \in Procs, Acquire(p) PROVE HubInv'
<1> USE EnrollmentAssumption DEF IInv, HubInv, TypeOK, Acquire
<1>1. LockInv' BY DEF LockInv
<1>2. OpInv' BY DEF OpInv, Before
<1>3. FileInv' BY DEF FileInv, OneHostPerCode
<1>4. CopyInv'
  <2>1. \A r \in Procs : Content(r)' = Content(r) BY DEF Content
  <2>2. ASSUME NEW v, NEW o
        PROVE  /\ Permitted(v, o)' <=> Permitted(v, o)
               /\ Changed(v, o)' = Changed(v, o)
    BY DEF Permitted, Changed, Expired
  <2>3. ASSUME NEW r \in Procs PROVE CopyOK(r)'
    BY <2>1, <2>2 DEF CopyInv, CopyOK
  <2> QED BY <2>3 DEF CopyInv
<1>5. ClientInv' BY DEF ClientInv, client, Procs
<1>6. ReportsHold' BY DEF ReportsHold, client
<1> QED BY <1>1, <1>2, <1>3, <1>4, <1>5, <1>6

LEMMA ReadStep == ASSUME IInv, NEW p \in Procs, ReadAndChange(p) PROVE HubInv'
<1> USE EnrollmentAssumption DEF IInv, HubInv, TypeOK, ReadAndChange
<1>1. LockInv' BY DEF LockInv
<1>2. OpInv' BY DEF OpInv, Before
<1>3. FileInv' BY DEF FileInv, OneHostPerCode
<1>4. CopyInv'
  <2>1. \A r \in Procs : Content(r)' = Content(r) BY DEF Content
  <2>2. ASSUME NEW v, NEW o
        PROVE  /\ Permitted(v, o)' <=> Permitted(v, o)
               /\ Changed(v, o)' = Changed(v, o)
    BY DEF Permitted, Changed, Expired
  <2>3. ASSUME NEW r \in Procs PROVE CopyOK(r)'
    BY <2>1, <2>2 DEF CopyInv, CopyOK
  <2> QED BY <2>3 DEF CopyInv
<1>5. ClientInv' BY DEF ClientInv, client, Procs
<1>6. ReportsHold' BY DEF ReportsHold, client
<1> QED BY <1>1, <1>2, <1>3, <1>4, <1>5, <1>6

\* What a rename does to the file, by the kind of change.
Created(p) ==
    /\ op[p].kind = "create"
    /\ op[p].code \in Codes /\ op[p].code \notin offered /\ op[p].code \in file'.pending
    /\ file'.pending \subseteq file.pending \cup {op[p].code}
    /\ offered' = offered \cup {op[p].code}
    /\ file'.name = file.name /\ file'.revoked = file.revoked
Signed(p) ==
    /\ op[p].kind = "sign"
    /\ op[p].code \in file.pending /\ op[p].host \in Hosts
    /\ file.name[op[p].host] = NoCode
    /\ file'.pending = file.pending \ {op[p].code}
    /\ file'.name = [file.name EXCEPT ![op[p].host] = op[p].code]
    /\ offered' = offered /\ file'.revoked = file.revoked
Revoked(p) ==
    /\ op[p].kind = "revoke"
    /\ op[p].host \in Hosts /\ file.name[op[p].host] # NoCode
    /\ file'.revoked = file.revoked \cup {op[p].host}
    /\ offered' = offered /\ file'.pending = file.pending /\ file'.name = file.name
Kept(p) ==
    /\ op[p].kind = "ensure"
    /\ offered' = offered /\ file'.pending = file.pending /\ file'.name = file.name
    /\ file'.revoked = file.revoked
Renamed(p) ==
    /\ \A r \in Procs \ {p} : pc[r] \in {"idle", "waiting"}
    /\ file' \in Files
    /\ file.ca # NoOne => file'.ca = file.ca
    /\ Created(p) \/ Signed(p) \/ Revoked(p) \/ Kept(p)

LEMMA RenameEffect == ASSUME IInv, NEW p \in Procs, Rename(p) PROVE Renamed(p)
<1> USE DEF IInv, HubInv, TypeOK
<1>1. \A r \in Procs \ {p} : pc[r] \in {"idle", "waiting"}
  <2>1. \A r \in Procs \ {p} : pc[r] \notin {"locked", "changed", "written"}
    BY DEF LockInv, Rename
  <2> QED BY <2>1
<1>2. /\ file' = Changed(Content(p), op[p]) /\ Permitted(Content(p), op[p])
      /\ offered' = offered \cup file'.pending
  BY DEF Rename, CopyInv, CopyOK
<1>3. op[p] \in Ops /\ OpOK(op[p]) BY DEF OpInv, OpOK
<1>4. op[p].kind \in {"ensure", "create", "sign", "revoke"} BY <1>3 DEF Ops
<1>5. file.pending \subseteq offered BY DEF FileInv
<1>6. /\ Content(p) \in Files
      /\ Content(p).pending = file.pending /\ Content(p).name = file.name
      /\ Content(p).revoked = file.revoked
      /\ file.ca # NoOne => Content(p) = file
  BY ContentFields
<1> HIDE DEF TypeOK
<1>7. file' \in Files /\ (file.ca # NoOne => file'.ca = file.ca)
  BY <1>2, <1>3, <1>6, ChangedFields
<1>8. CASE op[p].kind = "create"
  <2>1. op[p].code \in Codes /\ op[p].code \notin offered
    BY <1>8 DEF OpInv, Rename, Before
  <2>2. /\ file'.pending \subseteq file.pending \cup {op[p].code}
        /\ op[p].code \in file'.pending
        /\ file'.name = file.name /\ file'.revoked = file.revoked
    BY <1>2, <1>3, <1>6, <1>8, ChangedFields
  <2> QED BY <1>1, <1>2, <1>5, <1>7, <1>8, <2>1, <2>2 DEF Renamed, Created
<1>9. CASE op[p].kind = "sign"
  <2>1. op[p].host \in Hosts /\ file.name[op[p].host] = NoCode
    BY <1>9 DEF OpInv, Rename, Before
  <2>2. /\ file'.pending = file.pending \ {op[p].code}
        /\ file'.name = [file.name EXCEPT ![op[p].host] = op[p].code]
        /\ file'.revoked = file.revoked
    BY <1>2, <1>3, <1>6, <1>9, ChangedFields
  <2>3. op[p].code \in file.pending BY <1>2, <1>6, <1>9 DEF Permitted
  <2> QED BY <1>1, <1>2, <1>5, <1>7, <1>9, <2>1, <2>2, <2>3 DEF Renamed, Signed
<1>10. CASE op[p].kind = "revoke"
  <2>1. /\ file'.pending = file.pending /\ file'.name = file.name
        /\ file'.revoked = file.revoked \cup {op[p].host}
    <3>1. /\ Changed(Content(p), op[p]).pending = Content(p).pending
          /\ Changed(Content(p), op[p]).name = Content(p).name
          /\ Changed(Content(p), op[p]).revoked = Content(p).revoked \cup {op[p].host}
      BY <1>3, <1>6, <1>10, ChangedFields
    <3> QED BY <1>2, <1>6, <3>1
  <2>2. op[p].host \in Hosts /\ file.name[op[p].host] # NoCode
    BY <1>2, <1>6, <1>10 DEF Permitted, OpInv
  <2> QED BY <1>1, <1>2, <1>5, <1>7, <1>10, <2>1, <2>2 DEF Renamed, Revoked
<1>11. CASE op[p].kind = "ensure"
  <2>1. file' = Content(p) BY <1>2, <1>3, <1>6, <1>11, ChangedFields
  <2> QED BY <1>1, <1>2, <1>5, <1>6, <1>7, <1>11, <2>1 DEF Renamed, Kept
<1> QED BY <1>4, <1>8, <1>9, <1>10, <1>11

LEMMA RenameStep == ASSUME IInv, NEW p \in Procs, Rename(p) PROVE HubInv'
<1>r. Renamed(p) BY RenameEffect
<1> USE DEF IInv, HubInv
<1>0. /\ pc' = [pc EXCEPT ![p] = "written"] /\ file' = copy[p] /\ pc[p] = "changed"
      /\ UNCHANGED <<lock, copy, op, drawn, printed, acked, stage, ask, cert>>
  BY DEF Rename, client
<1>a. /\ pc \in [Procs -> {"idle", "waiting", "locked", "changed", "written"}]
      /\ file.name \in [Hosts -> Codes \cup {NoCode}]
  BY DEF TypeOK, Files
<1>1. LockInv' BY <1>0, <1>a DEF LockInv
<1>2. OpInv'
  <2>1. ASSUME NEW r \in Procs \ {p}, pc[r] = "waiting", op[r].kind = "create"
        PROVE  op[r].code \notin offered'
    <3>1. op[r].code \notin offered BY <2>1 DEF OpInv, Before
    <3>2. op[p].kind = "create" => op[p].code # op[r].code BY <2>1 DEF OpInv
    <3> QED BY <1>r, <3>1, <3>2 DEF Renamed, Created, Signed, Revoked, Kept
  <2>2. ASSUME NEW r \in Procs \ {p}, pc[r] = "waiting", op[r].kind = "sign"
        PROVE  file'.name[op[r].host] = NoCode
    <3>1. op[r].host \in Hosts /\ file.name[op[r].host] = NoCode BY <2>2 DEF OpInv, Before
    <3>2. op[p].kind = "sign" => op[p].host # op[r].host BY <2>2 DEF OpInv
    <3> QED BY <1>r, <1>a, <3>1, <3>2 DEF Renamed, Created, Signed, Revoked, Kept
  <2>3. \A r \in Procs \ {p} : pc[r] \in {"idle", "waiting"} BY <1>r DEF Renamed
  <2> QED BY <1>0, <1>a, <2>1, <2>2, <2>3 DEF OpInv, Before
<1>3. FileInv'
  <2>0. FileInv /\ OneHostPerCode BY DEF FileInv
  <2>1. offered' \subseteq drawn'
    BY <1>r, <1>0 DEF Renamed, Created, Signed, Revoked, Kept, FileInv, OpInv
  <2>2. file'.pending \subseteq offered'
    BY <1>r, <2>0 DEF Renamed, Created, Signed, Revoked, Kept, FileInv
  <2>3. CASE Signed(p)
    <3>1. op[p].host \in drawn BY <2>3 DEF OpInv, Signed
    <3>2. op[p].code \in offered /\ \A g \in Hosts : file.name[g] # op[p].code
      BY <2>0, <2>3, <1>a, EnrollmentAssumption DEF FileInv, OneHostPerCode, Signed, TypeOK
    <3>3. ASSUME NEW h \in Hosts, file'.name[h] # NoCode
          PROVE  /\ h \in drawn' /\ file'.name[h] \in offered'
                 /\ file'.name[h] \notin file'.pending
                 /\ \A g \in Hosts : file'.name[g] = file'.name[h] => g = h
      BY <1>0, <1>a, <2>0, <2>3, <3>1, <3>2, <3>3 DEF FileInv, OneHostPerCode, Signed
    <3> QED BY <2>1, <2>2, <3>3 DEF FileInv, OneHostPerCode
  <2>4. CASE Created(p)
    BY <1>0, <2>0, <2>1, <2>2, <2>4 DEF FileInv, OneHostPerCode, Created
  <2>5. CASE Revoked(p) \/ Kept(p)
    BY <1>0, <2>0, <2>1, <2>2, <2>5 DEF FileInv, OneHostPerCode, Revoked, Kept
  <2> QED BY <1>r, <2>3, <2>4, <2>5 DEF Renamed
<1>4. CopyInv'
  <2>1. ASSUME NEW r \in Procs \ {p} PROVE CopyOK(r)'
    BY <1>r, <1>0, <1>a DEF Renamed, CopyOK
  <2>2. /\ op[p].kind = "create" => op[p].code \in offered'
        /\ op[p].kind = "sign" => file'.name[op[p].host] = op[p].code
        /\ op[p].kind = "revoke" => op[p].host \in file'.revoked
    BY <1>r, <1>a DEF Renamed, Created, Signed, Revoked, Kept
  <2>3. CopyOK(p)' BY <1>0, <1>a, <2>2 DEF CopyOK
  <2> QED BY <2>1, <2>3 DEF CopyInv
<1>5. ClientInv' BY <1>0, <1>a DEF ClientInv, Procs
<1>6. ReportsHold'
  <2>0. ReportsHold /\ offered \subseteq offered' /\ file.revoked \subseteq file'.revoked
    BY <1>r DEF Renamed, Created, Signed, Revoked, Kept
  <2>1. ASSUME NEW c \in Codes, printed'[c] # NoOne
        PROVE  c \in offered' /\ printed'[c] = file'.ca
    <3>1. printed[c] # NoOne /\ c \in offered /\ printed[c] = file.ca
      BY <1>0, <2>0, <2>1 DEF ReportsHold
    <3> QED BY <1>0, <1>r, <2>0, <3>1 DEF Renamed
  <2>2. ASSUME NEW q \in Clients, cert'[q] # NoHost
        PROVE  file'.name[cert'[q]] = ask'[q]
    <3>1. cert[q] \in Hosts /\ file.name[cert[q]] = ask[q] /\ ask[q] \in Codes
      BY <1>0, <2>0, <2>2 DEF ReportsHold, ClientInv, TypeOK
    <3> QED
      BY <1>r, <1>0, <1>a, <3>1, EnrollmentAssumption
         DEF Renamed, Created, Signed, Revoked, Kept
  <2>3. acked' \subseteq file'.revoked BY <1>0, <2>0 DEF ReportsHold
  <2> QED BY <2>1, <2>2, <2>3 DEF ReportsHold
<1> QED BY <1>1, <1>2, <1>3, <1>4, <1>5, <1>6

LEMMA AnswerStep == ASSUME IInv, NEW p \in Procs, Answer(p) PROVE HubInv'
<1> USE EnrollmentAssumption DEF IInv, HubInv
<1>0. /\ pc[p] = "written" /\ pc' = [pc EXCEPT ![p] = "idle"]
      /\ op' = [op EXCEPT ![p] = NoOp] /\ copy' = [copy EXCEPT ![p] = NewFile]
      /\ lock' = IF lock = p THEN NoOne ELSE lock
      /\ UNCHANGED <<file, deadline, drawn, offered, ask>>
  BY DEF Answer, Return
<1>a. /\ pc \in [Procs -> {"idle", "waiting", "locked", "changed", "written"}]
      /\ op \in [Procs -> Ops] /\ copy \in [Procs -> Files]
      /\ stage \in [Clients -> Stages] /\ cert \in [Clients -> Hosts \cup {NoHost}]
      /\ printed \in [Codes -> Procs \cup {NoOne}]
  BY DEF TypeOK
<1>b. CopyOK(p) /\ lock = p /\ \A r \in Procs \ {p} : pc[r] \in {"idle", "waiting"}
  BY <1>0, <1>a DEF CopyInv, LockInv
<1>1. LockInv' BY <1>0, <1>a, <1>b DEF LockInv
<1>2. OpInv' BY <1>0, <1>a DEF OpInv, Before, NoOp, Op
<1>3. FileInv' BY <1>0 DEF FileInv, OneHostPerCode
<1>4. CopyInv' BY <1>0, <1>a, <1>b DEF CopyInv, CopyOK
<1>5. ClientInv'
  <2>1. CASE p \in Clients /\ stage[p] = "asked"
    <3>1. /\ stage' = [stage EXCEPT ![p] = "certified"]
          /\ cert' = [cert EXCEPT ![p] = op[p].host]
      BY <2>1 DEF Answer
    <3>2. ask[p] \in Codes BY <2>1 DEF ClientInv
    <3> QED BY <1>0, <1>a, <2>1, <3>1, <3>2 DEF ClientInv, Procs
  <2>2. CASE ~(p \in Clients /\ stage[p] = "asked")
    <3>1. UNCHANGED <<stage, cert>> BY <2>2 DEF Answer
    <3> QED BY <1>0, <1>a, <2>2, <3>1 DEF ClientInv, Procs
  <2> QED BY <2>1, <2>2
<1>6. ReportsHold'
  <2>1. ASSUME NEW c \in Codes, printed'[c] # NoOne
        PROVE  c \in offered' /\ printed'[c] = file'.ca
    <3>1. \/ printed'[c] = printed[c]
          \/ op[p].kind = "create" /\ c = op[p].code /\ printed'[c] = copy[p].ca
      BY <1>a DEF Answer
    <3> QED BY <1>0, <1>b, <2>1, <3>1 DEF ReportsHold, CopyOK
  <2>2. ASSUME NEW q \in Clients, cert'[q] # NoHost
        PROVE  file'.name[cert'[q]] = ask'[q]
    <3>1. \/ cert'[q] = cert[q]
          \/ q = p /\ stage[p] = "asked" /\ cert'[q] = op[p].host
      BY <1>a DEF Answer
    <3>2. q = p /\ stage[p] = "asked" => op[p].kind = "sign" /\ op[p].code = ask[p]
      BY <1>0 DEF ClientInv
    <3> QED BY <1>0, <1>b, <2>2, <3>1, <3>2 DEF ReportsHold, CopyOK
  <2>3. acked' \subseteq file'.revoked
    BY <1>0, <1>b DEF ReportsHold, CopyOK, Answer
  <2> QED BY <2>1, <2>2, <2>3 DEF ReportsHold
<1> QED BY <1>1, <1>2, <1>3, <1>4, <1>5, <1>6

LEMMA AbandonStep == ASSUME IInv, NEW p \in Procs, Abandon(p) PROVE HubInv'
<1> USE EnrollmentAssumption DEF IInv, HubInv
<1>0. /\ pc[p] # "idle" /\ pc' = [pc EXCEPT ![p] = "idle"]
      /\ op' = [op EXCEPT ![p] = NoOp] /\ copy' = [copy EXCEPT ![p] = NewFile]
      /\ lock' = IF lock = p THEN NoOne ELSE lock
      /\ UNCHANGED <<file, deadline, drawn, offered, printed, acked, stage, ask, cert>>
  BY DEF Abandon, Return, client
<1>a. /\ pc \in [Procs -> {"idle", "waiting", "locked", "changed", "written"}]
      /\ op \in [Procs -> Ops] /\ copy \in [Procs -> Files]
  BY DEF TypeOK
<1>1. LockInv' BY <1>0, <1>a DEF LockInv
<1>2. OpInv' BY <1>0, <1>a DEF OpInv, Before, NoOp, Op
<1>3. FileInv' BY <1>0 DEF FileInv, OneHostPerCode
<1>4. CopyInv'
  <2>1. ASSUME NEW v, NEW o
        PROVE  /\ Permitted(v, o)' <=> Permitted(v, o)
               /\ Changed(v, o)' = Changed(v, o)
    BY <1>0 DEF Permitted, Changed, Expired
  <2>2. \A r \in Procs : Content(r)' = Content(r) BY <1>0 DEF Content
  <2>3. ASSUME NEW r \in Procs \ {p} PROVE CopyOK(r)'
    BY <1>0, <1>a, <2>1, <2>2 DEF CopyInv, CopyOK
  <2>4. CopyOK(p)' BY <1>0, <1>a DEF CopyOK
  <2> QED BY <2>3, <2>4 DEF CopyInv
<1>5. ClientInv' BY <1>0, <1>a DEF ClientInv, Procs
<1>6. ReportsHold' BY <1>0 DEF ReportsHold
<1> QED BY <1>1, <1>2, <1>3, <1>4, <1>5, <1>6

LEMMA IdleStep == ASSUME IInv, Tick \/ UNCHANGED vars PROVE HubInv'
<1> USE DEF IInv, HubInv
<1>1. UNCHANGED <<hub, client>> BY DEF Tick, vars
<1>2. LockInv' /\ OpInv' BY <1>1 DEF hub, LockInv, OpInv
<1>3. FileInv' BY <1>1 DEF hub, FileInv, OneHostPerCode
<1>4. CopyInv'
  <2>1. ASSUME NEW v, NEW o
        PROVE  /\ Permitted(v, o)' <=> Permitted(v, o)
               /\ Changed(v, o)' = Changed(v, o)
    BY <1>1 DEF hub, Permitted, Changed, Expired
  <2>2. \A r \in Procs : Content(r)' = Content(r) BY <1>1 DEF hub, Content
  <2>3. ASSUME NEW r \in Procs PROVE CopyOK(r)'
    BY <1>1, <2>1, <2>2 DEF hub, CopyInv, CopyOK
  <2> QED BY <2>3 DEF CopyInv
<1>5. ClientInv' /\ ReportsHold' BY <1>1 DEF hub, client, ClientInv, ReportsHold
<1> QED BY <1>2, <1>3, <1>4, <1>5

LEMMA NextInv == IInv /\ [Next]_vars => IInv'
<1> SUFFICES ASSUME IInv, [Next]_vars PROVE HubInv'
  BY TypeStep DEF IInv
<1> Admins \subseteq Procs /\ Clients \subseteq Procs BY DEF Procs
<1>1. ASSUME NEW p \in Procs, Update(p) PROVE HubInv'
  BY <1>1, AcquireStep, ReadStep, RenameStep, AnswerStep, AbandonStep DEF Update
<1>2. ASSUME NEW a \in Admins, Command(a) PROVE HubInv' BY <1>2, BeginSteps
<1>3. ASSUME NEW q \in Clients, Enroll(q) PROVE HubInv'
  BY <1>3, BeginSteps, ClientStep DEF Enroll
<1>4. CASE Tick \/ UNCHANGED vars BY <1>4, IdleStep
<1> QED BY <1>1, <1>2, <1>3, <1>4 DEF Next

LEMMA Invariance == Spec => []IInv
BY InitInv, NextInv, PTL DEF Spec

\* Every variable stays in its domain.
THEOREM EnrollmentTypeOK == Spec => []TypeOK
<1>1. IInv => TypeOK BY DEF IInv
<1> QED BY <1>1, Invariance, PTL

\* A code enrolls at most one host, and is then used up, whoever else uses the
\* file and whatever is killed.
THEOREM CodesAreOneTime == Spec => []OneHostPerCode
<1>1. IInv => OneHostPerCode BY DEF IInv, HubInv, FileInv
<1> QED BY <1>1, Invariance, PTL

\* Whatever was reported is in the file, and stays there.
THEOREM ReportsAreTrue == Spec => []ReportsHold
<1>1. IInv => ReportsHold BY DEF IInv, HubInv
<1> QED BY <1>1, Invariance, PTL

\* The identity file, changed by copies, implements the store whose every
\* change is one step.
THEOREM StoreRefinement == Spec => ImplementsStore
<1>1. Init => Store!Init BY DEF Init, NewFile, Store!Init
<1>2. IInv /\ [Next]_vars => [Store!Next]_Store!store
  <2> SUFFICES ASSUME IInv, [Next]_vars PROVE [Store!Next]_Store!store OBVIOUS
  <2>1. ASSUME NEW p \in Procs, Rename(p) PROVE [Store!Next]_Store!store
    <3>1. Renamed(p) BY <2>1, RenameEffect
    <3>2. CASE Created(p)
      <4>1. Store!Offer(op[p].code) BY <3>2 DEF Created, Store!Offer
      <4> QED BY <3>2, <4>1 DEF Created, Store!Next
    <3>3. CASE Signed(p)
      <4>1. Store!Enroll(op[p].code, op[p].host) BY <3>3 DEF Signed, Store!Enroll
      <4>2. op[p].code \in Codes
        BY <3>3 DEF Signed, IInv, HubInv, OpInv
      <4> QED BY <3>3, <4>1, <4>2 DEF Signed, Store!Next
    <3>4. CASE Revoked(p)
      <4>1. Store!Revoke(op[p].host) BY <3>4 DEF Revoked, Store!Revoke
      <4> QED BY <3>4, <4>1 DEF Revoked, Store!Next
    <3>5. CASE Kept(p) BY <3>5 DEF Kept, Store!store
    <3> QED BY <3>1, <3>2, <3>3, <3>4, <3>5 DEF Renamed
  <2>2. CASE UNCHANGED <<file, offered>> BY <2>2 DEF Store!store
  <2>3. ASSUME NEW p \in Procs, Update(p), ~Rename(p) PROVE UNCHANGED <<file, offered>>
    BY <2>3 DEF Update, Acquire, ReadAndChange, Answer, Abandon
  <2>4. ASSUME NEW a \in Admins, Command(a) PROVE UNCHANGED <<file, offered>>
    BY <2>4 DEF Command, BeginEnsure, BeginCreate, BeginRevoke, Handled
  <2>5. ASSUME NEW q \in Clients, Enroll(q) PROVE UNCHANGED <<file, offered>>
    BY <2>5 DEF Enroll, Post, EnrolledElsewhere, BeginSign, Handled, ReadCredentials,
       WriteCredentials, GiveUp, hub
  <2>6. ASSUME Tick \/ UNCHANGED vars PROVE UNCHANGED <<file, offered>>
    BY <2>6 DEF Tick, vars, hub
  <2>7. ASSUME NEW p \in Procs, Update(p) PROVE [Store!Next]_Store!store
    BY <2>1, <2>2, <2>3, <2>7
  <2>8. ASSUME NEW a \in Admins, Command(a) PROVE [Store!Next]_Store!store
    BY <2>2, <2>4, <2>8
  <2>9. ASSUME NEW q \in Clients, Enroll(q) PROVE [Store!Next]_Store!store
    BY <2>2, <2>5, <2>9
  <2>10. CASE Tick \/ UNCHANGED vars BY <2>2, <2>6, <2>10
  <2>11. Next \/ UNCHANGED vars OBVIOUS
  <2> QED BY <2>7, <2>8, <2>9, <2>10, <2>11 DEF Next
<1> QED BY <1>1, <1>2, Invariance, PTL DEF Spec, ImplementsStore, Store!Spec

=============================================================================
