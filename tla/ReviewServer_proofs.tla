------------------------ MODULE ReviewServer_proofs ------------------------
(***************************************************************************)
(* Theorems about ReviewServer for any number of requests, comments,       *)
(* browsers and agents, any channel capacities and any MaxVersion.         *)
(***************************************************************************)
EXTENDS ReviewServer, TLAPS

\* What a goroutine is working on when it needs it: a comment it is adding has
\* an ID that was given out, a location it will store is of a comment, and the
\* comment a PATCH is about exists until its body is read.
Working ==
    \A p \in Processes :
        /\ pc[p] = "located" => item[p] \in created
        /\ pc[p] \in {"decoding", "printing", "telling", "storing"} => item[p] \in Comments
        /\ pc[p] = "decoding" => p \in Requests /\ comments[item[p]] # NoComment

WellFormed == TypeOK /\ Working

------------------------------------------------------------------------------
(* Channels.                                                               *)

\* Publishing keeps every browser's channel well formed and within its capacity.
LEMMA PublishType ==
    ASSUME TypeOK, NEW kind \in Kinds, Publish(kind)
    PROVE  /\ queue' \in [Subs -> Seq(Kinds)]
           /\ \A b \in Subs : Len(queue'[b]) <= SubCap
           /\ subs' \subseteq Subs /\ dropped' \subseteq subs'
           /\ owed' \in [Subs -> SUBSET Kinds]
<1> USE DEF TypeOK, Publish, Full
<1>1. ASSUME NEW b \in Subs, ~Full(b)
      PROVE  Append(queue[b], kind) \in Seq(Kinds) /\ Len(Append(queue[b], kind)) <= SubCap
  BY <1>1, ReviewAssumption
<1>2. queue' \in [Subs -> Seq(Kinds)]
  BY <1>1
<1>3. \A b \in Subs : Len(queue'[b]) <= SubCap
  BY <1>1
<1> QED
  BY <1>2, <1>3

\* Printing keeps every agent's channel well formed and within its capacity.
LEMMA EmitType ==
    ASSUME TypeOK, NEW block \in Comments \X Notes, Emit(block)
    PROVE  /\ blocks' \in [Agents -> Seq(Comments \X Notes)]
           /\ \A a \in Agents : Len(blocks'[a]) <= AgentCap
           /\ missed' \subseteq Agents
<1> USE DEF TypeOK, Emit, Room
<1>1. ASSUME NEW a \in Agents, Room(a)
      PROVE  /\ Append(blocks[a], block) \in Seq(Comments \X Notes)
             /\ Len(Append(blocks[a], block)) <= AgentCap
  BY <1>1, ReviewAssumption
<1>2. blocks' \in [Agents -> Seq(Comments \X Notes)]
  BY <1>1
<1>3. \A a \in Agents : Len(blocks'[a]) <= AgentCap
  BY <1>1
<1> QED
  BY <1>2, <1>3

\* The types of what a request about a comment changes.
PutTyped ==
    /\ comments' \in [Comments -> {NoComment} \cup Records]
    /\ want' \subseteq Comments
    /\ item' \in [Processes -> {NoComment} \cup Comments]
    /\ owed' \in [Subs -> SUBSET Kinds]
    /\ crossed' \subseteq created'
    /\ \A d \in Comments : comments'[d] # NoComment => d \in created'

\* A request that changes a comment keeps the comments well formed.
LEMMA PutType ==
    ASSUME TypeOK, NEW r \in Requests, NEW c \in created,
           NEW comment \in {NoComment} \cup Records, Put(r, c, comment)
    PROVE  PutTyped
BY ReviewAssumption DEF TypeOK, Put, PutTyped, Owe, Records, Processes, Kinds

------------------------------------------------------------------------------
(* Types.                                                                  *)

\* A request that begins keeps the session well formed.
LEMMA BeginsTypes ==
    ASSUME WellFormed, NEW r \in Requests, Begins(r)
    PROVE  WellFormed'
<1> USE ReviewAssumption DEF WellFormed, TypeOK, Working, Processes, Steps, Goto,
        browsers, agent, ending, reconciling
<1>1. CASE Locate(r)
  BY <1>1 DEF Locate, Versions, Places, session
<1>2. CASE Find(r)
  BY <1>2 DEF Find, session
<1>3. CASE Delete(r)
  <2>1. PICK c \in Comments :
            comments[c] # NoComment /\ Put(r, c, NoComment)
    BY <1>3 DEF Delete
  <2>2. PutTyped
    BY <2>1, PutType
  <2>3. Working'
    BY <1>3, <2>1 DEF Delete, Put, MuFree
  <2>4. UNCHANGED <<created, found>> /\ note' \in [Requests -> Notes]
    BY <1>3, <2>1 DEF Delete, Put, Notes
  <2> QED
    BY <1>3, <2>1, <2>2, <2>3, <2>4 DEF Delete, Put, PutTyped
<1>4. CASE Mutate(r)
  BY <1>4 DEF Mutate, Owe, session, Versions, Kinds
<1> QED
  BY <1>1, <1>2, <1>3, <1>4 DEF Begins

\* A PATCH request that has waited for its body keeps the session well formed.
LEMMA DecodesTypes ==
    ASSUME WellFormed, NEW r \in Requests, Decodes(r)
    PROVE  WellFormed'
<1> USE ReviewAssumption DEF WellFormed, TypeOK, Working, Processes, Steps, Goto,
        browsers, agent, ending, reconciling
<1>1. CASE Resolve(r)
  <2> DEFINE c == item[r]
  <2>1. PICK resolved \in BOOLEAN :
            /\ Put(r, c, [comments[c] EXCEPT !.resolved = resolved])
            /\ note' = [note EXCEPT ![r] = IF resolved THEN "resolved" ELSE "reopened"]
    BY <1>1 DEF Resolve
  <2>2. c \in created /\ comments[c] \in Records
    BY <1>1 DEF Resolve
  <2>3. [comments[c] EXCEPT !.resolved = resolved] \in Records
    <3> HIDE DEF TypeOK, Working, c
    <3> QED
      BY <2>2 DEF Records
  <2>4. PutTyped
    BY <2>1, <2>2, <2>3, PutType
  <2>5. note' \in [Requests -> Notes]
    BY <2>1 DEF Notes
  <2>6. /\ UNCHANGED <<created, found>> /\ item' = item
        /\ comments' = [comments EXCEPT ![c] = [comments[c] EXCEPT !.resolved = resolved]]
    BY <1>1, <2>1 DEF Resolve, Put
  <2>7. Working'
    BY <1>1, <2>2, <2>3, <2>6 DEF Resolve, Records
  <2> QED
    BY <1>1, <2>1, <2>4, <2>5, <2>6, <2>7 DEF Resolve, Put, PutTyped
<1>2. CASE Refuse(r)
  BY <1>2 DEF Refuse, session
<1> QED
  BY <1>1, <1>2 DEF Decodes

\* A goroutine that continues keeps the session well formed.
LEMMA ContinuesTypes ==
    ASSUME WellFormed, NEW p \in Processes, Continues(p)
    PROVE  WellFormed'
<1> USE ReviewAssumption DEF WellFormed, TypeOK, Working, Processes, Steps, Goto,
        agent, ending
<1>1. CASE CopyComments(p)
  BY <1>1 DEF CopyComments, session, browsers
<1>2. CASE Relocate(p)
  BY <1>2 DEF Relocate, session, browsers, reconciling, Versions, Places
<1>3. CASE Store(p)
  <2> DEFINE c == item[p]
  <2>1. c \in Comments
    BY <1>3 DEF Store
  <2>2. comments[c] # NoComment =>
            c \in created /\ [comments[c] EXCEPT !.at = found[p]] \in Records
    <3>1. comments[c] # NoComment => c \in created /\ comments[c] \in Records
      BY <2>1
    <3>2. found[p] \in Places
      OBVIOUS
    <3> HIDE DEF TypeOK, Working, c
    <3> QED
      BY <3>1, <3>2 DEF Records
  <2>3. /\ comments' \in [Comments -> {NoComment} \cup Records]
        /\ changed' \subseteq Processes
        /\ owed' \in [Subs -> SUBSET Kinds]
        /\ \A d \in Comments : comments'[d] # NoComment => d \in created
    <3>1. CASE UNCHANGED <<comments, changed, owed>>
      BY <3>1
    <3>2. CASE /\ comments[c] # NoComment /\ Owe("comments")
               /\ comments' = [comments EXCEPT ![c].at = found[p]]
               /\ changed' = changed \cup {p}
      <4>1. owed' \in [Subs -> SUBSET Kinds]
        BY <3>2 DEF Owe, Kinds
      <4>2. comments' = [comments EXCEPT ![c] = [comments[c] EXCEPT !.at = found[p]]]
        BY <3>2
      <4> HIDE DEF c
      <4>3. /\ comments' \in [Comments -> {NoComment} \cup Records]
            /\ \A d \in Comments : comments'[d] # NoComment => d \in created
        BY <2>1, <2>2, <3>2, <4>2
      <4> QED
        BY <3>2, <4>1, <4>3
    <3> QED
      BY <1>3, <3>1, <3>2 DEF Store
  <2>4. Working'
    BY <1>3 DEF Store, MuFree
  <2> QED
    BY <1>3, <2>3, <2>4 DEF Store, Places
<1>4. CASE EndReconcile(p)
  <2>1. CASE Publish("comments")
    BY <1>4, <2>1, PublishType DEF EndReconcile, session, Kinds, NoComments
  <2>2. CASE UNCHANGED browsers
    BY <1>4, <2>2 DEF EndReconcile, session, browsers, NoComments
  <2> QED
    BY <1>4, <2>1, <2>2 DEF EndReconcile
<1>5. CASE Report(p)
  BY <1>5, PublishType DEF Report, session, reconciling, Kinds
<1>6. CASE p \in Requests /\ Add(p)
  <2>1. [at |-> found[p], resolved |-> FALSE] \in Records
    BY <1>6 DEF Records
  <2>2. item[p] \in created /\ Put(p, item[p], [at |-> found[p], resolved |-> FALSE])
    BY <1>6 DEF Add
  <2>3. PutTyped
    BY <1>6, <2>1, <2>2, PutType
  <2>4. Working'
    BY <1>6 DEF Add, Put, MuFree
  <2>5. /\ note' \in [Requests -> Notes] /\ found' \in [Processes -> Places]
        /\ created' = created
    BY <1>6 DEF Add, Put, Notes, Places
  <2> QED
    BY <1>6, <2>3, <2>4, <2>5 DEF Add, Put, PutTyped, reconciling
<1>7. CASE p \in Requests /\ PrintComment(p)
  <2>1. <<item[p], note[p]>> \in Comments \X Notes
    BY <1>7 DEF PrintComment
  <2> QED
    BY <1>7, <2>1, EmitType DEF PrintComment, session, browsers, reconciling
<1>8. CASE p \in Requests /\ Tell(p)
  BY <1>8, PublishType DEF Tell, Forget, session, reconciling, Kinds, Notes
<1> QED
  BY <1>1, <1>2, <1>3, <1>4, <1>5, <1>6, <1>7, <1>8 DEF Continues, Reconciles

\* So do the streams, the watcher, edits and the end of the session.
LEMMA RestTypes ==
    ASSUME WellFormed,
           \/ \E b \in Subs : Streams(b)
           \/ \E a \in Agents : Attach(a) \/ SendBlock(a) \/ Detach(a)
           \/ Look \/ Edit \/ Stop \/ Exit
    PROVE  WellFormed'
<1> USE ReviewAssumption DEF WellFormed, TypeOK, Working, Processes, Steps, Goto
<1>1. ASSUME NEW b \in Subs, Subscribe(b)
      PROVE  WellFormed'
  BY <1>1 DEF Subscribe, session, reconciling, agent, ending
<1>9. ASSUME NEW b \in Subs, Unsubscribe(b)
      PROVE  WellFormed'
  <2>1. queue' \in [Subs -> Seq(Kinds)] /\ \A d \in Subs : Len(queue'[d]) <= SubCap
    BY <1>9 DEF Unsubscribe
  <2> QED
    BY <1>9, <2>1 DEF Unsubscribe, session, reconciling, agent, ending
<1>2. ASSUME NEW b \in Subs, SendEvent(b)
      PROVE  WellFormed'
  <2>1. Tail(queue[b]) \in Seq(Kinds) /\ Len(Tail(queue[b])) <= SubCap
    BY <1>2 DEF SendEvent
  <2> QED
    BY <1>2, <2>1 DEF SendEvent, session, reconciling, agent, ending
<1>3. ASSUME NEW a \in Agents, Attach(a)
      PROVE  WellFormed'
  BY <1>3 DEF Attach, session, reconciling, browsers, ending
<1>10. ASSUME NEW a \in Agents, Detach(a)
      PROVE  WellFormed'
  <2>1. /\ blocks' \in [Agents -> Seq(Comments \X Notes)]
        /\ \A d \in Agents : Len(blocks'[d]) <= AgentCap
    BY <1>10 DEF Detach
  <2> QED
    BY <1>10, <2>1 DEF Detach, session, reconciling, browsers, ending
<1>4. ASSUME NEW a \in Agents, SendBlock(a)
      PROVE  WellFormed'
  <2>1. /\ Tail(blocks[a]) \in Seq(Comments \X Notes)
        /\ Len(Tail(blocks[a])) <= AgentCap
        /\ Head(blocks[a]) \in Comments \X Notes
    BY <1>4 DEF SendBlock
  <2> QED
    BY <1>4, <2>1 DEF SendBlock, session, reconciling, browsers, ending
<1>5. CASE Look
  BY <1>5 DEF Look, session, reconciling, browsers, agent, ending
<1>6. CASE Edit
  BY <1>6 DEF Edit, Owe, session, reconciling, agent, ending, Versions, Kinds
<1>7. CASE Stop
  BY <1>7 DEF Stop, Unresolved, session, reconciling, browsers, agent
<1>8. CASE Exit
  <2>1. /\ queue' \in [Subs -> Seq(Kinds)] /\ owed' \in [Subs -> SUBSET Kinds]
        /\ \A b \in Subs : Len(queue'[b]) <= SubCap
    BY <1>8, ReviewAssumption DEF Exit
  <2>2. subs' \subseteq Subs /\ dropped' \subseteq subs'
    BY <1>8 DEF Exit
  <2> QED
    BY <1>8, <2>1, <2>2 DEF Exit, session, reconciling, agent, ending
<1> QED
  BY <1>1, <1>2, <1>3, <1>4, <1>5, <1>6, <1>7, <1>8, <1>9, <1>10 DEF Streams

\* So does a step that changes nothing.
LEMMA StutterTypes ==
    ASSUME WellFormed, UNCHANGED vars
    PROVE  WellFormed'
BY DEF WellFormed, TypeOK, Working, vars

\* The session is well formed in every state.
LEMMA AlwaysWellFormed == Spec => []WellFormed
<1>1. Init => WellFormed
  <2> SUFFICES ASSUME Init PROVE WellFormed
    OBVIOUS
  <2> USE ReviewAssumption DEF Init
  <2>1. Working
    BY DEF Working
  <2>2. /\ queue \in [Subs -> Seq(Kinds)] /\ blocks \in [Agents -> Seq(Comments \X Notes)]
        /\ \A b \in Subs : Len(queue[b]) <= SubCap
        /\ \A a \in Agents : Len(blocks[a]) <= AgentCap
    OBVIOUS
  <2>3. /\ comments \in [Comments -> {NoComment} \cup Records]
        /\ copy \in [Processes -> [Comments -> {NoComment} \cup Records]]
        /\ \A c \in Comments : comments[c] = NoComment
    BY DEF NoComments
  <2>4. /\ want \subseteq Comments /\ changed \subseteq Processes
        /\ heard \in [Agents -> [Comments -> {"nothing"} \cup Notes]]
        /\ note \in [Requests -> Notes] /\ pc \in [Processes -> Steps]
    BY DEF Notes, Steps
  <2>5. /\ version \in Versions /\ lastState \in Versions
        /\ found \in [Processes -> Places]
    BY DEF Versions, Places
  <2> QED
    BY <2>1, <2>2, <2>3, <2>4, <2>5 DEF WellFormed, TypeOK
<1>2. WellFormed /\ [Next]_vars => WellFormed'
  BY BeginsTypes, DecodesTypes, ContinuesTypes, RestTypes, StutterTypes DEF Next
<1> QED
  BY <1>1, <1>2, PTL DEF Spec

\* TypeOK: every variable stays in its domain, with every channel within its
\* capacity.
THEOREM TypeCorrect == Spec => []TypeOK
BY AlwaysWellFormed, PTL DEF WellFormed

------------------------------------------------------------------------------
(* Reviewers decide.                                                       *)

\* Requests decide whether a comment is open, reconciliation does not.
LEMMA DecisionStep ==
    ASSUME WellFormed, ReviewersDecide, [Next]_vars
    PROVE  ReviewersDecide'
<1> USE ReviewAssumption DEF ReviewersDecide
<1>1. ASSUME NEW r \in Requests, NEW c \in Comments,
             NEW comment \in {NoComment} \cup Records, Put(r, c, comment)
      PROVE  ReviewersDecide'
  <2>1. comment # NoComment => comment.resolved \in BOOLEAN
    BY DEF Records
  <2>2. /\ comments' = [comments EXCEPT ![c] = comment]
        /\ want' = IF comment # NoComment /\ comment.resolved
                   THEN want \cup {c} ELSE want \ {c}
    BY <1>1 DEF Put
  <2>3. comments'[c] = comment /\ \A d \in Comments \ {c} : comments'[d] = comments[d]
    BY <2>2 DEF WellFormed, TypeOK
  <2> QED
    BY <2>1, <2>2, <2>3
<1>2. ASSUME NEW p \in Processes, Store(p)
      PROVE  ReviewersDecide'
  <2>1. \/ UNCHANGED <<comments, want>>
        \/ \E c \in Comments :
              /\ comments[c] # NoComment /\ UNCHANGED want
              /\ comments' = [comments EXCEPT ![c].at = found[p]]
    BY <1>2 DEF Store, Goto, WellFormed, Working
  <2>2. ASSUME NEW c \in Comments, comments[c] # NoComment,
               comments' = [comments EXCEPT ![c].at = found[p]]
        PROVE  /\ \A d \in Comments \ {c} : comments'[d] = comments[d]
               /\ comments'[c].resolved = comments[c].resolved
               /\ comments'[c] # NoComment
    <3>1. comments[c] \in Records /\ found[p] \in Places
      BY <2>2 DEF WellFormed, TypeOK
    <3>2. comments'[c] = [comments[c] EXCEPT !.at = found[p]]
      BY <2>2 DEF WellFormed, TypeOK
    <3>3. comments'[c] \in Records /\ comments'[c].resolved = comments[c].resolved
      BY <3>1, <3>2 DEF Records
    <3> QED
      BY <2>2, <3>3 DEF WellFormed, TypeOK, Records
  <2> QED
    BY <2>1, <2>2
<1>3. CASE UNCHANGED <<comments, want>>
  BY <1>3
<1>4. ASSUME NEW r \in Requests, Begins(r)
      PROVE  ReviewersDecide'
  BY <1>1, <1>3, <1>4 DEF Begins, Locate, Find, Delete, Mutate, session
<1>7. ASSUME NEW r \in Requests, Decodes(r)
      PROVE  ReviewersDecide'
  <2> DEFINE c == item[r]
  <2>1. CASE Resolve(r)
    <3>1. PICK resolved \in BOOLEAN : Put(r, c, [comments[c] EXCEPT !.resolved = resolved])
      BY <2>1 DEF Resolve
    <3>2. c \in Comments /\ comments[c] \in Records
      BY <2>1 DEF Resolve, Goto, WellFormed, TypeOK, Working, Processes
    <3> HIDE DEF c
    <3>3. [comments[c] EXCEPT !.resolved = resolved] \in Records
      BY <3>2 DEF Records
    <3> QED
      BY <1>1, <3>1, <3>2, <3>3
  <2> QED
    BY <1>3, <1>7, <2>1 DEF Decodes, Refuse, session
<1>5. ASSUME NEW p \in Processes, Continues(p)
      PROVE  ReviewersDecide'
  <2>1. CASE p \in Requests /\ Add(p)
    <3>1. item[p] \in Comments /\ [at |-> found[p], resolved |-> FALSE] \in Records
      BY <2>1 DEF Add, Goto, WellFormed, TypeOK, Working, Records
    <3> QED
      BY <1>1, <2>1, <3>1 DEF Add
  <2> QED
    BY <1>2, <1>3, <1>5, <2>1 DEF Continues, Reconciles, CopyComments, Relocate,
           EndReconcile, Report, PrintComment, Tell, session
<1>6. CASE \/ \E b \in Subs : Streams(b)
           \/ \E a \in Agents : Attach(a) \/ SendBlock(a) \/ Detach(a)
           \/ Look \/ Edit \/ Stop \/ Exit \/ UNCHANGED vars
  BY <1>3, <1>6 DEF Streams, Subscribe, SendEvent, Unsubscribe, Attach, SendBlock,
         Detach, Look, Edit, Stop, Exit, session, vars
<1> QED
  BY <1>4, <1>5, <1>6, <1>7 DEF Next

\* ReviewersDecide: whatever reconciliation stores, a comment is resolved exactly
\* if the last request about it said so, and a deleted one does not come back.
THEOREM ReviewersAlwaysDecide == Spec => []ReviewersDecide
<1>1. Init => ReviewersDecide
  BY DEF Init, ReviewersDecide, NoComments
<1> QED
  BY <1>1, DecisionStep, AlwaysWellFormed, PTL DEF Spec

------------------------------------------------------------------------------
(* Nothing missed.                                                         *)

\* The watcher is never ahead of the repository, and a reconciliation that has
\* stored something has not ended yet.
Behind ==
    /\ lastState <= version
    /\ \A p \in changed : pc[p] \in {"looking", "storing"}

\* Every step keeps it so.
LEMMA BehindStep ==
    ASSUME WellFormed, Behind, [Next]_vars
    PROVE  Behind'
<1> USE DEF Behind, WellFormed, TypeOK, Versions, Goto
<1>1. ASSUME NEW r \in Requests, Begins(r)
      PROVE  Behind'
  <2>1. CASE Locate(r) \/ Find(r) \/ Delete(r)
    <3>1. UNCHANGED <<version, lastState, changed>>
      BY <2>1 DEF Locate, Find, Delete, Put, reconciling
    <3>2. pc[r] = "idle" /\ \A p \in Processes \ {r} : pc'[p] = pc[p]
      BY <2>1 DEF Locate, Find, Delete
    <3> QED
      BY <3>1, <3>2
  <2>2. CASE Mutate(r)
    BY <2>2, ReviewAssumption DEF Mutate, reconciling
  <2> QED
    BY <1>1, <2>1, <2>2 DEF Begins
<1>6. ASSUME NEW r \in Requests, Decodes(r)
      PROVE  Behind'
  <2>1. UNCHANGED <<version, lastState, changed>>
    BY <1>6 DEF Decodes, Resolve, Refuse, Put, reconciling
  <2>2. pc[r] = "decoding" /\ \A p \in Processes \ {r} : pc'[p] = pc[p]
    BY <1>6 DEF Decodes, Resolve, Refuse
  <2> QED
    BY <2>1, <2>2
<1>2. ASSUME NEW p \in Processes, Continues(p)
      PROVE  Behind'
  <2>1. UNCHANGED <<version, lastState>> /\ \A q \in Processes \ {p} : pc'[q] = pc[q]
    BY <1>2 DEF Continues, Reconciles, CopyComments, Relocate, Store, EndReconcile,
           Report, Add, Put, PrintComment, Tell
  <2>2. \/ p \notin changed' /\ changed' \subseteq changed
        \/ pc'[p] \in {"looking", "storing"} /\ changed' \subseteq changed \cup {p}
    <3>1. CASE CopyComments(p) \/ Relocate(p) \/ EndReconcile(p)
      BY <3>1 DEF CopyComments, Relocate, EndReconcile, reconciling
    <3>2. CASE Store(p)
      BY <3>2 DEF Store
    <3>3. CASE Report(p) \/ Add(p) \/ PrintComment(p) \/ Tell(p)
      BY <3>3 DEF Report, Add, Put, PrintComment, Tell, reconciling
    <3> QED
      BY <1>2, <3>1, <3>2, <3>3 DEF Continues, Reconciles
  <2> QED
    BY <2>1, <2>2
<1>3. CASE \/ \E b \in Subs : Streams(b)
           \/ \E a \in Agents : Attach(a) \/ SendBlock(a) \/ Detach(a)
           \/ Stop \/ Exit \/ UNCHANGED vars
  BY <1>3 DEF Streams, Subscribe, SendEvent, Unsubscribe, Attach, SendBlock, Detach,
         Stop, Exit, reconciling, vars
<1>4. CASE Look
  BY <1>4 DEF Look, reconciling, Processes
<1>5. CASE Edit
  BY <1>5, ReviewAssumption DEF Edit, reconciling
<1> QED
  BY <1>1, <1>2, <1>3, <1>4, <1>5, <1>6 DEF Next

\* An event published is in every channel that was not full, and nothing that
\* was in a channel is lost.
LEMMA PublishQueues ==
    ASSUME TypeOK, NEW kind \in Kinds, Publish(kind), NEW b \in subs' \ dropped'
    PROVE  /\ b \in subs \ dropped /\ owed'[b] = owed[b]
           /\ Queued(b, kind)'
           /\ \A other \in Kinds : Queued(b, other) => Queued(b, other)'
<1>1. b \in Subs /\ b \in subs \ dropped /\ ~Full(b) /\ owed'[b] = owed[b]
  BY DEF Publish, TypeOK
<1>2. queue'[b] = Append(queue[b], kind) /\ queue[b] \in Seq(Kinds)
  BY <1>1 DEF Publish, TypeOK
<1>3. /\ Len(queue'[b]) = Len(queue[b]) + 1
      /\ queue'[b][Len(queue[b]) + 1] = kind
      /\ \A n \in 1..Len(queue[b]) : queue'[b][n] = queue[b][n]
      /\ DOMAIN queue'[b] = 1..Len(queue'[b]) /\ DOMAIN queue[b] = 1..Len(queue[b])
  BY <1>2
<1>4. Len(queue[b]) \in Nat
  BY <1>2
<1> QED
  BY <1>1, <1>3, <1>4 DEF Queued

\* A promise to publish is kept until it is fulfilled.
LEMMA PromiseKept ==
    ASSUME WellFormed, Behind, [Next]_vars, NEW kind \in Kinds, WillPublish(kind),
           ~Publish(kind)
    PROVE  WillPublish(kind)'
<1> USE DEF WillPublish, Goto, WellFormed, TypeOK
<1>1. ASSUME NEW r \in Requests, Begins(r)
      PROVE  WillPublish(kind)'
  <2>1. /\ UNCHANGED <<lastState, changed>> /\ r \in Processes
        /\ pc[r] = "idle" /\ pc' = [pc EXCEPT ![r] = pc'[r]]
    BY <1>1 DEF Begins, Locate, Find, Delete, Mutate, Put, reconciling, Processes
  <2>2. UNCHANGED version \/ Mutate(r)
    BY <1>1 DEF Begins, Locate, Find, Delete, Put
  <2>3. CASE Mutate(r)
    BY <2>1, <2>3 DEF Mutate
  <2>4. CASE UNCHANGED version
    BY <2>1, <2>4
  <2> QED
    BY <2>2, <2>3, <2>4
<1>6. ASSUME NEW r \in Requests, Decodes(r)
      PROVE  WillPublish(kind)'
  <2>1. /\ UNCHANGED <<version, lastState, changed>> /\ r \in Processes
        /\ pc[r] = "decoding" /\ pc' = [pc EXCEPT ![r] = pc'[r]]
    BY <1>6 DEF Decodes, Resolve, Refuse, Put, reconciling, Processes
  <2> QED
    BY <2>1
<1>2. ASSUME NEW p \in Processes, Continues(p)
      PROVE  WillPublish(kind)'
  <2>1. /\ UNCHANGED <<version, lastState>>
        /\ \A q \in Processes \ {p} : pc'[q] = pc[q]
    BY <1>2 DEF Continues, Reconciles, CopyComments, Relocate, Store, EndReconcile,
           Report, Add, Put, PrintComment, Tell
  <2>2. CASE kind = "repository"
    <3>1. pc[p] \in {"copying", "looking", "storing", "reporting"} =>
              pc'[p] \in {"copying", "looking", "storing", "reporting"}
      BY <1>2, <2>1, <2>2 DEF Continues, Reconciles, CopyComments, Relocate, Store,
             EndReconcile, Report, Add, PrintComment, Tell
    <3> QED
      BY <2>1, <2>2, <3>1
  <2>3. CASE kind = "comments"
    <3>1. changed \subseteq changed'
      BY <1>2, <2>1, <2>3 DEF Continues, Reconciles, CopyComments, Relocate, Store,
             EndReconcile, Report, Add, Put, PrintComment, Tell, reconciling, Behind
    <3>2. pc[p] \in {"printing", "telling"} => pc'[p] \in {"printing", "telling"}
      BY <1>2, <2>1, <2>3 DEF Continues, Reconciles, CopyComments, Relocate, Store,
             EndReconcile, Report, Add, PrintComment, Tell
    <3> QED
      BY <2>1, <2>3, <3>1, <3>2
  <2> QED
    BY <2>2, <2>3 DEF Kinds
<1>3. CASE \/ \E b \in Subs : Streams(b)
           \/ \E a \in Agents : Attach(a) \/ SendBlock(a) \/ Detach(a)
           \/ Stop \/ Exit \/ UNCHANGED vars
  BY <1>3 DEF Streams, Subscribe, SendEvent, Unsubscribe, Attach, SendBlock, Detach,
         Stop, Exit, reconciling, vars
<1>4. CASE Look
  BY <1>4, ReviewAssumption DEF Look, reconciling, Processes
<1>5. CASE Edit
  BY <1>5 DEF Edit, reconciling, Behind, Versions
<1> QED
  BY <1>1, <1>2, <1>3, <1>4, <1>5, <1>6 DEF Next

\* What a step makes a stream owe is promised by the time the step ends.
LEMMA OwedIsPromised ==
    ASSUME WellFormed, Behind, [Next]_vars, NEW b \in Subs, NEW kind \in owed'[b] \ owed[b]
    PROVE  WillPublish(kind)' /\ b \in subs
<1> USE DEF WillPublish, Goto, WellFormed, TypeOK
<1>1. ASSUME NEW r \in Requests, Begins(r)
      PROVE  WillPublish(kind)' /\ b \in subs
  <2>1. CASE Mutate(r)
    BY <2>1 DEF Mutate, Owe, Processes
  <2>2. CASE Delete(r)
    BY <2>2 DEF Delete, Put, Owe, Processes
  <2> QED
    BY <1>1, <2>1, <2>2 DEF Begins, Locate, Find, browsers
<1>6. ASSUME NEW r \in Requests, Decodes(r)
      PROVE  WillPublish(kind)' /\ b \in subs
  BY <1>6 DEF Decodes, Resolve, Refuse, Put, Owe, Processes, browsers
<1>2. ASSUME NEW p \in Processes, Continues(p)
      PROVE  WillPublish(kind)' /\ b \in subs
  <2>1. CASE Add(p)
    BY <2>1 DEF Add, Put, Owe
  <2>2. CASE Store(p)
    BY <2>2 DEF Store, Owe
  <2> QED
    BY <1>2, <2>1, <2>2 DEF Continues, Reconciles, CopyComments, Relocate, EndReconcile,
           Report, PrintComment, Tell, Publish, browsers
<1>3. ASSUME NEW d \in Subs, Streams(d)
      PROVE  FALSE
  BY <1>3 DEF Streams, Subscribe, SendEvent, Unsubscribe
<1>4. CASE Edit
  BY <1>4 DEF Edit, Owe, Behind, Versions
<1>5. CASE \/ \E a \in Agents : Attach(a) \/ SendBlock(a) \/ Detach(a)
           \/ Look \/ Stop \/ Exit \/ UNCHANGED vars
  BY <1>5 DEF Attach, SendBlock, Detach, Look, Stop, Exit, browsers, vars
<1> QED
  BY <1>1, <1>2, <1>3, <1>4, <1>5, <1>6 DEF Next

\* Only streams that are followed are owed anything.
Followed == \A b \in Subs : owed[b] # {} => b \in subs

\* Every step keeps it so: what is added is owed to a stream that is followed,
\* and a stream that leaves is owed nothing.
LEMMA FollowedStep ==
    ASSUME WellFormed, Behind, Followed, [Next]_vars
    PROVE  Followed'
<1>1. subs \subseteq subs' \/ Exit \/ \E d \in Subs : Unsubscribe(d)
  <2>1. ASSUME NEW r \in Requests, Begins(r)
        PROVE  subs' = subs
    BY <2>1 DEF Begins, Locate, Find, Delete, Mutate, Put, browsers
  <2>5. ASSUME NEW r \in Requests, Decodes(r)
        PROVE  subs' = subs
    BY <2>5 DEF Decodes, Resolve, Refuse, Put, browsers
  <2>2. ASSUME NEW p \in Processes, Continues(p)
        PROVE  subs' = subs
    BY <2>2 DEF Continues, Reconciles, CopyComments, Relocate, Store, EndReconcile,
           Report, Add, Put, PrintComment, Tell, Publish, browsers
  <2>3. ASSUME NEW b \in Subs, Streams(b)
        PROVE  subs \subseteq subs' \/ Unsubscribe(b)
    BY <2>3 DEF Streams, Subscribe, SendEvent
  <2>4. CASE \/ \E a \in Agents : Attach(a) \/ SendBlock(a) \/ Detach(a)
             \/ Look \/ Edit \/ Stop \/ UNCHANGED vars
    BY <2>4 DEF Attach, SendBlock, Detach, Look, Edit, Stop, browsers, vars
  <2> QED
    BY <2>1, <2>2, <2>3, <2>4, <2>5 DEF Next
<1>2. ASSUME NEW b \in Subs, owed'[b] # {}
      PROVE  b \in subs
  BY <1>2, OwedIsPromised DEF Followed
<1>3. ASSUME NEW d \in Subs, Unsubscribe(d)
      PROVE  owed'[d] = {} /\ subs' = subs \ {d}
  BY <1>3 DEF Unsubscribe, WellFormed, TypeOK
<1>4. CASE Exit
  BY <1>4 DEF Exit, Followed
<1> QED
  BY <1>1, <1>2, <1>3, <1>4 DEF Followed

\* A step keeps in the channel of a stream every event that it is owed still.
LEMMA QueueKept ==
    ASSUME WellFormed, [Next]_vars, NEW b \in subs' \ dropped', NEW kind \in Kinds,
           b \in subs, Queued(b, kind), kind \in owed'[b]
    PROVE  Queued(b, kind)'
<1> USE DEF WellFormed
<1>1. b \in Subs /\ queue[b] \in Seq(Kinds)
  BY DEF TypeOK
<1>2. CASE queue'[b] = queue[b]
  BY <1>2 DEF Queued
<1>3. ASSUME NEW other \in Kinds, Publish(other)
      PROVE  Queued(b, kind)'
  BY <1>3, PublishQueues
<1>4. CASE SendEvent(b)
  <2>1. kind # Head(queue[b]) /\ queue'[b] = Tail(queue[b]) /\ queue[b] # <<>>
    BY <1>1, <1>4 DEF SendEvent, TypeOK
  <2>2. PICK n \in DOMAIN queue[b] : queue[b][n] = kind
    BY DEF Queued
  <2>3. n \in 2..Len(queue[b]) /\ queue[b][1] = Head(queue[b])
    BY <1>1, <2>1, <2>2
  <2>4. n - 1 \in 1..Len(Tail(queue[b])) /\ Tail(queue[b])[n - 1] = kind
    BY <1>1, <2>1, <2>2, <2>3
  <2>5. DOMAIN Tail(queue[b]) = 1..Len(Tail(queue[b]))
    BY <1>1, <2>1
  <2> QED
    BY <2>1, <2>4, <2>5 DEF Queued
<1>5. ASSUME NEW r \in Requests, Begins(r)
      PROVE  queue' = queue
  BY <1>5 DEF Begins, Locate, Find, Delete, Mutate, Put, browsers
<1>9. ASSUME NEW r \in Requests, Decodes(r)
      PROVE  queue' = queue
  BY <1>9 DEF Decodes, Resolve, Refuse, Put, browsers
<1>6. ASSUME NEW p \in Processes, Continues(p)
      PROVE  queue' = queue \/ \E other \in Kinds : Publish(other)
  BY <1>6 DEF Continues, Reconciles, CopyComments, Relocate, Store, EndReconcile,
         Report, Add, Put, PrintComment, Tell, browsers, Kinds
<1>7. ASSUME NEW d \in Subs, Streams(d)
      PROVE  queue'[b] = queue[b] \/ SendEvent(b)
  BY <1>1, <1>7 DEF Streams, Subscribe, SendEvent, Unsubscribe, TypeOK
<1>8. CASE \/ \E a \in Agents : Attach(a) \/ SendBlock(a) \/ Detach(a)
           \/ Look \/ Edit \/ Stop \/ Exit \/ UNCHANGED vars
  BY <1>2, <1>8 DEF Attach, SendBlock, Detach, Look, Edit, Stop, Exit, browsers, vars
<1> QED
  BY <1>2, <1>3, <1>4, <1>5, <1>6, <1>7, <1>8, <1>9 DEF Next

\* A stream that is followed and has not lost an event had not lost one before.
LEMMA DroppedGrows ==
    ASSUME WellFormed, [Next]_vars, NEW b \in subs' \ dropped', b \in subs
    PROVE  b \notin dropped
<1>1. ASSUME NEW r \in Requests, Begins(r)
      PROVE  dropped' = dropped
  BY <1>1 DEF Begins, Locate, Find, Delete, Mutate, Put, browsers
<1>5. ASSUME NEW r \in Requests, Decodes(r)
      PROVE  dropped' = dropped
  BY <1>5 DEF Decodes, Resolve, Refuse, Put, browsers
<1>2. ASSUME NEW p \in Processes, Continues(p)
      PROVE  dropped \subseteq dropped'
  BY <1>2 DEF Continues, Reconciles, CopyComments, Relocate, Store, EndReconcile,
         Report, Add, Put, PrintComment, Tell, Publish, browsers
<1>3. ASSUME NEW d \in Subs, Streams(d)
      PROVE  b \notin dropped
  BY <1>3 DEF Streams, Subscribe, SendEvent, Unsubscribe
<1>4. CASE \/ \E a \in Agents : Attach(a) \/ SendBlock(a) \/ Detach(a)
           \/ Look \/ Edit \/ Stop \/ Exit \/ UNCHANGED vars
  BY <1>4 DEF Attach, SendBlock, Detach, Look, Edit, Stop, Exit, browsers, vars
<1> QED
  BY <1>1, <1>2, <1>3, <1>4, <1>5 DEF Next

\* NothingMissed: a stream whose channel never was full is behind in nothing.
THEOREM NothingEverMissed == Spec => []NothingMissed
<1>1. Init => Behind /\ Followed /\ NothingMissed
  BY DEF Init, Behind, Followed, NothingMissed
<1>2. WellFormed /\ Behind /\ Followed /\ NothingMissed /\ [Next]_vars => NothingMissed'
  <2> SUFFICES ASSUME WellFormed, Behind, Followed, NothingMissed, [Next]_vars,
                      NEW b \in subs' \ dropped', NEW kind \in owed'[b]
               PROVE  Queued(b, kind)' \/ WillPublish(kind)'
    BY DEF NothingMissed
  <2>1. WellFormed'
    BY BeginsTypes, DecodesTypes, ContinuesTypes, RestTypes, StutterTypes DEF Next
  <2>2. b \in Subs /\ kind \in Kinds
    BY <2>1 DEF WellFormed, TypeOK
  <2>3. CASE kind \notin owed[b]
    BY <2>2, <2>3, OwedIsPromised
  <2>4. CASE kind \in owed[b]
    <3>1. b \in subs \ dropped
      BY <2>2, <2>4, DroppedGrows DEF Followed
    <3>2. CASE Publish(kind)
      BY <2>2, <3>2, PublishQueues DEF WellFormed
    <3>3. CASE ~Publish(kind)
      BY <2>2, <2>4, <3>1, <3>3, QueueKept, PromiseKept DEF NothingMissed
    <3> QED
      BY <3>2, <3>3
  <2> QED
    BY <2>3, <2>4
<1> QED
  BY <1>1, <1>2, BehindStep, FollowedStep, AlwaysWellFormed, PTL DEF Spec

------------------------------------------------------------------------------
(* The agent in the loop.                                                  *)

\* The last block of a channel about comment c is the n-th.
LastAbout(channel, c, n) ==
    /\ n \in DOMAIN channel /\ channel[n][1] = c
    /\ \A m \in DOMAIN channel : m > n => channel[m][1] # c
\* The last word an agent has heard or will hear about comment c.
LastWordIs(a, c, Right) ==
    \/ /\ \A n \in DOMAIN blocks[a] : blocks[a][n][1] # c
       /\ heard[a][c] \in Right
    \/ \E n \in DOMAIN blocks[a] :
          LastAbout(blocks[a], c, n) /\ blocks[a][n][2] \in Right

\* What is about to be printed of an uncrossed comment is true of it,
PrintsTruth ==
    \A r \in Requests :
        pc[r] = "printing" /\ item[r] \notin crossed => note[r] \in Says(item[r])
\* and so is the last word in the channel when nothing is about to be printed.
ChannelsTrue ==
    \A a \in Agents \ missed, c \in Comments \ crossed :
        Unprinted(c) = {} => LastWordIs(a, c, Says(c))
LoopInv == PrintsTruth /\ ChannelsTrue

\* A step that changes no comment but for its line, prints nothing and leaves
\* the channels of the agents that missed nothing alone keeps LoopInv.
LEMMA QuietStep ==
    ASSUME LoopInv, crossed' = crossed, missed \subseteq missed', heard' = heard,
           \A c \in Comments : Says(c)' = Says(c),
           \A r \in Requests : pc'[r] = "printing" <=> pc[r] = "printing",
           \A r \in Requests :
               pc[r] = "printing" => item[r] \in Comments /\ item'[r] = item[r]
                                     /\ note'[r] = note[r],
           \A a \in Agents \ missed' : blocks'[a] = blocks[a]
    PROVE  LoopInv'
<1>1. PrintsTruth'
  BY DEF LoopInv, PrintsTruth
<1>2. \A c \in Comments : Unprinted(c)' = Unprinted(c)
  BY DEF Unprinted
<1>3. ChannelsTrue'
  <2> SUFFICES ASSUME NEW a \in Agents \ missed', NEW c \in Comments \ crossed',
                      Unprinted(c)' = {}
               PROVE  LastWordIs(a, c, Says(c))'
    BY DEF ChannelsTrue
  <2>1. LastWordIs(a, c, Says(c))
    BY <1>2 DEF LoopInv, ChannelsTrue
  <2>2. blocks'[a] = blocks[a] /\ heard'[a] = heard[a] /\ Says(c)' = Says(c)
    OBVIOUS
  <2> QED
    BY <2>1, <2>2 DEF LastWordIs
<1> QED
  BY <1>1, <1>3 DEF LoopInv

\* A comment that is changed while no event about it is unprinted has its
\* event, and no other, unprinted now; one changed earlier counts as crossed.
LEMMA PutInTheLoop ==
    ASSUME WellFormed, LoopInv, NEW r \in Requests, NEW c \in Comments,
           NEW comment \in {NoComment} \cup Records, Put(r, c, comment),
           pc[r] # "printing", pc' = [pc EXCEPT ![r] = "printing"],
           NEW event, note' = [note EXCEPT ![r] = event], event \in Says(c)'
    PROVE  LoopInv'
<1>1. /\ comments' = [comments EXCEPT ![c] = comment]
      /\ crossed' = IF Unprinted(c) = {} THEN crossed \ {c} ELSE crossed \cup {c}
      /\ item' = [item EXCEPT ![r] = c]
      /\ UNCHANGED <<blocks, heard, missed>>
  BY DEF Put, agent
<1>2. \A d \in Comments \ {c} : Says(d)' = Says(d)
  BY <1>1 DEF Says, WellFormed, TypeOK
<1>3. \A q \in Requests \ {r} : pc'[q] = pc[q] /\ item'[q] = item[q] /\ note'[q] = note[q]
  BY <1>1 DEF WellFormed, TypeOK, Processes
<1>4. pc'[r] = "printing" /\ item'[r] = c /\ note'[r] = event
  BY <1>1 DEF WellFormed, TypeOK, Processes
<1>5. PrintsTruth'
  <2> SUFFICES ASSUME NEW q \in Requests, pc'[q] = "printing", item'[q] \notin crossed'
               PROVE  (note[q] \in Says(item[q]))'
    BY DEF PrintsTruth
  <2>1. CASE q = r
    BY <1>4, <2>1
  <2>2. CASE q # r
    <3>1. pc[q] = "printing" /\ item[q] \in Comments
      BY <1>3, <2>2 DEF WellFormed, Working, Processes
    <3>2. item[q] # c
      BY <1>1, <1>3, <2>2, <3>1 DEF Unprinted
    <3>3. note[q] \in Says(item[q])
      BY <1>1, <1>3, <2>2, <3>1, <3>2 DEF LoopInv, PrintsTruth
    <3> QED
      BY <1>2, <1>3, <2>2, <3>1, <3>2, <3>3
  <2> QED
    BY <2>1, <2>2
<1>6. ChannelsTrue'
  <2> SUFFICES ASSUME NEW a \in Agents \ missed', NEW d \in Comments \ crossed',
                      Unprinted(d)' = {}
               PROVE  LastWordIs(a, d, Says(d))'
    BY DEF ChannelsTrue
  <2>1. d # c
    BY <1>4 DEF Unprinted
  <2>2. Unprinted(d) = {} /\ d \notin crossed
    BY <1>1, <1>3, <2>1 DEF Unprinted
  <2>3. LastWordIs(a, d, Says(d))
    BY <1>1, <2>2 DEF LoopInv, ChannelsTrue
  <2> QED
    BY <1>1, <1>2, <2>1, <2>3 DEF LastWordIs
<1> QED
  BY <1>5, <1>6 DEF LoopInv

\* An event that is printed is the last word about its comment, and leaves the
\* last word about any other as it is.
LEMMA PrintInTheLoop ==
    ASSUME WellFormed, LoopInv, NEW r \in Requests, PrintComment(r)
    PROVE  LoopInv'
<1> DEFINE c == item[r]
<1>1. /\ pc[r] = "printing" /\ pc' = [pc EXCEPT ![r] = "telling"]
      /\ UNCHANGED <<comments, crossed, item, note, heard>>
      /\ missed' = missed \cup {a \in Agents : ~Room(a)}
  BY DEF PrintComment, Goto, Emit, session
<1>2. c \in Comments
  BY <1>1 DEF WellFormed, Working, Processes
<1>3. \A q \in Requests : pc'[q] = "printing" <=> q # r /\ pc[q] = "printing"
  BY <1>1 DEF WellFormed, TypeOK, Processes
<1>4. \A d : Says(d)' = Says(d)
  BY <1>1 DEF Says
<1>5. PrintsTruth'
  BY <1>1, <1>3, <1>4 DEF LoopInv, PrintsTruth
<1>6. ChannelsTrue'
  <2> SUFFICES ASSUME NEW a \in Agents \ missed', NEW d \in Comments \ crossed',
                      Unprinted(d)' = {}
               PROVE  LastWordIs(a, d, Says(d))'
    BY DEF ChannelsTrue
  <2>1. a \notin missed /\ Room(a)
    BY <1>1
  <2>2. blocks'[a] = Append(blocks[a], <<c, note[r]>>) /\ blocks[a] \in Seq(Comments \X Notes)
    BY <2>1 DEF PrintComment, Emit, WellFormed, TypeOK
  <2> DEFINE k == Len(blocks[a])
  <2>3. /\ k \in Nat /\ DOMAIN blocks[a] = 1..k /\ DOMAIN blocks'[a] = 1..(k + 1)
        /\ blocks'[a][k + 1] = <<c, note[r]>>
        /\ \A n \in 1..k : blocks'[a][n] = blocks[a][n]
    BY <2>2
  <2> HIDE DEF k
  <2>4. CASE d = c
    <3>1. note[r] \in Says(d)
      BY <1>1, <2>4 DEF LoopInv, PrintsTruth
    <3>2. k + 1 \in DOMAIN blocks'[a] /\ LastAbout(blocks'[a], d, k + 1)
      BY <2>3, <2>4 DEF LastAbout
    <3>3. blocks'[a][k + 1][2] \in Says(d)'
      BY <1>4, <2>3, <3>1
    <3> QED
      BY <3>2, <3>3 DEF LastWordIs
  <2>5. CASE d # c
    <3>1. Unprinted(d) = {}
      BY <1>1, <1>3, <2>5 DEF Unprinted
    <3>2. LastWordIs(a, d, Says(d))
      BY <1>1, <2>1, <3>1 DEF LoopInv, ChannelsTrue
    <3>3. CASE /\ \A n \in DOMAIN blocks[a] : blocks[a][n][1] # d
               /\ heard[a][d] \in Says(d)
      <4>1. \A n \in DOMAIN blocks'[a] : blocks'[a][n][1] # d
        BY <2>3, <2>5, <3>3
      <4> QED
        BY <1>1, <1>4, <3>3, <4>1 DEF LastWordIs
    <3>4. CASE \E n \in DOMAIN blocks[a] :
                  LastAbout(blocks[a], d, n) /\ blocks[a][n][2] \in Says(d)
      <4>1. PICK n \in DOMAIN blocks[a] :
                LastAbout(blocks[a], d, n) /\ blocks[a][n][2] \in Says(d)
        BY <3>4
      <4>2. n \in DOMAIN blocks'[a] /\ LastAbout(blocks'[a], d, n)
        BY <2>3, <2>5, <4>1 DEF LastAbout
      <4>3. blocks'[a][n][2] \in Says(d)'
        BY <1>4, <2>3, <4>1
      <4> QED
        BY <4>2, <4>3 DEF LastWordIs
    <3> QED
      BY <3>2, <3>3, <3>4 DEF LastWordIs
  <2> QED
    BY <2>4, <2>5
<1> QED
  BY <1>5, <1>6 DEF LoopInv

\* An agent that reads a block has heard what was the first word in its channel.
LEMMA SendInTheLoop ==
    ASSUME WellFormed, LoopInv, NEW b \in Agents, SendBlock(b)
    PROVE  LoopInv'
<1> DEFINE first == Head(blocks[b])
<1>1. /\ blocks[b] # <<>> /\ blocks' = [blocks EXCEPT ![b] = Tail(@)]
      /\ heard' = [heard EXCEPT ![b][first[1]] = first[2]]
      /\ UNCHANGED <<comments, crossed, pc, item, note, missed>>
  BY DEF SendBlock, session
<1>2. /\ \A d : Says(d)' = Says(d)
      /\ \A d : Unprinted(d)' = Unprinted(d)
  BY <1>1 DEF Says, Unprinted
<1>3. PrintsTruth'
  BY <1>1, <1>2 DEF LoopInv, PrintsTruth
<1>4. ChannelsTrue'
  <2> SUFFICES ASSUME NEW a \in Agents \ missed', NEW d \in Comments \ crossed',
                      Unprinted(d)' = {}
               PROVE  LastWordIs(a, d, Says(d))'
    BY DEF ChannelsTrue
  <2>1. LastWordIs(a, d, Says(d))
    BY <1>1, <1>2 DEF LoopInv, ChannelsTrue
  <2>2. CASE a # b
    <3>1. blocks'[a] = blocks[a] /\ heard'[a] = heard[a]
      BY <1>1, <2>2 DEF WellFormed, TypeOK
    <3> QED
      BY <1>2, <2>1, <3>1 DEF LastWordIs
  <2>3. CASE a = b
    <3>1. blocks[a] \in Seq(Comments \X Notes) /\ blocks'[a] = Tail(blocks[a])
      BY <1>1, <2>3 DEF WellFormed, TypeOK
    <3> DEFINE k == Len(Tail(blocks[a]))
    <3>2. /\ k \in Nat /\ DOMAIN blocks[a] = 1..(k + 1) /\ DOMAIN blocks'[a] = 1..k
          /\ blocks[a][1] = first
          /\ \A n \in 1..k : blocks'[a][n] = blocks[a][n + 1]
      <4>1. blocks[a] # <<>> /\ first = Head(blocks[a])
        BY <1>1, <2>3
      <4>2. /\ k \in Nat /\ k + 1 = Len(blocks[a]) /\ blocks[a][1] = first
            /\ Tail(blocks[a]) \in Seq(Comments \X Notes)
        BY <3>1, <4>1
      <4>3. \A n \in 1..k : Tail(blocks[a])[n] = blocks[a][n + 1]
        BY <3>1, <4>1
      <4> HIDE DEF first
      <4> QED
        BY <3>1, <4>2, <4>3
    <3>3. first[1] \in Comments
      BY <1>1, <2>3, <3>1
    <3> HIDE DEF k, first
    <3>4. heard'[a][d] = IF first[1] = d THEN first[2] ELSE heard[a][d]
      BY <1>1, <2>3, <3>3 DEF WellFormed, TypeOK
    <3>5. CASE /\ \A n \in DOMAIN blocks[a] : blocks[a][n][1] # d
               /\ heard[a][d] \in Says(d)
      <4>1. \A n \in 1..(k + 1) : blocks[a][n][1] # d
        BY <3>2, <3>5
      <4>2. first[1] # d
        BY <3>2, <4>1
      <4>3. ASSUME NEW n \in 1..k
            PROVE  blocks'[a][n][1] # d
        <5>1. n + 1 \in 1..(k + 1)
          BY <3>2
        <5> QED
          BY <3>2, <4>1, <5>1
      <4>4. \A n \in DOMAIN blocks'[a] : blocks'[a][n][1] # d
        BY <3>2, <4>3
      <4> QED
        BY <1>2, <3>4, <3>5, <4>2, <4>4 DEF LastWordIs
    <3>6. ASSUME NEW n \in DOMAIN blocks[a],
                 LastAbout(blocks[a], d, n), blocks[a][n][2] \in Says(d)
          PROVE  LastWordIs(a, d, Says(d))'
      <4>1. CASE n = 1
        <5>1. first[1] = d /\ first[2] \in Says(d)
          BY <3>2, <3>6, <4>1 DEF LastAbout
        <5>2. \A m \in DOMAIN blocks'[a] : blocks'[a][m][1] # d
          <6> SUFFICES ASSUME NEW m \in 1..k PROVE blocks'[a][m][1] # d
            BY <3>2
          <6>1. m + 1 \in DOMAIN blocks[a] /\ m + 1 > n
            BY <3>2, <4>1
          <6> QED
            BY <3>2, <3>6, <6>1 DEF LastAbout
        <5> QED
          BY <1>2, <3>4, <5>1, <5>2 DEF LastWordIs
      <4>2. CASE n # 1
        <5>1. n - 1 \in 1..k /\ blocks'[a][n - 1] = blocks[a][n]
          BY <3>2, <4>2
        <5>2. LastAbout(blocks'[a], d, n - 1)
          <6>1. ASSUME NEW m \in 1..k, m > n - 1
                PROVE  blocks'[a][m][1] # d
            <7>1. m + 1 \in DOMAIN blocks[a] /\ m + 1 > n
              BY <3>2, <6>1
            <7> QED
              BY <3>2, <3>6, <7>1 DEF LastAbout
          <6> QED
            BY <3>2, <3>6, <5>1, <6>1 DEF LastAbout
        <5> QED
          BY <1>2, <3>2, <3>6, <5>1, <5>2 DEF LastWordIs
      <4> QED
        BY <4>1, <4>2
    <3> QED
      BY <2>1, <3>5, <3>6 DEF LastWordIs
  <2> QED
    BY <2>2, <2>3
<1> QED
  BY <1>3, <1>4 DEF LoopInv

\* A relocated comment stays as open as it was.
LEMMA StoreSays ==
    ASSUME WellFormed, NEW p \in Processes, Store(p), NEW d \in Comments
    PROVE  Says(d)' = Says(d)
<1> DEFINE c == item[p]
<1>1. CASE UNCHANGED comments
  BY <1>1 DEF Says
<1>2. CASE comments[c] # NoComment /\ comments' = [comments EXCEPT ![c].at = found[p]]
  <2>1. c \in Comments
    BY DEF Store, Goto, WellFormed, Working
  <2>2. comments[c] \in Records /\ found[p] \in Places
    BY <1>2, <2>1 DEF WellFormed, TypeOK
  <2>3. comments'[c] = [comments[c] EXCEPT !.at = found[p]]
    BY <1>2, <2>1 DEF WellFormed, TypeOK
  <2>4. comments'[c] \in Records /\ comments'[c].resolved = comments[c].resolved
    BY <2>2, <2>3 DEF Records
  <2>5. comments'[c] # NoComment
    BY <2>4, ReviewAssumption DEF Records
  <2>6. d # c => comments'[d] = comments[d]
    BY <1>2, <2>1 DEF WellFormed, TypeOK
  <2> QED
    BY <1>2, <2>4, <2>5, <2>6 DEF Says
<1> QED
  BY <1>1, <1>2 DEF Store

\* Every step keeps LoopInv: requests about a comment by PutInTheLoop, printing
\* and reading by the two lemmas after it, and the rest because it is quiet.
LEMMA LoopStep ==
    ASSUME WellFormed, LoopInv, [Next]_vars
    PROVE  LoopInv'
<1>1. \A r \in Requests : pc[r] = "printing" => item[r] \in Comments
  BY DEF WellFormed, Working, Processes
<1>2. ASSUME UNCHANGED <<comments, crossed, pc, item, note, blocks, heard, missed>>
      PROVE  LoopInv'
  BY <1>1, <1>2, QuietStep DEF Says
<1>3. ASSUME NEW r \in Requests, Begins(r)
      PROVE  LoopInv'
  <2>1. CASE Locate(r)
    <3>1. /\ pc[r] = "idle" /\ pc' = [pc EXCEPT ![r] = "located"] /\ r \in Processes
          /\ \A q \in Requests \ {r} : item'[q] = item[q]
          /\ UNCHANGED <<comments, crossed, note, blocks, heard, missed>>
      BY <2>1 DEF Locate, Goto, WellFormed, TypeOK, agent, Processes
    <3>2. \A q \in Requests : pc'[q] = "printing" <=> pc[q] = "printing"
      BY <3>1 DEF WellFormed, TypeOK, Processes
    <3>3. \A c : Says(c)' = Says(c)
      BY <3>1 DEF Says
    <3> QED
      BY <1>1, <3>1, <3>2, <3>3, QuietStep
  <2>2. CASE Mutate(r)
    <3>1. /\ pc[r] = "idle" /\ pc' = [pc EXCEPT ![r] = "copying"]
          /\ UNCHANGED <<comments, crossed, item, note, blocks, heard, missed>>
      BY <2>2 DEF Mutate, Goto, session, agent
    <3>2. \A q \in Requests : pc'[q] = "printing" <=> pc[q] = "printing"
      BY <3>1 DEF WellFormed, TypeOK, Processes
    <3>3. \A c : Says(c)' = Says(c)
      BY <3>1 DEF Says
    <3> QED
      BY <1>1, <3>1, <3>2, <3>3, QuietStep
  <2>3. CASE Find(r)
    <3>1. /\ pc[r] = "idle" /\ pc' = [pc EXCEPT ![r] = "decoding"] /\ r \in Processes
          /\ \A q \in Requests \ {r} : item'[q] = item[q]
          /\ UNCHANGED <<comments, crossed, note, blocks, heard, missed>>
      BY <2>3 DEF Find, Goto, WellFormed, TypeOK, agent, Processes, session
    <3>2. \A q \in Requests : pc'[q] = "printing" <=> pc[q] = "printing"
      BY <3>1 DEF WellFormed, TypeOK, Processes
    <3>3. \A c : Says(c)' = Says(c)
      BY <3>1 DEF Says
    <3> QED
      BY <1>1, <3>1, <3>2, <3>3, QuietStep
  <2>4. CASE Delete(r)
    <3>1. PICK c \in Comments : comments[c] # NoComment /\ Put(r, c, NoComment)
      BY <2>4 DEF Delete
    <3>2. comments'[c] = NoComment
      BY <3>1 DEF Put, WellFormed, TypeOK
    <3>3. "deleted" \in Says(c)'
      BY <3>2 DEF Says
    <3>4. /\ pc[r] # "printing" /\ pc' = [pc EXCEPT ![r] = "printing"]
          /\ note' = [note EXCEPT ![r] = "deleted"]
      BY <2>4 DEF Delete, Goto
    <3> QED
      BY <3>1, <3>3, <3>4, PutInTheLoop
  <2> QED
    BY <1>3, <2>1, <2>2, <2>3, <2>4 DEF Begins
<1>8. ASSUME NEW r \in Requests, Decodes(r)
      PROVE  LoopInv'
  <2>1. CASE Resolve(r)
    <3>1. PICK c \in Comments, resolved \in BOOLEAN :
              /\ c = item[r]
              /\ Put(r, c, [comments[c] EXCEPT !.resolved = resolved])
              /\ note' = [note EXCEPT ![r] = IF resolved THEN "resolved" ELSE "reopened"]
      BY <2>1 DEF Resolve, Goto, WellFormed, Working, Processes
    <3> DEFINE comment == [comments[c] EXCEPT !.resolved = resolved]
               event == IF resolved THEN "resolved" ELSE "reopened"
    <3>2. comments[c] \in Records
      BY <2>1, <3>1 DEF Resolve, Goto, WellFormed, TypeOK, Working, Processes
    <3>3. comment \in Records /\ comment.resolved = resolved
      BY <3>2 DEF Records
    <3>4. comment # NoComment
      BY <3>3, ReviewAssumption DEF Records
    <3>5. comments'[c] = comment
      BY <3>1 DEF Put, WellFormed, TypeOK
    <3>6. event \in Says(c)'
      BY <3>3, <3>4, <3>5 DEF Says
    <3>7. /\ pc[r] # "printing" /\ pc' = [pc EXCEPT ![r] = "printing"]
          /\ note' = [note EXCEPT ![r] = event] /\ Put(r, c, comment)
      BY <2>1, <3>1 DEF Resolve, Goto
    <3> HIDE DEF comment, event
    <3> QED
      BY <3>3, <3>6, <3>7, PutInTheLoop
  <2>2. CASE Refuse(r)
    <3>1. /\ pc[r] = "decoding" /\ pc' = [pc EXCEPT ![r] = "idle"]
          /\ \A q \in Requests \ {r} : item'[q] = item[q]
          /\ UNCHANGED <<comments, crossed, note, blocks, heard, missed>>
      BY <2>2 DEF Refuse, Goto, WellFormed, TypeOK, Processes, agent, session
    <3>2. \A q \in Requests : pc'[q] = "printing" <=> pc[q] = "printing"
      BY <3>1 DEF WellFormed, TypeOK, Processes
    <3>3. \A c : Says(c)' = Says(c)
      BY <3>1 DEF Says
    <3> QED
      BY <1>1, <3>1, <3>2, <3>3, QuietStep
  <2> QED
    BY <1>8, <2>1, <2>2 DEF Decodes
<1>4. ASSUME NEW p \in Processes, Continues(p)
      PROVE  LoopInv'
  <2>1. CASE Store(p)
    <3>1. /\ pc[p] = "storing" /\ pc' = [pc EXCEPT ![p] = "looking"]
          /\ \A q \in Requests \ {p} : item'[q] = item[q]
          /\ UNCHANGED <<crossed, note, blocks, heard, missed>>
      BY <2>1 DEF Store, Goto, WellFormed, TypeOK, agent, Processes
    <3>2. \A q \in Requests : pc'[q] = "printing" <=> pc[q] = "printing"
      BY <3>1 DEF WellFormed, TypeOK, Processes
    <3> QED
      BY <1>1, <2>1, <3>1, <3>2, StoreSays, QuietStep
  <2>2. CASE CopyComments(p) \/ Relocate(p) \/ EndReconcile(p) \/ Report(p)
             \/ (p \in Requests /\ Tell(p))
    <3>1. /\ pc[p] # "printing" /\ \E to : to # "printing" /\ pc' = [pc EXCEPT ![p] = to]
          /\ \A q \in Requests \ {p} : item'[q] = item[q] /\ note'[q] = note[q]
          /\ UNCHANGED <<comments, crossed, blocks, heard, missed>>
      BY <2>2 DEF CopyComments, Relocate, EndReconcile, Report, Tell, Forget, Goto,
             WellFormed, TypeOK, Processes, session, agent
    <3>2. \A q \in Requests : pc'[q] = "printing" <=> pc[q] = "printing"
      BY <3>1 DEF WellFormed, TypeOK, Processes
    <3>3. \A c : Says(c)' = Says(c)
      BY <3>1 DEF Says
    <3>4. \A q \in Requests : pc[q] = "printing" => q # p
      BY <3>1
    <3> QED
      BY <1>1, <3>1, <3>2, <3>3, <3>4, QuietStep
  <2>3. CASE p \in Requests /\ Add(p)
    <3>1. PICK c \in Comments, comment \in Records :
              /\ c = item[p] /\ comment = [at |-> found[p], resolved |-> FALSE]
              /\ Put(p, c, comment)
      <4>1. /\ item[p] \in Comments
            /\ [at |-> found[p], resolved |-> FALSE] \in Records
        BY <2>3 DEF Add, Goto, WellFormed, TypeOK, Working, Records
      <4> QED
        BY <2>3, <4>1 DEF Add
    <3>2. comment # NoComment /\ ~comment.resolved
      BY <3>1, ReviewAssumption DEF Records
    <3>3. /\ pc[p] # "printing" /\ pc' = [pc EXCEPT ![p] = "printing"]
          /\ note' = [note EXCEPT ![p] = "added"]
      BY <2>3 DEF Add, Goto
    <3>4. comments'[c] = comment
      BY <3>1 DEF Put, WellFormed, TypeOK
    <3>5. "added" \in Says(c)'
      BY <3>2, <3>4 DEF Says
    <3> QED
      BY <2>3, <3>1, <3>3, <3>5, PutInTheLoop
  <2>4. CASE p \in Requests /\ PrintComment(p)
    BY <2>4, PrintInTheLoop
  <2> QED
    BY <1>4, <2>1, <2>2, <2>3, <2>4 DEF Continues, Reconciles
<1>5. ASSUME NEW a \in Agents, Detach(a)
      PROVE  LoopInv'
  <2>1. /\ UNCHANGED <<comments, crossed, pc, item, note, heard>> /\ missed \subseteq missed'
        /\ \A d \in Agents \ missed' : blocks'[d] = blocks[d]
    BY <1>5 DEF Detach, session, WellFormed, TypeOK
  <2>2. \A c : Says(c)' = Says(c)
    BY <2>1 DEF Says
  <2> QED
    BY <1>1, <2>1, <2>2, QuietStep
<1>6. CASE Look
  <2>1. /\ pc[Watcher] = "idle" /\ pc' = [pc EXCEPT ![Watcher] = "copying"]
        /\ UNCHANGED <<comments, crossed, item, note, blocks, heard, missed>>
    BY <1>6 DEF Look, Goto, session, agent
  <2>2. \A q \in Requests : pc'[q] = "printing" <=> pc[q] = "printing"
    BY <2>1 DEF WellFormed, TypeOK, Processes
  <2>3. \A c : Says(c)' = Says(c)
    BY <2>1 DEF Says
  <2> QED
    BY <1>1, <2>1, <2>2, <2>3, QuietStep
<1>7. CASE \/ \E b \in Subs : Streams(b)
           \/ \E a \in Agents : Attach(a)
           \/ Edit \/ Stop \/ Exit \/ UNCHANGED vars
  BY <1>2, <1>7 DEF Streams, Subscribe, SendEvent, Unsubscribe, Attach, Edit, Stop,
         Exit, session, agent, vars
<1> QED
  BY <1>3, <1>4, <1>5, <1>6, <1>7, <1>8, SendInTheLoop DEF Next

\* AgentInTheLoop: an agent that stayed attached, lost no block and has read all
\* knows whether a comment is open, unless events about it crossed.
THEOREM AgentStaysInTheLoop == Spec => []AgentInTheLoop
<1>1. Init => LoopInv
  <2> SUFFICES ASSUME Init PROVE LoopInv
    OBVIOUS
  <2>1. PrintsTruth
    BY DEF Init, PrintsTruth, Processes
  <2>2. ChannelsTrue
    BY DEF Init, ChannelsTrue, LastWordIs, Says, NoComments
  <2> QED
    BY <2>1, <2>2 DEF LoopInv
<1>2. WellFormed /\ LoopInv => AgentInTheLoop
  <2> SUFFICES ASSUME WellFormed, LoopInv, NEW a \in attached \ missed,
                      NEW c \in Comments \ crossed, blocks[a] = <<>>, Unprinted(c) = {}
               PROVE  heard[a][c] \in Says(c)
    BY DEF AgentInTheLoop
  <2>1. LastWordIs(a, c, Says(c)) /\ DOMAIN blocks[a] = {}
    BY DEF LoopInv, ChannelsTrue, WellFormed, TypeOK
  <2> QED
    BY <2>1 DEF LastWordIs
<1> QED
  BY <1>1, <1>2, LoopStep, AlwaysWellFormed, PTL DEF Spec
==============================================================================
