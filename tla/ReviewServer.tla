---------------------------- MODULE ReviewServer ----------------------------
(***************************************************************************)
(* The review session a repository daemon keeps in memory (internal/server *)
(* handlers.go, events.go, watch.go, routes.go): the comments, where they  *)
(* are anchored, the watcher that notices changes of the repository, the   *)
(* event streams of the browsers, the comment stream of the agent, and the *)
(* stop request that ends the session with a summary.                      *)
(*                                                                         *)
(* Every handler is a process of several steps, and the repository is read *)
(* outside Server.mu.  The mutex covers one step, but for PATCH, which     *)
(* reads its body from the network while it holds it: the steps that need  *)
(* the mutex wait for that.  A state of the repository is a version        *)
(* number, and a location of a comment is the version it was found in:     *)
(* every change moves every anchor.  The model starts when the watcher has *)
(* taken its first fingerprint.                                            *)
(***************************************************************************)
EXTENDS Naturals, Sequences, FiniteSets

CONSTANTS Requests,    \* goroutines serving browser requests
          Watcher,     \* the goroutine of watchRepository
          Comments,    \* comment IDs
          Subs,        \* event streams of browsers
          Agents,      \* comment streams of agents (git-review processes)
          SubCap,      \* capacity of a browser's channel
          AgentCap,    \* capacity of an agent's channel
          NoComment,   \* null value
          MaxVersion   \* bound on the versions of the repository

Processes == Requests \cup {Watcher}
Versions  == 1..MaxVersion

\* Where a comment is: on no line, on the line it had in a version, or outdated.
NoLine   == 0
Outdated == MaxVersion + 1
Places   == {NoLine, Outdated} \cup Versions

ASSUME ReviewAssumption ==
    /\ Watcher \notin Requests
    /\ NoComment \notin Comments
    /\ \A place \in Places, resolved \in BOOLEAN :
          NoComment # [at |-> place, resolved |-> resolved]
    /\ SubCap \in Nat \ {0} /\ AgentCap \in Nat \ {0}
    /\ MaxVersion \in Nat \ {0}

VARIABLES
    running,   \* FALSE once the process has exited
    version,   \* state of the repository
    lastState, \* Server.lastState, the version the watcher saw last
    comments,  \* Server.comments, each at its place
    created,   \* IDs that were ever given out
    pc,        \* what each goroutine does next
    item,      \* the comment a request is about
    note,      \* the event it will print
    copy,      \* the comments reconcileComments copied
    todo,      \* those it has not looked at yet
    found,     \* the place a comment was looked up in
    changed,   \* goroutines whose reconcileComments has stored something
    queue,     \* events in each browser's channel
    subs,      \* Server.subs
    blocks,    \* comment blocks in each agent's channel
    attached,  \* Server.agentSubs
    summary,   \* comments in the stop request's summary
    stopping,  \* a stop request has been answered
    want,      \* history: comments the last request wanted resolved
    owed,      \* history: kinds of change since each stream's last event of it
    dropped,   \* history: streams that lost an event to a full channel
    crossed,   \* history: comments changed while an earlier event was unprinted
    heard,     \* history: the last event each agent read about each comment
    missed     \* history: agents that were not given every comment event

reconciling == <<copy, todo, changed>>
browsers    == <<queue, subs, owed, dropped>>
agent       == <<blocks, attached, heard, missed>>
session     == <<comments, created, want, crossed>>
ending      == <<summary, stopping>>
vars == <<running, version, lastState, comments, created, pc, item, note, copy,
          todo, found, changed, queue, subs, blocks, attached, summary, stopping,
          want, crossed, owed, dropped, heard, missed>>

------------------------------------------------------------------------------
NoComments == [c \in Comments |-> NoComment]
Kinds == {"repository", "comments"}
Notes == {"added", "resolved", "reopened", "deleted"}

Goto(p, from, to) ==
    running /\ pc[p] = from /\ pc' = [pc EXCEPT ![p] = to]

\* Nobody reads a request body while holding Server.mu.
MuFree == \A r \in Requests : pc[r] # "decoding"

\* The kind of thing the streams show has changed.
Owe(kind) ==
    owed' = [b \in Subs |-> IF b \in subs THEN owed[b] \cup {kind} ELSE owed[b]]

\* Mutant: publish does not drop at a full channel.
Full_Never(b) == b \notin subs
\* Server.publish: a full channel drops the event.
Full(b) == Len(queue[b]) >= SubCap
Publish(kind) ==
    /\ queue' = [b \in Subs |->
            IF b \in subs /\ ~Full(b) THEN Append(queue[b], kind) ELSE queue[b]]
    /\ dropped' = dropped \cup {b \in subs : Full(b)}
    /\ UNCHANGED <<subs, owed>>

\* Server.printComment: a full channel drops the block.
Room(a) == a \in attached /\ Len(blocks[a]) < AgentCap
Emit(block) ==
    /\ blocks' = [a \in Agents |-> IF Room(a) THEN Append(blocks[a], block) ELSE blocks[a]]
    /\ missed' = missed \cup {a \in Agents : ~Room(a)}

------------------------------------------------------------------------------
(* commentsHandler and commentHandler.                                     *)

\* POST: a comment on a line is located in the repository as it is, one on a
\* file or on the commit message needs no location.  Its random ID is drawn here.
\* What a request did before (auth took the mutex and released it) is over.
Locate(r) ==
    /\ Goto(r, "idle", "located")
    /\ \E c \in Comments \ created :
          /\ item' = [item EXCEPT ![r] = c]
          /\ created' = created \cup {c}
    /\ \E v \in {NoLine, version} : found' = [found EXCEPT ![r] = v]
    /\ UNCHANGED <<version, lastState, comments, want, crossed, note, reconciling, browsers,
                   agent, ending, running>>

\* Handlers that have changed comment c and not printed it yet.
Unprinted(c) == {r \in Requests : pc[r] = "printing" /\ item[r] = c}

Put(r, c, comment) ==
    /\ comments' = [comments EXCEPT ![c] = comment]
    /\ crossed' = IF Unprinted(c) = {} THEN crossed \ {c} ELSE crossed \cup {c}
    /\ want' = IF comment # NoComment /\ comment.resolved
               THEN want \cup {c} ELSE want \ {c}
    /\ item' = [item EXCEPT ![r] = c]
    /\ Owe("comments")
    /\ UNCHANGED <<version, lastState, created, reconciling, queue, subs, dropped,
                   agent, ending, running>>

\* Under the lock it is added.
Add(r) ==
    /\ MuFree
    /\ Goto(r, "located", "printing")
    /\ Put(r, item[r], [at |-> found[r], resolved |-> FALSE])
    /\ note' = [note EXCEPT ![r] = "added"]
    /\ found' = [found EXCEPT ![r] = NoLine]

\* PATCH: the comment is looked up and the body read under the lock,
Find(r) ==
    /\ MuFree
    /\ Goto(r, "idle", "decoding")
    /\ \E c \in Comments :
          comments[c] # NoComment /\ item' = [item EXCEPT ![r] = c]
    /\ UNCHANGED <<version, lastState, session, note, found, reconciling, browsers,
                   agent, ending, running>>
\* and the comment is resolved or reopened,
Resolve(r) ==
    /\ Goto(r, "decoding", "printing")
    /\ \E resolved \in BOOLEAN :
          /\ Put(r, item[r], [comments[item[r]] EXCEPT !.resolved = resolved])
          /\ note' = [note EXCEPT ![r] = IF resolved THEN "resolved" ELSE "reopened"]
    /\ UNCHANGED found
\* unless the body is not what it should be, or does not come.
Refuse(r) ==
    /\ Goto(r, "decoding", "idle")
    /\ item' = [item EXCEPT ![r] = NoComment]
    /\ UNCHANGED <<version, lastState, session, note, found, reconciling, browsers,
                   agent, ending, running>>

\* Mutant: a comment is deleted without an event for the agent.
Delete_Silent(r) ==
    /\ MuFree
    /\ Goto(r, "idle", "telling")
    /\ \E c \in Comments :
          comments[c] # NoComment /\ Put(r, c, NoComment)
    /\ note' = [note EXCEPT ![r] = "deleted"]
    /\ UNCHANGED found
Delete(r) ==
    /\ MuFree
    /\ Goto(r, "idle", "printing")
    /\ \E c \in Comments :
          comments[c] # NoComment /\ Put(r, c, NoComment)
    /\ note' = [note EXCEPT ![r] = "deleted"]
    /\ UNCHANGED found

\* After the lock is released the event is printed, and then published.
PrintComment(r) ==
    /\ MuFree
    /\ Goto(r, "printing", "telling")
    /\ Emit(<<item[r], note[r]>>)
    /\ UNCHANGED <<version, lastState, session, item, note, found, reconciling,
                   browsers, attached, heard, ending, running>>
\* The request is over.
Forget(r) ==
    /\ item' = [item EXCEPT ![r] = NoComment]
    /\ note' = [note EXCEPT ![r] = "added"]
\* Mutant: the browsers are not told of a comment that was resolved.
Tell_NotResolved(r) ==
    /\ MuFree
    /\ Goto(r, "telling", "idle")
    /\ IF note[r] = "resolved" THEN UNCHANGED browsers ELSE Publish("comments")
    /\ Forget(r)
    /\ UNCHANGED <<version, lastState, session, found, reconciling,
                   agent, ending, running>>
Tell(r) ==
    /\ MuFree
    /\ Goto(r, "telling", "idle")
    /\ Publish("comments")
    /\ Forget(r)
    /\ UNCHANGED <<version, lastState, session, found, reconciling,
                   agent, ending, running>>

------------------------------------------------------------------------------
(* Changes of the repository and reconcileComments.                        *)

\* A mutation made by a request: repositoryChanged follows.
Mutate(r) ==
    /\ version < MaxVersion
    /\ Goto(r, "idle", "copying")
    /\ version' = version + 1
    /\ Owe("repository")
    /\ UNCHANGED <<lastState, session, item, note, found, reconciling, queue, subs,
                   dropped, agent, ending, running>>

\* Mutant: the watcher compares but does not remember what it saw.
Look_Forgets ==
    /\ MuFree /\ version # lastState
    /\ Goto(Watcher, "idle", "copying")
    /\ UNCHANGED <<version, lastState, session, item, note, found, reconciling,
                   browsers, agent, ending, running>>
\* The watcher compares the fingerprint with the last one, and remembers it
\* before it does anything about the change.
Look ==
    /\ MuFree /\ version # lastState
    /\ Goto(Watcher, "idle", "copying")
    /\ lastState' = version
    /\ UNCHANGED <<version, session, item, note, found, reconciling, browsers,
                   agent, ending, running>>

Anchored(c) == comments[c] # NoComment /\ comments[c].at # NoLine

\* The comments on lines are copied under the read lock,
CopyComments(p) ==
    /\ MuFree
    /\ Goto(p, "copying", "looking")
    /\ copy' = [copy EXCEPT ![p] = comments]
    /\ todo' = [todo EXCEPT ![p] = {c \in Comments : Anchored(c)}]
    /\ changed' = changed \ {p}
    /\ UNCHANGED <<version, lastState, session, item, note, found, browsers, agent,
                   ending, running>>
\* each is located in the repository without the lock, and is outdated if it is
\* not there or the file or diff cannot be read,
Relocate(p) ==
    /\ Goto(p, "looking", "storing")
    /\ \E c \in todo[p] : item' = [item EXCEPT ![p] = c]
    /\ \E place \in {version, Outdated} : found' = [found EXCEPT ![p] = place]
    /\ UNCHANGED <<version, lastState, session, note, reconciling, browsers, agent,
                   ending, running>>
\* Mutant: the copy is stored, not the comment as it is now.
Store_Copy(p) ==
    /\ MuFree
    /\ Goto(p, "storing", "looking")
    /\ LET c == item[p]
           new == [copy[p][c] EXCEPT !.at = found[p]]
       IN  IF comments[c] # NoComment /\ comments[c].at # found[p]
           THEN /\ comments' = [comments EXCEPT ![c] = new]
                /\ changed' = changed \cup {p}
                /\ Owe("comments")
           ELSE UNCHANGED <<comments, changed, owed>>
    /\ todo' = [todo EXCEPT ![p] = @ \ {item[p]}]
    /\ item' = [item EXCEPT ![p] = NoComment]
    /\ found' = [found EXCEPT ![p] = NoLine]
    /\ UNCHANGED <<version, lastState, created, want, crossed, note, copy, queue, subs,
                   dropped, agent, ending, running>>
\* and the location stored under the lock if the comment still exists.
Store(p) ==
    /\ MuFree
    /\ Goto(p, "storing", "looking")
    /\ LET c == item[p] IN
       IF comments[c] # NoComment /\ comments[c].at # found[p]
       THEN /\ comments' = [comments EXCEPT ![c].at = found[p]]
            /\ changed' = changed \cup {p}
            /\ Owe("comments")
       ELSE UNCHANGED <<comments, changed, owed>>
    /\ todo' = [todo EXCEPT ![p] = @ \ {item[p]}]
    /\ item' = [item EXCEPT ![p] = NoComment]
    /\ found' = [found EXCEPT ![p] = NoLine]
    /\ UNCHANGED <<version, lastState, created, want, crossed, note, copy, queue, subs,
                   dropped, agent, ending, running>>
\* At the end "comments" is published if something was stored,
EndReconcile(p) ==
    /\ Goto(p, "looking", "reporting")
    /\ todo[p] = {}
    /\ IF p \in changed THEN MuFree /\ Publish("comments") ELSE UNCHANGED browsers
    /\ changed' = changed \ {p}
    /\ copy' = [copy EXCEPT ![p] = NoComments]
    /\ UNCHANGED <<version, lastState, session, item, note, found, todo, agent,
                   ending, running>>
\* and then "repository".
Report(p) ==
    /\ MuFree
    /\ Goto(p, "reporting", "idle")
    /\ Publish("repository")
    /\ UNCHANGED <<version, lastState, session, item, note, found, reconciling,
                   agent, ending, running>>

\* An editor or the agent changes the repository.
Edit ==
    /\ running /\ version < MaxVersion
    /\ version' = version + 1
    /\ Owe("repository")
    /\ UNCHANGED <<running, lastState, session, pc, item, note, found, reconciling,
                   queue, subs, dropped, agent, ending>>

------------------------------------------------------------------------------
(* Streams and the end of the session.                                     *)

Subscribe(b) ==
    /\ running /\ MuFree /\ b \notin subs
    /\ subs' = subs \cup {b}
    /\ UNCHANGED <<running, version, lastState, session, pc, item, note, found,
                   reconciling, queue, owed, dropped, agent, ending>>
SendEvent(b) ==
    /\ running /\ b \in subs /\ queue[b] # <<>>
    /\ queue' = [queue EXCEPT ![b] = Tail(@)]
    /\ owed' = [owed EXCEPT ![b] = @ \ {Head(queue[b])}]
    /\ UNCHANGED <<running, version, lastState, session, pc, item, note, found,
                   reconciling, subs, dropped, agent, ending>>
Unsubscribe(b) ==
    /\ running /\ MuFree /\ b \in subs
    /\ subs' = subs \ {b}
    /\ queue' = [queue EXCEPT ![b] = <<>>]
    /\ owed' = [owed EXCEPT ![b] = {}]
    /\ dropped' = dropped \ {b}
    /\ UNCHANGED <<running, version, lastState, session, pc, item, note, found,
                   reconciling, agent, ending>>

Attach(a) ==
    /\ running /\ MuFree /\ a \notin attached
    /\ attached' = attached \cup {a}
    /\ UNCHANGED <<running, version, lastState, session, pc, item, note, found,
                   reconciling, browsers, blocks, heard, missed, ending>>
SendBlock(a) ==
    /\ running /\ a \in attached /\ blocks[a] # <<>>
    /\ blocks' = [blocks EXCEPT ![a] = Tail(@)]
    /\ LET block == Head(blocks[a]) IN heard' = [heard EXCEPT ![a][block[1]] = block[2]]
    /\ UNCHANGED <<running, version, lastState, session, pc, item, note, found,
                   reconciling, browsers, attached, missed, ending>>
\* Blocks that were not sent are lost with the channel.
Detach(a) ==
    /\ running /\ MuFree /\ a \in attached
    /\ attached' = attached \ {a}
    /\ blocks' = [blocks EXCEPT ![a] = <<>>]
    /\ missed' = IF blocks[a] = <<>> THEN missed ELSE missed \cup {a}
    /\ UNCHANGED <<running, version, lastState, session, pc, item, note, found,
                   reconciling, browsers, heard, ending>>

\* POST /api/agent/stop answers with the unresolved comments, and shuts down in
\* a goroutine of its own; Serve then returns at once and the process exits,
\* whatever its other goroutines are doing.
Unresolved == {c \in Comments : comments[c] # NoComment /\ ~comments[c].resolved}
Stop ==
    /\ running /\ MuFree /\ ~stopping
    /\ stopping' = TRUE
    /\ summary' = Unresolved
    /\ UNCHANGED <<running, version, lastState, session, pc, item, note, found,
                   reconciling, browsers, agent>>
\* The browsers' streams end with the process.
Exit ==
    /\ running /\ stopping
    /\ running' = FALSE
    /\ subs' = {} /\ queue' = [b \in Subs |-> <<>>]
    /\ dropped' = {} /\ owed' = [b \in Subs |-> {}]
    /\ UNCHANGED <<version, lastState, session, pc, item, note, found, reconciling,
                   agent, ending>>

------------------------------------------------------------------------------
Init ==
    /\ running = TRUE
    /\ version = 1 /\ lastState = 1
    /\ comments = NoComments
    /\ created = {}
    /\ pc = [p \in Processes |-> "idle"]
    /\ item = [p \in Processes |-> NoComment]
    /\ note = [r \in Requests |-> "added"]
    /\ copy = [p \in Processes |-> NoComments]
    /\ todo = [p \in Processes |-> {}]
    /\ found = [p \in Processes |-> NoLine]
    /\ changed = {}
    /\ queue = [b \in Subs |-> <<>>]
    /\ subs = {}
    /\ blocks = [a \in Agents |-> <<>>]
    /\ attached = {}
    /\ summary = {}
    /\ stopping = FALSE
    /\ want = {}
    /\ crossed = {}
    /\ owed = [b \in Subs |-> {}]
    /\ dropped = {}
    /\ heard = [a \in Agents |-> [c \in Comments |-> "nothing"]]
    /\ missed = {}

Begins(r) == Locate(r) \/ Find(r) \/ Delete(r) \/ Mutate(r)
Decodes(r) == Resolve(r) \/ Refuse(r)
Reconciles(p) ==
    CopyComments(p) \/ Relocate(p) \/ Store(p) \/ EndReconcile(p) \/ Report(p)
Continues(p) == Reconciles(p) \/ (p \in Requests /\ (Add(p) \/ PrintComment(p) \/ Tell(p)))
Streams(b) == Subscribe(b) \/ SendEvent(b) \/ Unsubscribe(b)

Next ==
    \/ \E r \in Requests : Begins(r) \/ Decodes(r)
    \/ \E p \in Processes : Continues(p)
    \/ \E b \in Subs : Streams(b)
    \/ \E a \in Agents : Attach(a) \/ SendBlock(a) \/ Detach(a)
    \/ Look \/ Edit \/ Stop \/ Exit

Spec == Init /\ [][Next]_vars

\* A goroutine waits for the client's body or for Git to find a comment; neither
\* has a time limit.
Waits(p) == pc[p] = "decoding" \/ (pc[p] = "looking" /\ todo[p] # {})
\* Goroutines run, and one that waits for Server.mu gets it if it is released
\* again and again (sync.RWMutex starves nobody).  The watcher tries every five
\* seconds; that git status answers it again and again is assumed.
Fairness ==
    SF_vars(Look) /\ \A p \in Processes : SF_vars(Continues(p) /\ ~Waits(p))
FairSpec == Spec /\ Fairness

------------------------------------------------------------------------------
Records == [at : Places, resolved : BOOLEAN]
Steps == {"idle", "located", "decoding", "printing", "telling", "copying",
          "looking", "storing", "reporting"}

\* Every variable stays in its domain, no channel holds more than its capacity
\* and only IDs that were given out have comments.
TypeOK ==
    /\ {running, stopping} \subseteq BOOLEAN
    /\ version \in Versions /\ lastState \in Versions
    /\ comments \in [Comments -> {NoComment} \cup Records]
    /\ created \subseteq Comments
    /\ pc \in [Processes -> Steps]
    /\ item \in [Processes -> {NoComment} \cup Comments]
    /\ note \in [Requests -> Notes]
    /\ copy \in [Processes -> [Comments -> {NoComment} \cup Records]]
    /\ todo \in [Processes -> SUBSET Comments]
    /\ found \in [Processes -> Places]
    /\ changed \subseteq Processes
    /\ queue \in [Subs -> Seq(Kinds)]
    /\ subs \subseteq Subs /\ dropped \subseteq subs
    /\ attached \subseteq Agents /\ missed \subseteq Agents
    /\ blocks \in [Agents -> Seq(Comments \X Notes)]
    /\ summary \subseteq Comments
    /\ want \subseteq Comments
    /\ crossed \subseteq created
    /\ owed \in [Subs -> SUBSET Kinds]
    /\ heard \in [Agents -> [Comments -> {"nothing"} \cup Notes]]
    /\ \A b \in Subs : Len(queue[b]) <= SubCap
    /\ \A a \in Agents : Len(blocks[a]) <= AgentCap
    /\ \A c \in Comments : comments[c] # NoComment => c \in created

(* Safety.                                                                 *)

\* Locating comments does not undo what reviewers did meanwhile: a comment is
\* resolved exactly if the last request about it said so, and one that was
\* deleted does not come back.
ReviewersDecide ==
    \A c \in Comments :
        /\ comments[c] # NoComment => (comments[c].resolved <=> c \in want)
        /\ comments[c] = NoComment => c \notin want

\* A stream whose channel never was full is behind in nothing: for whatever has
\* changed since the last event of that kind, one is queued or will be published.
WillPublish(kind) ==
    IF kind = "repository"
    THEN \/ version # lastState
         \/ \E p \in Processes : pc[p] \in {"copying", "looking", "storing", "reporting"}
    ELSE changed # {} \/ \E p \in Processes : pc[p] \in {"printing", "telling"}
Queued(b, kind) == \E n \in DOMAIN queue[b] : queue[b][n] = kind
NothingMissed ==
    \A b \in subs \ dropped : \A kind \in owed[b] :
        Queued(b, kind) \/ WillPublish(kind)

\* "Comments flow directly back to the agent ... keeping the agent in the loop"
\* (README.md): an agent that stayed attached, lost no block and has read all
\* knows from the last event about a comment whether it is open.  That needs the
\* events about a comment to be printed in the order of its changes, so it is
\* said only of comments whose last change did not cross an unprinted event.
Says(c) ==
    IF comments[c] = NoComment THEN {"nothing", "deleted"}
    ELSE IF comments[c].resolved THEN {"resolved"} ELSE {"added", "reopened"}
AgentInTheLoop ==
    \A a \in attached \ missed, c \in Comments \ crossed :
        blocks[a] = <<>> /\ Unprinted(c) = {} => heard[a][c] \in Says(c)

\* Stopping "outputs any remaining unresolved comments" (SKILL.md): a comment that
\* is unresolved when the process exits, and that no unanswered request is about,
\* is in the summary.
SummaryComplete ==
    ~running => \A c \in Unresolved :
                    c \in summary \/ \E r \in Requests : pc[r] # "idle" /\ item[r] = c

(* Liveness.                                                               *)

\* If no client and no Git command keeps a goroutine waiting for ever, then every
\* request and every round of the watcher ends, and the watcher catches up with the
\* repository whenever that rests, unless the process exits.
SessionProgresses ==
    (\A p \in Processes : []<>~Waits(p)) =>
        /\ \A p \in Processes : []<>(pc[p] = "idle" \/ ~running)
        /\ []<>(lastState = version \/ ~running)
==============================================================================
