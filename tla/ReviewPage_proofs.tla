-------------------------- MODULE ReviewPage_proofs --------------------------
(***************************************************************************)
(* Theorems about ReviewPage for any files, texts and number of clicks     *)
(* under way at once.                                                      *)
(***************************************************************************)
EXTENDS ReviewPage, TLAPS

Task == [todo : Todos, path : {NoPath} \cup Paths,
         text : {NoText} \cup Texts, view : {NoView} \cup Views]

\* A request that needs a path has one, and so has a function that will.
NeedsPath(todo) ==
    /\ todo # <<>>
    /\ \/ Head(todo) \in {"diff", "light", "change", "source", "edit", "save", "move"}
       \/ todo = <<"repository", "move", "diff", "light">>
PathOK(r) == NeedsPath(r.todo) => r.path \in Paths
\* A save carries the view it came from, and its fingerprint is the text that
\* view was opened with, unless the view was crossed.
SaveOK(r) ==
    r.todo # <<>> /\ Head(r.todo) = "save" =>
        r.view # NoView /\ (r.view.crossed \/ r.view.base = r.text)
Sound(r) == r \in Task /\ PathOK(r) /\ SaveOK(r)
TasksInv == tasks \in [Tasks -> Task] /\ \A t \in Tasks : Sound(tasks[t])

\* A view is on the screen, an open editor has one, and what is in it came with
\* the fingerprint the page would save it under, unless it was crossed.
Fits(v, sel, text, m) ==
    /\ v \in {NoView} \cup Views
    /\ v # NoView => m \/ IsFile(sel)
    /\ m /\ sel # NoSelection /\ text # NoText => v # NoView
    /\ v # NoView /\ ~v.crossed => v.base = text
EditorInv == Fits(view, selection, content, mode)

PageOK ==
    /\ files \in [Paths -> Texts]
    /\ selection \in {NoSelection} \cup Selections
    /\ diff \in BOOLEAN /\ lit \in {"none", "shown", "old"}
    /\ last \in {NoTask} \cup Tasks
    /\ content \in {NoText} \cup Texts /\ mode \in BOOLEAN /\ live \in BOOLEAN
    /\ view \in {NoView} \cup Views
PageInv == PageOK /\ HighlightsMatch /\ EditorInv
IInv == PageInv /\ TasksInv

LEMMA IInvType == IInv => TypeOK
BY DEF IInv, PageInv, PageOK, TasksInv, Sound, PathOK, NeedsPath, Task, TypeOK, Waits

------------------------------------------------------------------------------
(* Todo lists.                                                             *)

Later == {"comments", "diff", "light", "repository", "move"}

\* What is left of a todo list is one, and asks for nothing that only a click
\* can ask for; highlights follow their diff.
LEMMA TodoTail ==
    ASSUME NEW s \in Todos, s # <<>>
    PROVE  /\ Tail(s) \in Todos
           /\ Tail(s) # <<>> => Head(Tail(s)) \in Later
           /\ NeedsPath(Tail(s)) /\ Head(Tail(s)) # "diff" => NeedsPath(s)
           /\ Head(s) = "source" => Tail(s) = <<"comments">>
           /\ Head(s) = "diff" => Tail(Tail(s)) \in {<<>>, <<"repository">>}
           /\ Head(s) = "save" => [s EXCEPT ![1] = "saved"] \in Todos
<1> DEFINE R == <<"repository">>
           DL == <<"diff", "light">>
           LR == <<"light", "repository">>
           DLR == <<"diff", "light", "repository">>
           RDL == <<"repository", "diff", "light">>
           MDL == <<"move", "diff", "light">>
           RMDL == <<"repository", "move", "diff", "light">>
<1>1. CASE s \in {<<"comments">>, R, <<"edit">>, <<"light">>}
  <2>1. ASSUME NEW x \in {"comments", "repository", "edit", "light"}, s = <<x>>
        PROVE  Tail(s) = <<>> /\ Head(s) = x
    BY <2>1
  <2>2. Tail(s) = <<>> /\ Head(s) \notin {"source", "diff", "save"} BY <1>1, <2>1
  <2> QED BY <2>2 DEF Todos, Later, NeedsPath
<1>2. CASE s = <<"source", "comments">>
  <2>1. Tail(s) = <<"comments">> /\ Head(s) = "source" BY <1>2
  <2> QED BY <2>1 DEF Todos, Later, NeedsPath
<1>3. CASE s = DL
  <2>1. Tail(s) = <<"light">> /\ Head(s) = "diff" /\ Tail(Tail(s)) = <<>> BY <1>3
  <2> QED BY <2>1 DEF Todos, Later, NeedsPath
<1>4. CASE s = DLR
  <2>1. Tail(s) = LR /\ Head(s) = "diff" /\ Tail(Tail(s)) = R BY <1>4
  <2> QED BY <2>1 DEF Todos, Later, NeedsPath
<1>5. CASE s = LR
  <2>1. Tail(s) = R /\ Head(s) = "light" BY <1>5
  <2> QED BY <2>1 DEF Todos, Later, NeedsPath
<1>6. CASE s = RDL
  <2>1. Tail(s) = DL /\ Head(s) = "repository" BY <1>6
  <2> QED BY <2>1 DEF Todos, Later, NeedsPath
<1>7. CASE s = <<"comments", "diff", "light", "repository">>
  <2>1. Tail(s) = DLR /\ Head(s) = "comments" BY <1>7
  <2> QED BY <2>1 DEF Todos, Later, NeedsPath
<1>8. CASE s = <<"save", "diff", "light", "repository">>
  <2>1. Tail(s) = DLR /\ Head(s) = "save" BY <1>8
  <2>2. [s EXCEPT ![1] = "saved"] = <<"saved", "diff", "light", "repository">> BY <1>8
  <2> QED BY <2>1, <2>2 DEF Todos, Later, NeedsPath
<1>9. CASE s = <<"saved", "diff", "light", "repository">>
  <2>1. Tail(s) = DLR /\ Head(s) = "saved" BY <1>9
  <2> QED BY <2>1 DEF Todos, Later, NeedsPath
<1>10. CASE s = <<"change", "repository", "move", "diff", "light">>
  <2>1. Tail(s) = RMDL /\ Head(s) = "change" BY <1>10
  <2> QED BY <2>1 DEF Todos, Later, NeedsPath
<1>11. CASE s = RMDL
  <2>1. Tail(s) = MDL /\ Head(s) = "repository" BY <1>11
  <2> QED BY <2>1 DEF Todos, Later, NeedsPath
<1>12. CASE s = MDL
  <2>1. Tail(s) = DL /\ Head(s) = "move" BY <1>12
  <2> QED BY <2>1 DEF Todos, Later, NeedsPath
<1> QED
  BY <1>1, <1>2, <1>3, <1>4, <1>5, <1>6, <1>7, <1>8, <1>9, <1>10, <1>11, <1>12 DEF Todos

LEMMA IdleSound == Sound(Idle)
BY DEF Sound, Task, PathOK, NeedsPath, SaveOK, Idle, Todos

\* A first request that needs no path.
LEMMA FirstSound ==
    ASSUME NEW s \in Todos, s # <<>>, ~NeedsPath(s), Head(s) # "save"
    PROVE  Sound([Idle EXCEPT !.todo = s])
BY IdleSound DEF Idle, Sound, Task, PathOK, SaveOK

\* Going on, a function asks for a diff only with the path of one.
LEMMA AwaitSound ==
    ASSUME NEW task \in Task, NEW todo \in Todos,
           NEW sel \in {NoSelection} \cup Selections,
           todo # <<>> => Head(todo) \in Later,
           NeedsPath(todo) /\ Head(todo) # "diff" => task.path \in Paths
    PROVE  Sound(Await(task, todo, sel))
<1> DEFINE skipped == Tail(Tail(todo))
<1>1. CASE todo = <<>> BY <1>1, IdleSound DEF Await
<1>2. CASE todo # <<>> /\ Head(todo) # "diff"
  <2>1. Await(task, todo, sel) = [task EXCEPT !.todo = todo] BY <1>2 DEF Await
  <2> QED BY <1>2, <2>1 DEF Sound, Task, PathOK, SaveOK, Later
<1>3. CASE todo # <<>> /\ Head(todo) = "diff" /\ IsDiff(sel)
  <2>1. Await(task, todo, sel) = [Idle EXCEPT !.todo = todo, !.path = sel.path]
    BY <1>3 DEF Await
  <2>2. sel.path \in Paths BY <1>3 DEF IsDiff, Selections
  <2> QED BY <1>3, <2>1, <2>2, IdleSound DEF Idle, Sound, Task, PathOK, SaveOK
<1>4. CASE todo # <<>> /\ Head(todo) = "diff" /\ ~IsDiff(sel)
  <2>1. skipped \in {<<>>, <<"repository">>} BY <1>4, TodoTail
  <2>2. CASE skipped = <<>> BY <1>4, <2>2, IdleSound DEF Await
  <2>3. CASE skipped = <<"repository">>
    <3>0. <<"repository">> # <<>> OBVIOUS
    <3>1. Await(task, todo, sel) = [Idle EXCEPT !.todo = skipped]
      BY <1>4, <2>3, <3>0 DEF Await
    <3>2. /\ <<"repository">> \in Todos /\ Head(<<"repository">>) = "repository"
          /\ ~NeedsPath(<<"repository">>)
      BY DEF Todos, NeedsPath
    <3>3. Sound([Idle EXCEPT !.todo = <<"repository">>]) BY <3>0, <3>2, FirstSound
    <3> QED BY <2>3, <3>1, <3>3
  <2> QED BY <2>1, <2>2, <2>3
<1> QED BY <1>1, <1>2, <1>3, <1>4

\* One task changes, into a sound one.
LEMMA OneTask ==
    ASSUME TasksInv, NEW t \in Tasks, NEW r, Sound(r), tasks' = [tasks EXCEPT ![t] = r]
    PROVE  TasksInv'
BY DEF TasksInv, Sound

LEMMA ContinuesSound ==
    ASSUME TasksInv, NEW t \in Tasks, tasks[t].todo # <<>>, Continues(t),
           selection' \in {NoSelection} \cup Selections
    PROVE  TasksInv'
<1> DEFINE todo == Tail(tasks[t].todo)
<1>1. tasks[t] \in Task /\ PathOK(tasks[t]) BY DEF TasksInv, Sound
<1>2. /\ todo \in Todos
      /\ todo # <<>> => Head(todo) \in Later
      /\ NeedsPath(todo) /\ Head(todo) # "diff" => NeedsPath(tasks[t].todo)
  BY <1>1, TodoTail DEF Task
<1>3. NeedsPath(todo) /\ Head(todo) # "diff" => tasks[t].path \in Paths
  BY <1>1, <1>2 DEF PathOK
<1>4. Sound(Await(tasks[t], todo, selection')) BY <1>1, <1>2, <1>3, AwaitSound
<1>5. tasks' = [tasks EXCEPT ![t] = Await(tasks[t], todo, selection')]
  BY DEF Continues, Continue, TasksInv
<1> QED BY <1>4, <1>5, OneTask

\* A click starts a function with a sound first request.
LEMMA StartSound ==
    ASSUME TasksInv, NEW t \in Tasks, NEW todo \in Todos, NEW p \in {NoPath} \cup Paths,
           Start(t, todo, p), todo # <<>>, Head(todo) # "save",
           p \in Paths \/ ~NeedsPath(todo)
    PROVE  TasksInv'
<1>1. Sound([Idle EXCEPT !.todo = todo, !.path = p])
  BY IdleSound DEF Idle, Sound, Task, PathOK, SaveOK
<1> QED BY <1>1, OneTask DEF Start

LEMMA OneSave ==
    ASSUME NEW s \in Todos, s # <<>>, Head(s) = "save"
    PROVE  s = <<"save", "diff", "light", "repository">>
BY DEF Todos

------------------------------------------------------------------------------
(* Clicks.                                                                 *)

LEMMA Lists ==
    /\ <<"comments", "diff", "light", "repository">> \in Todos
    /\ <<"source", "comments">> \in Todos /\ <<"diff", "light">> \in Todos
    /\ <<"repository">> \in Todos /\ <<"comments">> \in Todos /\ <<"edit">> \in Todos
    /\ <<"change", "repository", "move", "diff", "light">> \in Todos
    /\ <<"repository", "diff", "light">> \in Todos
    /\ <<"save", "diff", "light", "repository">> \in Todos
    /\ ~NeedsPath(<<"comments", "diff", "light", "repository">>)
    /\ ~NeedsPath(<<"repository">>) /\ ~NeedsPath(<<"comments">>)
    /\ ~NeedsPath(<<"repository", "diff", "light">>)
BY DEF Todos, NeedsPath

\* Rendering keeps the view, destroys it or makes it of the text it is given.
LEMMA RenderInv ==
    ASSUME NEW v \in {NoView} \cup Views, NEW text \in {NoText} \cup Texts,
           NEW sel, NEW m \in BOOLEAN,
           v # NoView /\ ~v.crossed => v.base = text
    PROVE  Fits(Render(v, sel, text, m), sel, text, m)
<1>1. ASSUME text # NoText
      PROVE  /\ Opened(text) \in Views /\ Opened(text) # NoView
             /\ Opened(text).base = text
  <2>1. Opened(text) \in Views BY <1>1 DEF Opened, Views
  <2>2. Opened(text).base = text BY DEF Opened
  <2> QED BY <2>1, <2>2, ReviewPageAssumption
<1>2. CASE ~(m \/ IsFile(sel)) BY <1>2 DEF Render, Fits
<1>3. CASE (m \/ IsFile(sel)) /\ (v # NoView \/ sel = NoSelection \/ text = NoText)
  <2>1. Render(v, sel, text, m) = v BY <1>3 DEF Render
  <2> QED BY <1>3, <2>1 DEF Fits
<1>4. CASE (m \/ IsFile(sel)) /\ ~(v # NoView \/ sel = NoSelection \/ text = NoText)
  <2>1. Render(v, sel, text, m) = Opened(text) BY <1>4 DEF Render
  <2>2. ~Opened(text).crossed BY DEF Opened
  <2> QED BY <1>1, <1>4, <2>1, <2>2 DEF Fits
<1> QED BY <1>2, <1>3, <1>4

LEMMA FilesOnly ==
    ASSUME PageInv, UNCHANGED <<shown, editor, live>>, files' \in [Paths -> Texts]
    PROVE  PageInv'
BY DEF PageInv, PageOK, HighlightsMatch, EditorInv, shown, editor

LEMMA PageKept == ASSUME PageInv, UNCHANGED <<files, shown, editor, live>> PROVE PageInv'
<1>1. files' \in [Paths -> Texts] BY DEF PageInv, PageOK
<1> QED BY <1>1, FilesOnly

LEMMA SelectDiffInv ==
    ASSUME PageInv, NEW p \in Paths, SelectDiff(p), view' = NoView, UNCHANGED <<files, live>>
    PROVE  PageInv'
BY DEF PageInv, PageOK, HighlightsMatch, EditorInv, Fits, SelectDiff, Selected, Selections

LEMMA ClickStep == ASSUME IInv, NEW t \in Clicks, Click(t) PROVE IInv'
<1> USE DEF IInv
<1>0. t \in Tasks BY DEF Tasks
<1>1. ASSUME NEW p \in Paths, ChooseFile(t, p) PROVE IInv'
  <2>1. TasksInv' BY <1>0, <1>1, StartSound, Lists DEF ChooseFile
  <2>2. PageInv' BY <1>1, SelectDiffInv DEF ChooseFile, Click
  <2> QED BY <2>1, <2>2
<1>2. ASSUME NEW p \in Paths, ChooseSourceFile(t, p) PROVE IInv'
  <2>1. TasksInv' BY <1>0, <1>2, StartSound, Lists DEF ChooseSourceFile
  <2>2. PageInv'
    BY <1>2 DEF ChooseSourceFile, Click, PageInv, PageOK, HighlightsMatch, EditorInv,
                Fits, Selected, Selections, Outdated
  <2> QED BY <2>1, <2>2
<1>3. CASE ChangeArea(t) \/ MutateFile(t) \/ EditFile(t)
  <2>1. selection.path \in Paths
    BY <1>3 DEF ChangeArea, MutateFile, EditFile, IsDiff, PageInv, PageOK, Selections
  <2>2. TasksInv'
    <3>1. CASE ChangeArea(t) BY <1>0, <2>1, <3>1, StartSound, Lists DEF ChangeArea
    <3>2. CASE MutateFile(t) BY <1>0, <2>1, <3>2, StartSound, Lists DEF MutateFile
    <3>3. CASE EditFile(t) BY <1>0, <2>1, <3>3, StartSound, Lists DEF EditFile
    <3> QED BY <1>3, <3>1, <3>2, <3>3
  <2>3. PageInv' BY <1>3, PageKept DEF ChangeArea, MutateFile, EditFile, Click
  <2> QED BY <2>2, <2>3
<1>4. CASE Reload(t)
  <2>1. TasksInv' BY <1>0, <1>4, StartSound, Lists DEF Reload
  <2>2. PageInv' BY <1>4, PageKept DEF Reload, Click
  <2> QED BY <2>1, <2>2
<1>5. CASE SaveFile(t)
  <2> DEFINE r == [todo |-> <<"save", "diff", "light", "repository">>,
                   path |-> selection.path, text |-> content, view |-> view]
  <2>1. selection.path \in Paths BY <1>5 DEF SaveFile, IsDiff, PageInv, PageOK, Selections
  <2>2. view # NoView /\ (view.crossed \/ view.base = content)
    BY <1>5 DEF SaveFile, IsDiff, PageInv, EditorInv, Fits
  <2>3. r \in Task BY <2>1, Lists DEF Task, PageInv, PageOK
  <2>4. Sound(r) BY <2>1, <2>2, <2>3 DEF Sound, PathOK, SaveOK
  <2>5. TasksInv' BY <1>0, <1>5, <2>4, OneTask DEF SaveFile
  <2>6. PageInv' BY <1>5, PageKept DEF SaveFile, Click
  <2> QED BY <2>5, <2>6
<1> QED BY <1>1, <1>2, <1>3, <1>4, <1>5 DEF Click

LEMMA EventStep == ASSUME IInv, Event PROVE IInv'
<1>0. Stream \in Tasks BY DEF Tasks
<1>1. TasksInv'
  <2>1. CASE Start(Stream, <<"repository", "diff", "light">>, NoPath)
    BY <1>0, <2>1, StartSound, Lists DEF IInv
  <2>2. CASE Start(Stream, <<"comments">>, NoPath)
    BY <1>0, <2>2, StartSound, Lists DEF IInv
  <2> QED BY <2>1, <2>2 DEF Event
<1>2. PageInv' BY PageKept DEF IInv, Event
<1> QED BY <1>1, <1>2 DEF IInv

LEMMA CancelStep == ASSUME IInv, CancelEdit PROVE IInv'
<1>1. TasksInv' BY DEF IInv, CancelEdit, TasksInv
<1>2. PageInv'
  BY DEF IInv, CancelEdit, PageInv, PageOK, HighlightsMatch, EditorInv, Fits, IsDiff,
         IsFile, shown
<1> QED BY <1>1, <1>2 DEF IInv

------------------------------------------------------------------------------
(* The daemon and the agent.                                               *)

LEMMA ReadFileStep == ASSUME IInv, NEW t \in Tasks, ReadFile(t) PROVE IInv'
<1> DEFINE r == [tasks[t] EXCEPT !.text = files[tasks[t].path]]
<1>1. Sound(tasks[t]) BY DEF IInv, TasksInv
<1>2. tasks[t].todo # <<>> /\ Head(tasks[t].todo) \in {"edit", "source"}
  BY DEF ReadFile, Waits
<1>3. files[tasks[t].path] \in Texts
  BY <1>1, <1>2 DEF Sound, PathOK, NeedsPath, IInv, PageInv, PageOK
<1>4. Sound(r) BY <1>1, <1>2, <1>3 DEF Sound, Task, PathOK, SaveOK
<1>5. tasks' = [tasks EXCEPT ![t] = r] BY DEF ReadFile
<1>6. TasksInv' BY <1>4, <1>5, OneTask DEF IInv
<1>7. PageInv' BY PageKept DEF IInv, ReadFile
<1> QED BY <1>6, <1>7 DEF IInv

LEMMA AcceptStep == ASSUME IInv, NEW t \in Tasks, AcceptSave(t) PROVE IInv'
<1> DEFINE todo == [tasks[t].todo EXCEPT ![1] = "saved"]
<1>1. tasks[t] \in Task /\ tasks[t].todo # <<>> /\ Head(tasks[t].todo) = "save"
  BY DEF IInv, TasksInv, Sound, AcceptSave, Waits
<1>2. todo = <<"saved", "diff", "light", "repository">>
  <2>1. tasks[t].todo = <<"save", "diff", "light", "repository">>
    BY <1>1, OneSave DEF Task
  <2> QED BY <2>1
<1>3. Sound([Idle EXCEPT !.todo = todo])
  <2>1. /\ <<"saved", "diff", "light", "repository">> \in Todos
        /\ Head(<<"saved", "diff", "light", "repository">>) = "saved"
        /\ <<"saved", "diff", "light", "repository">> # <<>>
        /\ ~NeedsPath(<<"saved", "diff", "light", "repository">>)
    BY DEF Todos, NeedsPath
  <2> QED BY <1>2, <2>1, FirstSound
<1>4. TasksInv' BY <1>3, OneTask DEF IInv, AcceptSave
<1>5. PageInv'
  <2>1. files \in [Paths -> Texts] BY DEF IInv, PageInv, PageOK
  <2>2. files' \in [Paths -> Texts] BY <2>1 DEF AcceptSave
  <2>3. UNCHANGED <<shown, editor, live>> BY DEF AcceptSave
  <2> QED BY <2>2, <2>3, FilesOnly DEF IInv
<1> QED BY <1>4, <1>5 DEF IInv

LEMMA AgentStep == ASSUME IInv, AgentEdits \/ StreamEnds \/ UNCHANGED vars PROVE IInv'
<1>1. TasksInv' BY DEF IInv, AgentEdits, StreamEnds, vars, TasksInv
<1>2. files \in [Paths -> Texts] BY DEF IInv, PageInv, PageOK
<1>3. CASE AgentEdits
  <2>1. files' \in [Paths -> Texts] BY <1>2, <1>3 DEF AgentEdits
  <2> QED BY <1>1, <1>3, <2>1, FilesOnly DEF AgentEdits, IInv
<1>4. CASE StreamEnds
  <2>1. live' \in BOOLEAN /\ UNCHANGED <<files, shown, editor>> BY <1>4 DEF StreamEnds
  <2>2. PageInv'
    BY <2>1 DEF IInv, PageInv, PageOK, HighlightsMatch, EditorInv, shown, editor
  <2> QED BY <1>1, <2>2 DEF IInv
<1>5. CASE UNCHANGED vars
  <2>1. UNCHANGED <<files, shown, editor, live>> BY <1>5 DEF vars, shown, editor
  <2> QED BY <1>1, <2>1, PageKept DEF IInv
<1> QED BY <1>3, <1>4, <1>5

------------------------------------------------------------------------------
(* Answers.                                                                *)

LEMMA ArriveTasks ==
    ASSUME IInv, NEW t \in Tasks, tasks[t].todo # <<>>,
           Continues(t), selection' \in {NoSelection} \cup Selections
    PROVE  TasksInv'
BY ContinuesSound DEF IInv

LEMMA CommentsStep == ASSUME IInv, NEW t \in Tasks, LoadComments(t) PROVE IInv'
<1> DEFINE v == IF IsFile(selection) THEN NoView ELSE view
<1>1. TasksInv'
  BY ArriveTasks DEF LoadComments, Waits, shown, IInv, PageInv, PageOK
<1>2. /\ v \in {NoView} \cup Views
      /\ v # NoView /\ ~v.crossed => v.base = content
      /\ content \in {NoText} \cup Texts /\ mode \in BOOLEAN
      /\ view' = Render(v, selection, content, mode)
  BY DEF LoadComments, IInv, PageInv, PageOK, EditorInv, Fits
<1>3. Fits(view', selection, content, mode) BY <1>2, RenderInv
<1>4. PageInv'
  BY <1>2, <1>3 DEF LoadComments, shown, IInv, PageInv, PageOK, HighlightsMatch, EditorInv, Fits
<1> QED BY <1>1, <1>4 DEF IInv

LEMMA DiffStep == ASSUME IInv, NEW t \in Tasks, LoadDiff(t) \/ Highlight(t) PROVE IInv'
<1>1. TasksInv'
  BY ArriveTasks DEF LoadDiff, Highlight, Waits, IInv, PageInv, PageOK
<1>2. /\ diff' \in BOOLEAN /\ lit' \in {"none", "shown", "old"} /\ last' \in {NoTask} \cup Tasks
      /\ diff' => lit' # "old"
  <2>1. CASE LoadDiff(t) BY <2>1 DEF LoadDiff
  <2>2. CASE Highlight(t)
    <3>1. /\ diff' = diff /\ last' = last
          /\ lit' = lit \/ (diff /\ lit' = "shown") \/ (~diff /\ lit' = "old")
      BY <2>2 DEF Highlight, Mine
    <3> QED BY <3>1 DEF IInv, PageInv, PageOK, HighlightsMatch
  <2> QED BY <2>1, <2>2
<1>3. PageInv'
  BY <1>2 DEF LoadDiff, Highlight, editor, IInv, PageInv, PageOK, HighlightsMatch,
              EditorInv
<1> QED BY <1>1, <1>3 DEF IInv

LEMMA RenderedInv ==
    ASSUME PageInv, Rendered, UNCHANGED <<files, live>>,
           selection' \in {NoSelection} \cup Selections,
           content' = content, mode' \in BOOLEAN, diff' \in BOOLEAN, lit' \in {"none", "shown", "old"}, last' = last,
           HighlightsMatch'
    PROVE  PageInv'
<1>1. /\ view \in {NoView} \cup Views /\ content \in {NoText} \cup Texts
      /\ view # NoView /\ ~view.crossed => view.base = content
  BY DEF PageInv, PageOK, EditorInv, Fits
<1>2. Fits(view', selection', content', mode') BY <1>1, RenderInv DEF Rendered
<1>3. view' \in {NoView} \cup Views BY <1>2 DEF Fits
<1> QED BY <1>1, <1>2, <1>3 DEF PageInv, PageOK, EditorInv

LEMMA RefreshStep == ASSUME IInv, NEW t \in Tasks, Refresh(t) PROVE IInv'
<1> USE DEF IInv
<1>1. CASE UNCHANGED <<shown, editor>>
  <2>1. TasksInv'
    BY <1>1, ArriveTasks DEF Refresh, Waits, shown, PageInv, PageOK
  <2>2. PageInv' BY <1>1, PageKept DEF Refresh
  <2> QED BY <2>1, <2>2
<1>2. CASE ~UNCHANGED <<shown, editor>>
  <2>1. /\ selection' = NoSelection /\ diff' = FALSE /\ lit' = Outdated(lit)
        /\ mode' = FALSE /\ last' = last /\ content' = content /\ Rendered
        /\ UNCHANGED <<files, live>>
    BY <1>2 DEF Refresh
  <2>2. TasksInv' BY <2>1, ArriveTasks DEF Refresh, Waits
  <2>3. lit' \in {"none", "shown", "old"} BY <2>1 DEF Outdated, PageInv, PageOK
  <2>4. PageInv' BY <2>1, <2>3, RenderedInv DEF HighlightsMatch
  <2> QED BY <2>2, <2>4
<1> QED BY <1>1, <1>2

LEMMA MoveStep == ASSUME IInv, NEW t \in Tasks, Move(t) PROVE IInv'
<1> USE DEF IInv
<1>0. tasks[t].todo # <<>> /\ Continues(t) /\ UNCHANGED <<files, live>>
  BY DEF Move, Waits
<1>1. CASE UNCHANGED <<shown, editor>>
  <2>1. TasksInv' BY <1>0, <1>1, ArriveTasks DEF shown, PageInv, PageOK
  <2>2. PageInv' BY <1>0, <1>1, PageKept
  <2> QED BY <2>1, <2>2
<1>2. ASSUME NEW p \in Paths, SelectDiff(p), Rendered PROVE IInv'
  <2>1. selection' \in Selections /\ ~IsFile(selection')
    BY <1>2 DEF SelectDiff, Selected, Selections, IsFile
  <2>2. TasksInv' BY <1>0, <2>1, ArriveTasks
  <2>3. view' = NoView BY <1>2, <2>1 DEF SelectDiff, Rendered, Render
  <2>4. PageInv' BY <1>0, <1>2, <2>3, SelectDiffInv
  <2> QED BY <2>2, <2>4
<1>3. CASE /\ selection' \in {NoSelection, Selected("diff", tasks[t].path)}
           /\ UNCHANGED <<diff, lit, last, content, mode>> /\ Rendered
  <2>1. tasks[t].path \in Paths
    BY DEF Move, Waits, TasksInv, Sound, PathOK, NeedsPath
  <2>2. selection' \in {NoSelection} \cup Selections
    BY <1>3, <2>1 DEF Selected, Selections
  <2>3. TasksInv' BY <1>0, <2>2, ArriveTasks
  <2>4. mode' \in BOOLEAN /\ diff' \in BOOLEAN /\ lit' \in {"none", "shown", "old"}
        /\ HighlightsMatch'
    BY <1>3 DEF PageInv, PageOK, HighlightsMatch
  <2>5. PageInv' BY <1>0, <1>3, <2>2, <2>4, RenderedInv
  <2> QED BY <2>3, <2>5
<1> QED BY <1>1, <1>2, <1>3 DEF Move

\* An answer fills the editor: a view on the screen is crossed, else rendering
\* makes one of the text that came.
LEMMA FillInv ==
    ASSUME PageInv, NEW text \in Texts, NEW m \in BOOLEAN, Fill(text, m),
           UNCHANGED <<files, shown, live>>, m \/ m = mode
    PROVE  PageInv'
<1>1. /\ view \in {NoView} \cup Views /\ Fits(view, selection, content, mode)
      /\ selection' = selection
  BY DEF PageInv, PageOK, EditorInv, shown
<1>2. CASE OnScreen
  <2>1. view' = [view EXCEPT !.crossed = TRUE] /\ view \in Views
    BY <1>1, <1>2 DEF Fill, OnScreen
  <2>2. view' \in Views /\ view'.crossed BY <2>1 DEF Views
  <2>3. mode => m BY DEF PageInv, PageOK
  <2>4. Fits(view', selection, text, m)
    BY <1>2, <2>2, <2>3, ReviewPageAssumption DEF Fits, OnScreen
  <2> QED BY <1>1, <2>2, <2>4 DEF Fill, shown, PageInv, PageOK, HighlightsMatch, EditorInv
<1>3. CASE ~OnScreen
  <2>1. view = NoView BY <1>1, <1>3 DEF Fits, OnScreen
  <2>2. Fits(view', selection, text, m)
    BY <1>3, <2>1, RenderInv DEF Fill
  <2>3. view' \in {NoView} \cup Views BY <2>2 DEF Fits
  <2> QED BY <1>1, <2>2, <2>3 DEF Fill, shown, PageInv, PageOK, HighlightsMatch, EditorInv
<1> QED BY <1>2, <1>3

LEMMA AnswerStep ==
    ASSUME IInv, NEW t \in Tasks,
           Changed(t) \/ OpenEditor(t) \/ OpenSource(t) \/ CloseEditor(t)
    PROVE  IInv'
<1> USE DEF IInv
<1>0. selection \in {NoSelection} \cup Selections /\ mode \in BOOLEAN
  BY DEF PageInv, PageOK
<1>1. tasks[t] \in Task BY DEF TasksInv
<1>2. CASE Changed(t)
  <2>1. TasksInv' BY <1>0, <1>2, ArriveTasks DEF Changed, Waits, shown
  <2>2. PageInv' BY <1>2, PageKept DEF Changed
  <2> QED BY <2>1, <2>2
<1>3. CASE OpenEditor(t)
  <2>1. tasks[t].text \in Texts BY <1>1, <1>3 DEF Task, OpenEditor
  <2>2. TasksInv' BY <1>0, <1>3, ArriveTasks DEF OpenEditor, Waits, shown
  <2>3. PageInv' BY <1>3, <2>1, FillInv DEF OpenEditor
  <2> QED BY <2>2, <2>3
<1>4. CASE OpenSource(t)
  <2>1. tasks[t].text \in Texts BY <1>1, <1>4 DEF Task, OpenSource
  <2>2. Tail(tasks[t].todo) = <<"comments">>
    BY <1>1, <1>4, TodoTail DEF Task, OpenSource, Waits
  <2>3. Sound([Idle EXCEPT !.todo = <<"comments">>])
    <3>1. Head(<<"comments">>) # "save" /\ <<"comments">> # <<>> OBVIOUS
    <3> QED BY <3>1, Lists, FirstSound
  <2>4. TasksInv' BY <1>4, <2>2, <2>3, OneTask DEF OpenSource
  <2>5. PageInv' BY <1>0, <1>4, <2>1, FillInv DEF OpenSource
  <2> QED BY <2>4, <2>5
<1>5. CASE CloseEditor(t)
  <2>1. TasksInv' BY <1>0, <1>5, ArriveTasks DEF CloseEditor, Waits, shown
  <2>2. /\ UNCHANGED <<files, selection, diff, lit, last, content, live>> /\ mode' = FALSE
        /\ view' = IF mode THEN Render(NoView, selection, content, FALSE) ELSE NoView
    BY <1>5 DEF CloseEditor, shown
  <2>3. content \in {NoText} \cup Texts BY DEF PageInv, PageOK
  <2>4. Fits(Render(NoView, selection, content, FALSE), selection, content, FALSE)
    BY <2>3, RenderInv
  <2>5. Fits(NoView, selection, content, FALSE) BY DEF Fits
  <2>6. Fits(view', selection', content', mode') BY <2>2, <2>4, <2>5
  <2>7. view' \in {NoView} \cup Views BY <2>6 DEF Fits
  <2>8. PageInv' BY <2>2, <2>6, <2>7 DEF PageInv, PageOK, HighlightsMatch, EditorInv
  <2> QED BY <2>1, <2>8
<1> QED BY <1>2, <1>3, <1>4, <1>5

LEMMA FailStep == ASSUME IInv, NEW t \in Tasks, Fail(t) PROVE IInv'
<1> USE DEF IInv
<1> DEFINE todo == tasks[t].todo
           rest == Tail(Tail(todo))
<1>1. /\ tasks[t] \in Task /\ todo \in Todos /\ todo # <<>> /\ tasks \in [Tasks -> Task]
      /\ UNCHANGED <<files, editor>>
  BY DEF TasksInv, Sound, Task, Fail
<1>2. /\ selection' = selection /\ selection \in {NoSelection} \cup Selections
      /\ last' = last
      /\ \/ diff' = FALSE /\ lit' = Outdated(lit)
         \/ diff' = diff /\ lit' = lit
      /\ live' = live \/ live' = (live /\ t # Stream)
  BY DEF Fail, shown, PageInv, PageOK
<1>3. PageInv'
  <2>1. /\ lit' \in {"none", "shown", "old"} /\ diff' \in BOOLEAN /\ HighlightsMatch'
    <3>1. CASE diff' = FALSE /\ lit' = Outdated(lit)
      <4>1. lit' \in {"none", "shown", "old"} BY <3>1 DEF Outdated, PageInv, PageOK
      <4> QED BY <3>1, <4>1 DEF HighlightsMatch
    <3>2. CASE diff' = diff /\ lit' = lit
      BY <3>2 DEF PageInv, PageOK, HighlightsMatch
    <3> QED BY <1>2, <3>1, <3>2
  <2>2. live' \in BOOLEAN BY <1>2 DEF PageInv, PageOK
  <2> QED BY <1>1, <1>2, <2>1, <2>2 DEF editor, PageInv, PageOK, EditorInv
<1>4. TasksInv'
  <2>1. CASE Head(todo) = "diff"
    <3>1. rest \in {<<>>, <<"repository">>} BY <1>1, <2>1, TodoTail
    <3>2. rest \in Todos /\ (rest # <<>> => Head(rest) \in Later) /\ ~NeedsPath(rest)
      <4>1. CASE rest = <<>> BY <4>1 DEF Todos, NeedsPath
      <4>2. CASE rest = <<"repository">>
        <5>1. Head(<<"repository">>) = "repository" OBVIOUS
        <5> QED BY <4>2, <5>1, Lists DEF Later
      <4> QED BY <3>1, <4>1, <4>2
    <3>3. Sound(Await(tasks[t], rest, selection')) BY <1>1, <1>2, <3>2, AwaitSound
    <3>4. tasks' = [tasks EXCEPT ![t] = Await(tasks[t], rest, selection')]
      BY <1>1, <2>1 DEF Fail, Continue
    <3> QED BY <3>3, <3>4, OneTask
  <2>2. CASE Head(todo) \in {"light", "repository"}
    <3>1. Continues(t) BY <2>2 DEF Fail, Continues
    <3> QED BY <1>1, <1>2, <3>1, ArriveTasks
  <2>3. CASE Head(todo) \notin {"diff", "light", "repository"}
    BY <2>3, IdleSound, OneTask DEF Fail
  <2> QED BY <2>1, <2>2, <2>3
<1> QED BY <1>3, <1>4

------------------------------------------------------------------------------
(* The theorems.                                                           *)

LEMMA InitInv == Init => IInv
<1> SUFFICES ASSUME Init PROVE IInv OBVIOUS
<1>1. TasksInv BY IdleSound DEF Init, TasksInv, Sound
<1>2. PageInv BY DEF Init, PageInv, PageOK, HighlightsMatch, EditorInv, Fits, IsFile
<1> QED BY <1>1, <1>2 DEF IInv

LEMMA NextInv == IInv /\ [Next]_vars => IInv'
<1> SUFFICES ASSUME IInv, [Next]_vars PROVE IInv' OBVIOUS
<1>1. ASSUME NEW t \in Clicks, Click(t) PROVE IInv' BY <1>1, ClickStep
<1>2. ASSUME NEW t \in Tasks, ReadFile(t) \/ AcceptSave(t) PROVE IInv'
  BY <1>2, ReadFileStep, AcceptStep
<1>3. ASSUME NEW t \in Tasks, Arrive(t) PROVE IInv'
  BY <1>3, CommentsStep, DiffStep, RefreshStep, MoveStep, AnswerStep, FailStep DEF Arrive
<1>4. CASE CancelEdit BY <1>4, CancelStep
<1>5. CASE Event BY <1>5, EventStep
<1>6. CASE AgentEdits \/ StreamEnds \/ UNCHANGED vars BY <1>6, AgentStep
<1> QED BY <1>1, <1>2, <1>3, <1>4, <1>5, <1>6 DEF Next

LEMMA PageInvariant == Spec => []IInv
<1> QED BY InitInv, NextInv, PTL DEF Spec

\* Every variable of the page keeps its type, no function waits for anything the
\* code does not ask for, and none asks for the diff, the file, the change or the
\* save of no path.
THEOREM PageTypeCorrect == Spec => []TypeOK
<1> QED BY PageInvariant, IInvType, PTL

\* The highlights on the screen are those of the diff on the screen, however
\* many loads of however many diffs overlap.
THEOREM HighlightsAlwaysMatch == Spec => []HighlightsMatch
<1>1. IInv => HighlightsMatch BY DEF IInv, PageInv
<1> QED BY <1>1, PageInvariant, PTL

\* A step of another task leaves a save waiting.
LEMMA OthersWait ==
    ASSUME TasksInv, NEW t \in Tasks, NEW u \in Tasks, NEW r, t # u,
           tasks' = [tasks EXCEPT ![u] = r]
    PROVE  ~Accepts(t)
<1>1. tasks'[t] = tasks[t] BY DEF TasksInv
<1> QED BY <1>1 DEF Accepts, Waits

LEMMA OnlyAccept ==
    ASSUME TasksInv, [Next]_vars, NEW t \in Tasks, Accepts(t)
    PROVE  AcceptSave(t)
<1>1. tasks[t].todo # <<>> /\ Head(tasks[t].todo) = "save"
  BY DEF Accepts, Waits
<1>2. tasks' # tasks BY DEF Accepts, Waits
<1>3. ASSUME NEW u \in Clicks, Click(u) PROVE FALSE
  <2>1. u \in Tasks /\ u # t BY <1>1, <1>3 DEF Click, Idle, Tasks
  <2>2. \E r : tasks' = [tasks EXCEPT ![u] = r]
    BY <1>3 DEF Click, ChooseFile, ChooseSourceFile, ChangeArea, Reload, MutateFile,
                EditFile, SaveFile, Start
  <2> QED BY <2>1, <2>2, OthersWait
<1>4. ASSUME Event PROVE FALSE
  <2>1. Stream \in Tasks /\ Stream # t BY <1>1, <1>4 DEF Event, Idle, Tasks
  <2>2. \E r : tasks' = [tasks EXCEPT ![Stream] = r] BY <1>4 DEF Event, Start
  <2> QED BY <2>1, <2>2, OthersWait
<1>5. ASSUME NEW u \in Tasks, ReadFile(u) PROVE FALSE
  <2>1. u # t BY <1>1, <1>5 DEF ReadFile, Waits
  <2>2. tasks' = [tasks EXCEPT ![u] = [tasks[u] EXCEPT !.text = files[tasks[u].path]]]
    BY <1>5 DEF ReadFile
  <2> QED BY <2>1, <2>2, OthersWait
<1>6. ASSUME NEW u \in Tasks, Arrive(u), ~Fail(u) PROVE FALSE
  <2>1. u # t
    BY <1>1, <1>6 DEF Arrive, LoadComments, LoadDiff, Highlight, Refresh, Move, Changed,
                      OpenEditor, OpenSource, CloseEditor, Waits
  <2>2. \E r : tasks' = [tasks EXCEPT ![u] = r]
    BY <1>6 DEF Arrive, LoadComments, LoadDiff, Highlight, Refresh, Move, Changed,
                OpenEditor, OpenSource, CloseEditor, Continues, Continue
  <2> QED BY <2>1, <2>2, OthersWait
<1>7. ASSUME NEW u \in Tasks, Fail(u) PROVE FALSE
  <2>1. \E r : tasks' = [tasks EXCEPT ![u] = r]
    BY <1>7 DEF Fail, Continues, Continue
  <2>2. CASE u = t
    <3>1. tasks' = [tasks EXCEPT ![t] = Idle] BY <1>1, <1>7, <2>2 DEF Fail
    <3>2. tasks'[t] = Idle BY <3>1 DEF TasksInv
    <3> QED BY <3>2 DEF Accepts, Waits, Idle
  <2> QED BY <2>1, <2>2, OthersWait
<1>8. ASSUME NEW u \in Tasks, AcceptSave(u) PROVE u = t
  <2>1. \E r : tasks' = [tasks EXCEPT ![u] = r] BY <1>8 DEF AcceptSave
  <2> QED BY <2>1, OthersWait
<1>9. CASE CancelEdit \/ StreamEnds \/ AgentEdits \/ UNCHANGED vars
  BY <1>2, <1>9 DEF CancelEdit, StreamEnds, AgentEdits, vars
<1> QED BY <1>3, <1>4, <1>5, <1>6, <1>7, <1>8, <1>9 DEF Next

\* A save the daemon accepts replaces the text its editor was opened with, for
\* any number of functions under way, unless an answer crossed the editor.
THEOREM AcceptedSavesLoseNothing == Spec => SavesLoseNothing
<1>1. ASSUME IInv, [Next]_vars, NEW t \in Tasks, Accepts(t)
      PROVE  /\ tasks[t].view # NoView
             /\ tasks[t].view.crossed \/ tasks[t].view.base = files[tasks[t].path]
  <2>1. AcceptSave(t) BY <1>1, OnlyAccept DEF IInv
  <2>2. tasks[t].text = files[tasks[t].path] BY <2>1 DEF AcceptSave
  <2>3. SaveOK(tasks[t]) BY <1>1 DEF IInv, TasksInv, Sound
  <2>4. tasks[t].todo # <<>> /\ Head(tasks[t].todo) = "save" BY <1>1 DEF Accepts, Waits
  <2> QED BY <2>2, <2>3, <2>4 DEF SaveOK
<1>2. IInv /\ [Next]_vars =>
        [\A t \in Tasks : Accepts(t) =>
          /\ tasks[t].view # NoView
          /\ tasks[t].view.crossed \/ tasks[t].view.base = files[tasks[t].path]]_vars
  BY <1>1
<1> QED BY <1>2, PageInvariant, PTL DEF Spec, SavesLoseNothing
==============================================================================
