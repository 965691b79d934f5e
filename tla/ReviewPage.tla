------------------------------ MODULE ReviewPage ------------------------------
(***************************************************************************)
(* The review page in a browser (web/src: repository-controller.ts, app.ts *)
(* and the state changes of app-model.ts), connected to one repository     *)
(* while an agent edits its files.  Every click runs an asynchronous       *)
(* function: a task is the list of answers such a function still waits     *)
(* for.  Answers arrive in any order, so tasks interleave at every await.  *)
(*                                                                         *)
(* A file is its text and a fingerprint is the text it hashes.  Which paths *)
(* a repository answer lists, and whether the daemon accepts a change, is   *)
(* free; only a save is followed to the file.  The two areas of a diff,     *)
(* comments, drafts, scrolling and errors shown are left out.               *)
(***************************************************************************)
EXTENDS Naturals, Sequences, FiniteSets

CONSTANTS Paths,        \* files of the repository
          Texts,        \* what a file can contain
          Clicks,       \* clicks that can be under way at once
          Stream,       \* the handler of the daemon's event stream
          NoPath, NoText, NoView, NoTask, NoSelection \* null values

Tasks == Clicks \cup {Stream}
Views == [base : Texts, crossed : BOOLEAN]
Selections == [kind : {"diff", "file"}, path : Paths]

ASSUME ReviewPageAssumption ==
    /\ Stream \notin Clicks /\ NoTask \notin Tasks
    /\ NoPath \notin Paths /\ NoText \notin Texts
    /\ NoView \notin Views /\ NoSelection \notin Selections

VARIABLES
    files,      \* [Paths -> Texts] the worktree
    selection,  \* state.selection: a diff or a source file
    diff,       \* whether state.diff holds an answer
    lit,        \* state.diffHighlights: none, of the diff shown, of an old one
    last,       \* the task whose number languageGeneration is
    content,    \* state.fileContent: text and, the same here, fingerprint
    mode,       \* state.editorMode
    view,       \* editorView: the text it was opened with
    live,       \* the event stream is open
    tasks       \* [Tasks -> ...] what each running function waits for

shown == <<selection, diff, lit, last>>
editor == <<content, mode, view>>
vars == <<files, selection, diff, lit, last, content, mode, view, live, tasks>>

IsDiff(sel) == sel # NoSelection /\ sel.kind = "diff"
IsFile(sel) == sel # NoSelection /\ sel.kind = "file"
Selected(kind, p) == [kind |-> kind, path |-> p]
Outdated(l) == IF l = "shown" THEN "old" ELSE l

------------------------------------------------------------------------------
(* The editor.  Rendering makes the view and destroys it; crossed marks one *)
(* that was on the screen when the answer to another request came in.       *)

Opened(text) == [base |-> text, crossed |-> FALSE]
\* Mutant: leaving the editor hides its view.
Render_KeepsView(v, sel, text, m) ==
    IF v # NoView \/ ~(m \/ IsFile(sel)) \/ sel = NoSelection \/ text = NoText
    THEN v ELSE Opened(text)
Render(v, sel, text, m) ==
    IF ~(m \/ IsFile(sel)) THEN NoView
    ELSE IF v # NoView \/ sel = NoSelection \/ text = NoText THEN v
    ELSE Opened(text)
OnScreen == view # NoView /\ (mode \/ IsFile(selection))
Fill(text, m) ==
    /\ content' = text /\ mode' = m
    /\ view' = IF OnScreen THEN [view EXCEPT !.crossed = TRUE]
               ELSE Render(view, selection, text, m)

\* A file of the change list is shown: selectRepositoryFile.
SelectDiff(p) ==
    /\ selection' = Selected("diff", p)
    /\ diff' = FALSE /\ lit' = "none" /\ last' = last
    /\ content' = NoText /\ mode' = FALSE
Rendered == view' = Render(view, selection', content', mode')

------------------------------------------------------------------------------
(* Tasks.                                                                  *)

Idle == [todo |-> <<>>, path |-> NoPath, text |-> NoText, view |-> NoView]
\* Mutant: a diff is requested whatever is selected.
Await_AnySelection(task, todo, sel) ==
    IF todo = <<>> THEN Idle
    ELSE IF Head(todo) # "diff" THEN [task EXCEPT !.todo = todo]
    ELSE [Idle EXCEPT !.todo = todo,
                      !.path = IF IsDiff(sel) THEN sel.path ELSE NoPath]
\* The function goes on to its next request.  loadDiff requests the diff of the
\* selection of that moment, then its highlights; it does nothing without one.
Await(task, todo, sel) ==
    LET skipped == Tail(Tail(todo)) IN
    IF todo = <<>> THEN Idle
    ELSE IF Head(todo) # "diff" THEN [task EXCEPT !.todo = todo]
    ELSE IF IsDiff(sel) THEN [Idle EXCEPT !.todo = todo, !.path = sel.path]
    ELSE IF skipped = <<>> THEN Idle
    ELSE [Idle EXCEPT !.todo = skipped]

Waits(t, step) == tasks[t].todo # <<>> /\ Head(tasks[t].todo) = step
Start(t, todo, p) == tasks' = [tasks EXCEPT ![t] = [Idle EXCEPT !.todo = todo, !.path = p]]
Continue(t, todo) == tasks' = [tasks EXCEPT ![t] = Await(@, todo, selection')]
Continues(t) == Continue(t, Tail(tasks[t].todo))

------------------------------------------------------------------------------
(* Clicks and events.  Each runs its function up to the first await.       *)

ChooseFile(t, p) ==
    /\ SelectDiff(p) /\ view' = NoView
    /\ Start(t, <<"comments", "diff", "light", "repository">>, NoPath)
ChooseSourceFile(t, p) ==
    /\ selection' = Selected("file", p)
    /\ diff' = FALSE /\ lit' = Outdated(lit) /\ last' = last
    /\ content' = NoText /\ mode' = FALSE /\ view' = NoView
    /\ Start(t, <<"source", "comments">>, p)
ChangeArea(t) ==
    /\ IsDiff(selection)
    /\ Start(t, <<"diff", "light">>, selection.path)
    /\ UNCHANGED <<shown, editor>>
\* The refresh button, stage all and commit; a comment written or resolved.
Reload(t) ==
    /\ \E step \in {"repository", "comments"} : Start(t, <<step>>, NoPath)
    /\ UNCHANGED <<shown, editor>>
MutateFile(t) ==
    /\ IsDiff(selection) /\ diff
    /\ Start(t, <<"change", "repository", "move", "diff", "light">>, selection.path)
    /\ UNCHANGED <<shown, editor>>
EditFile(t) ==
    /\ IsDiff(selection)
    /\ Start(t, <<"edit">>, selection.path)
    /\ UNCHANGED <<shown, editor>>
\* The editor's text goes out with the fingerprint of fileContent.
SaveFile(t) ==
    /\ IsDiff(selection) /\ mode /\ content # NoText
    /\ tasks' = [tasks EXCEPT ![t] =
          [todo |-> <<"save", "diff", "light", "repository">>,
           path |-> selection.path, text |-> content, view |-> view]]
    /\ UNCHANGED <<shown, editor>>
CancelEdit ==
    /\ IsDiff(selection) /\ mode
    /\ mode' = FALSE /\ view' = NoView
    /\ UNCHANGED <<files, shown, content, live, tasks>>
\* The stream hands over one event at a time.
Event ==
    /\ live /\ tasks[Stream] = Idle
    /\ \/ Start(Stream, <<"repository", "diff", "light">>, NoPath)
       \/ Start(Stream, <<"comments">>, NoPath)
    /\ UNCHANGED <<files, shown, editor, live>>

Click(t) ==
    /\ tasks[t] = Idle
    /\ \/ \E p \in Paths : ChooseFile(t, p) \/ ChooseSourceFile(t, p)
       \/ ChangeArea(t) \/ Reload(t) \/ MutateFile(t) \/ EditFile(t) \/ SaveFile(t)
    /\ UNCHANGED <<files, live>>

------------------------------------------------------------------------------
(* The daemon answers, and the agent edits.                                *)

ReadFile(t) ==
    /\ Waits(t, "edit") \/ Waits(t, "source")
    /\ tasks[t].text = NoText
    /\ tasks' = [tasks EXCEPT ![t].text = files[tasks[t].path]]
    /\ UNCHANGED <<files, shown, editor, live>>
\* WriteFile compares the fingerprint under r.mu and replaces the file.
AcceptSave(t) ==
    /\ Waits(t, "save") /\ tasks[t].text = files[tasks[t].path]
    /\ \E text \in Texts : files' = [files EXCEPT ![tasks[t].path] = text]
    /\ tasks' = [tasks EXCEPT ![t] =
          [Idle EXCEPT !.todo = [tasks[t].todo EXCEPT ![1] = "saved"]]]
    /\ UNCHANGED <<shown, editor, live>>
AgentEdits ==
    /\ \E p \in Paths, text \in Texts : files' = [files EXCEPT ![p] = text]
    /\ UNCHANGED <<shown, editor, live, tasks>>

------------------------------------------------------------------------------
(* Answers arrive at the page.                                             *)

\* Comments rebuild the view of a source file.
LoadComments(t) ==
    /\ Waits(t, "comments")
    /\ view' = Render(IF IsFile(selection) THEN NoView ELSE view, selection, content, mode)
    /\ UNCHANGED <<files, shown, content, mode, live>>
    /\ Continues(t)
LoadDiff(t) ==
    /\ Waits(t, "diff")
    /\ diff' = TRUE /\ lit' = "none" /\ last' = t
    /\ UNCHANGED <<files, selection, editor, live>>
    /\ Continues(t)
\* A task whose number is the generation loaded the last diff there was.
Mine(t) == IF last = t /\ diff THEN "shown" ELSE "old"
\* Mutant: highlights are stored for any diff of the path.
Highlight_AnyGeneration(t) ==
    /\ Waits(t, "light")
    /\ lit' = IF selection # NoSelection /\ selection.path = tasks[t].path
              THEN Mine(t) ELSE lit
    /\ UNCHANGED <<files, selection, diff, last, editor, live>>
    /\ Continues(t)
Highlight(t) ==
    /\ Waits(t, "light")
    /\ lit' = IF last = t /\ selection # NoSelection /\ selection.path = tasks[t].path
              THEN Mine(t) ELSE lit
    /\ UNCHANGED <<files, selection, diff, last, editor, live>>
    /\ Continues(t)
\* A selected diff whose file is not listed any more is closed.
Refresh(t) ==
    /\ Waits(t, "repository")
    /\ \/ UNCHANGED <<shown, editor>>
       \/ /\ IsDiff(selection)
          /\ selection' = NoSelection /\ diff' = FALSE /\ lit' = Outdated(lit)
          /\ mode' = FALSE /\ UNCHANGED <<last, content>> /\ Rendered
    /\ UNCHANGED <<files, live>>
    /\ Continues(t)
\* After staging, the next file or none; after unstaging, the file again.
Move(t) ==
    /\ Waits(t, "move")
    /\ \/ UNCHANGED <<shown, editor>>
       \/ \E p \in Paths : SelectDiff(p) /\ Rendered
       \/ /\ selection' \in {NoSelection, Selected("diff", tasks[t].path)}
          /\ UNCHANGED <<diff, lit, last, content, mode>> /\ Rendered
    /\ UNCHANGED <<files, live>>
    /\ Continues(t)
Changed(t) ==
    /\ Waits(t, "change")
    /\ UNCHANGED <<files, shown, editor, live>>
    /\ Continues(t)
OpenEditor(t) ==
    /\ Waits(t, "edit") /\ tasks[t].text # NoText
    /\ Fill(tasks[t].text, TRUE)
    /\ UNCHANGED <<files, shown, live>>
    /\ Continues(t)
OpenSource(t) ==
    /\ Waits(t, "source") /\ tasks[t].text # NoText
    /\ Fill(tasks[t].text, mode)
    /\ UNCHANGED <<files, shown, live>>
    /\ tasks' = [tasks EXCEPT ![t] = [Idle EXCEPT !.todo = Tail(tasks[t].todo)]]
\* The editor is closed; a source file that was selected meanwhile is rendered.
CloseEditor(t) ==
    /\ Waits(t, "saved")
    /\ mode' = FALSE
    /\ view' = IF mode THEN Render(NoView, selection, content, FALSE) ELSE NoView
    /\ UNCHANGED <<files, shown, content, live>>
    /\ Continues(t)

\* A request fails, before or after the daemon served it.  loadDiff and refresh
\* catch the error and the function goes on; any other ends it, and the stream.
Fail(t) ==
    /\ tasks[t].todo # <<>> /\ ~Waits(t, "move")
    /\ LET todo == tasks[t].todo IN
       IF Head(todo) \in {"diff", "light"}
       THEN /\ diff' = FALSE /\ lit' = Outdated(lit)
            /\ UNCHANGED <<selection, last, live>>
            /\ Continue(t, IF Head(todo) = "diff" THEN Tail(Tail(todo)) ELSE Tail(todo))
       ELSE IF Head(todo) = "repository"
       THEN UNCHANGED <<shown, live>> /\ Continues(t)
       ELSE /\ UNCHANGED shown /\ live' = (live /\ t # Stream)
            /\ tasks' = [tasks EXCEPT ![t] = Idle]
    /\ UNCHANGED <<files, editor>>
StreamEnds ==
    /\ live /\ tasks[Stream] = Idle /\ live' = FALSE
    /\ UNCHANGED <<files, shown, editor, tasks>>

Init ==
    /\ files \in [Paths -> Texts]
    /\ selection = NoSelection /\ diff = FALSE /\ lit = "none" /\ last = NoTask
    /\ content = NoText /\ mode = FALSE /\ view = NoView
    /\ live = TRUE
    /\ tasks = [t \in Tasks |-> Idle]

Arrive(t) ==
    \/ LoadComments(t) \/ LoadDiff(t) \/ Highlight(t) \/ Refresh(t) \/ Move(t)
    \/ Changed(t) \/ OpenEditor(t) \/ OpenSource(t) \/ CloseEditor(t) \/ Fail(t)
Next ==
    \/ \E t \in Clicks : Click(t)
    \/ \E t \in Tasks : ReadFile(t) \/ AcceptSave(t) \/ Arrive(t)
    \/ CancelEdit \/ Event \/ StreamEnds \/ AgentEdits
Spec == Init /\ [][Next]_vars

------------------------------------------------------------------------------
\* What a running function can still wait for.
Todos ==
    {<<>>, <<"comments">>, <<"repository">>, <<"edit">>, <<"source", "comments">>,
     <<"diff", "light">>, <<"light">>, <<"repository", "diff", "light">>,
     <<"diff", "light", "repository">>, <<"light", "repository">>,
     <<"comments", "diff", "light", "repository">>,
     <<"save", "diff", "light", "repository">>,
     <<"saved", "diff", "light", "repository">>,
     <<"change", "repository", "move", "diff", "light">>,
     <<"repository", "move", "diff", "light">>, <<"move", "diff", "light">>}

\* Every variable stays in its domain, no function waits for anything else than
\* the code does, and no request for a diff, a file, a change or a save goes out
\* without the path of the selection it is about.
TypeOK ==
    /\ files \in [Paths -> Texts]
    /\ selection \in {NoSelection} \cup Selections
    /\ diff \in BOOLEAN /\ lit \in {"none", "shown", "old"}
    /\ last \in {NoTask} \cup Tasks
    /\ content \in {NoText} \cup Texts /\ mode \in BOOLEAN /\ live \in BOOLEAN
    /\ view \in {NoView} \cup Views
    /\ tasks \in [Tasks -> [todo : Todos, path : {NoPath} \cup Paths,
                            text : {NoText} \cup Texts, view : {NoView} \cup Views]]
    /\ \A t \in Tasks, step \in {"diff", "light", "change", "source", "edit", "save"} :
          Waits(t, step) => tasks[t].path \in Paths

\* However diffs and their highlights overlap, the highlights on the screen are
\* those of the diff on the screen: they arrive later than their diff, in any
\* order, and languageGeneration sorts them out (loadDiff).
HighlightsMatch == diff => lit # "old"

\* A save the daemon accepts replaces the very text its editor was opened with,
\* so it loses no change the user has not seen: the view and fileContent, which
\* supplies the fingerprint, are replaced together by every click and answer,
\* unless an answer came in while an editor was on the screen.
Accepts(t) == Waits(t, "save") /\ Waits(t, "saved")'
SavesLoseNothing ==
    [][\A t \in Tasks : Accepts(t) =>
         /\ tasks[t].view # NoView
         /\ tasks[t].view.crossed \/ tasks[t].view.base = files[tasks[t].path]]_vars
==============================================================================
