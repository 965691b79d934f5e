------------------------------ MODULE Patches ------------------------------
(***************************************************************************)
(* What the daemon and the browser make of one file's diff: ParseDiff      *)
(* numbers its lines, SelectPatch cuts out what a reviewer picked for      *)
(* git apply, and locateComment finds a commented line again.  Three       *)
(* readings of one text, which must agree.                                 *)
(*                                                                         *)
(* The state is the diff, as git writes it line by line, so the properties *)
(* are checked on every diff within the bounds.  Of a line's text only     *)
(* what the readings look at is kept: whether two texts are equal, and     *)
(* whether one begins with two dashes or two plus signs.                   *)
(***************************************************************************)
EXTENDS Naturals, FiniteSets, Sequences

CONSTANTS Texts,     \* texts of lines
          Dashed,    \* those that begin with "--"
          Plussed,   \* those that begin with "++"
          MaxLines,  \* bound on the lines of a diff
          MaxHunks   \* bound on its hunks

ASSUME PatchesAssumption ==
    /\ Dashed \subseteq Texts /\ Plussed \subseteq Texts
    /\ MaxLines \in Nat /\ MaxHunks \in Nat

VARIABLE diff   \* a sequence of hunks: first line numbers, lines

------------------------------------------------------------------------------
\* A line is a mark and a text; "\ No newline at end of file" is one as well.
Line(m, t) == [mark |-> m, text |-> t]
NoNewline == Line("\\", "")
Changed == {"+", "-"}
Marks(side) == IF side = "old" THEN {" ", "-"} ELSE {" ", "+"}

\* How many of the lines of ls before the i-th have one of the marks M.
Before(ls, i, M) == Cardinality({j \in 1..(i - 1) : ls[j].mark \in M})
All(ls, M) == Before(ls, Len(ls) + 1, M)

\* A hunk's header gives the number of its first line in each version, or of
\* the line before it when it has none there.
First(h, side) ==
    IF All(h.lines, Marks(side)) = 0 THEN h[side] - 1 ELSE h[side]

------------------------------------------------------------------------------
(* ParseDiff: what the browser shows.                                      *)

\* OldNo and NewNo of the i-th line of a hunk.
Number(h, side, i) == First(h, side) + Before(h.lines, i, Marks(side))

\* Mutant: ordinals go on from one hunk to the next.
Ordinal_NotReset(n, i) ==
    Before(diff[n].lines, i, Changed)
    + (IF n > 1 THEN All(diff[n - 1].lines, Changed) ELSE 0)
\* Ordinal of the i-th line of the n-th hunk, sent back in a selection.
Ordinal(n, i) == Before(diff[n].lines, i, Changed)

------------------------------------------------------------------------------
(* SelectPatch: the patch of a selection.  No selected line means all.     *)

\* The k-th of the places K, from the first to the last.
Nth(K, k) == CHOOSE i \in K : Cardinality({j \in K : j <= i}) = k

\* A line that was selected, if it is a changed one.
Chosen(ls, i, sel) == sel = {} \/ Before(ls, i, Changed) \in sel

\* Mutant: removed lines that were not selected are left out as well.
Kept_Removed(ls, sel) ==
    {i \in 1..Len(ls) : ls[i].mark \in Changed => Chosen(ls, i, sel)}
\* Of the changed lines that were not selected, an added one is left out ...
Kept(ls, sel) == {i \in 1..Len(ls) : ls[i].mark = "+" => Chosen(ls, i, sel)}
\* ... and a removed one turns into context.
Cut(ls, i, sel) ==
    IF ls[i].mark = "-" /\ ~Chosen(ls, i, sel) THEN Line(" ", ls[i].text) ELSE ls[i]

\* There is no changed line with a selected ordinal.
Refused(ls, sel) == \E s \in sel : s >= All(ls, Changed)
SelectPatch(ls, sel) ==
    [k \in 1..Cardinality(Kept(ls, sel)) |-> Cut(ls, Nth(Kept(ls, sel), k), sel)]

\* The lines at the places K as those of a file, which a newline may not end.
Ended(ls, i) == i = Len(ls) \/ ls[i + 1] # NoNewline
Picked(ls, K) ==
    [k \in 1..Cardinality(K) |->
        LET i == Nth(K, k) IN [text |-> ls[i].text, ended |-> Ended(ls, i)]]
\* The version of a region that its lines on one side make up.
On(ls, side) == {i \in 1..Len(ls) : ls[i].mark \in Marks(side)}
Side(ls, side) == Picked(ls, On(ls, side))

\* git apply --recount, with --reverse for unstage and discard, at the place the
\* patch names: it compares the side it starts from with the file, byte by byte,
\* and to the file's end only if the patch has no context there; the lines it
\* has compared give way to the other side.
From(reverse) == IF reverse THEN "new" ELSE "old"
To(reverse) == IF reverse THEN "old" ELSE "new"
EndsInContext(p) ==
    \E i \in 1..Len(p) :
        p[i].mark = " " /\ \A j \in (i + 1)..Len(p) : p[j] = NoNewline
Fits(p, from, file) ==
    /\ Len(from) <= Len(file)
    /\ EndsInContext(p) \/ Len(from) = Len(file)
    /\ \A i \in 1..Len(from) :
          /\ from[i].text = file[i].text
          /\ \/ from[i].ended = file[i].ended
             \/ i = Len(from) /\ ~from[i].ended /\ EndsInContext(p)

Applies(ls, sel, reverse) ==
    LET p == SelectPatch(ls, sel)
    IN ~Refused(ls, sel) /\ Fits(p, Side(p, From(reverse)), Side(ls, From(reverse)))
Result(ls, sel, reverse) ==
    LET p == SelectPatch(ls, sel)
        from == Side(p, From(reverse))
        file == Side(ls, From(reverse))
    IN Side(p, To(reverse)) \o SubSeq(file, Len(from) + 1, Len(file))

------------------------------------------------------------------------------
(* locateComment: the watcher's search for a commented line.               *)

\* A changed line it takes for the header of a file.
Misread(l) == \/ l.mark = "+" /\ l.text \in Plussed
              \/ l.mark = "-" /\ l.text \in Dashed
Candidate(h, side, i) ==
    First(h, side)
    + Cardinality({j \in 1..(i - 1) : h.lines[j].mark \in Marks(side) /\ ~Misread(h.lines[j])})

Positions == {p \in (1..Len(diff)) \X (1..MaxLines) : p[2] <= Len(diff[p[1]].lines)}
Matches(side, line) ==
    {p \in Positions :
        /\ diff[p[1]].lines[p[2]] = line
        /\ line.mark \in Marks(side) /\ ~Misread(line)}

\* Mutant: the last match is taken, though there may be several.
locateComment_Any(side, line) ==
    IF Matches(side, line) = {} THEN 0
    ELSE LET p == CHOOSE p \in Matches(side, line) :
                    \A q \in Matches(side, line) :
                        q[1] < p[1] \/ (q[1] = p[1] /\ q[2] <= p[2])
         IN Candidate(diff[p[1]], side, p[2])
\* The number of the only match; none, or several, and the comment is outdated.
Outdated == 0
locateComment(side, line) ==
    IF Cardinality(Matches(side, line)) # 1 THEN Outdated
    ELSE LET p == CHOOSE p \in Matches(side, line) : TRUE
         IN Candidate(diff[p[1]], side, p[2])

------------------------------------------------------------------------------
(* git diff: a diff is written from its first line to its last, removed lines *)
(* before added ones.  A version whose last line no newline ends is over.     *)

Last == diff[Len(diff)].lines
Add(ls) == diff' = [diff EXCEPT ![Len(diff)].lines = @ \o ls]
Room(n) == Cardinality(Positions) + n <= MaxLines

\* The sides that an unterminated line has ended.
Over(side) ==
    \E i \in 2..Len(Last) :
        Last[i] = NoNewline /\ Last[i - 1].mark \in Marks(side)
Open(sides) == Len(diff) > 0 /\ \A side \in sides : ~Over(side)
AfterAddition == Len(Last) > 0 /\ Last[Len(Last)].mark = "+"

\* A hunk begins at the top of the file, or with a line of context.
FirstHunk ==
    /\ diff = <<>>
    /\ \/ diff' = <<[old |-> 1, new |-> 1, lines |-> <<>>]>>
       \/ \E t \in Texts : diff' = <<[old |-> 2, new |-> 2, lines |-> <<Line(" ", t)>>]>>
\* Another begins past a line that is not shown.
NextHunk ==
    /\ Open({"old", "new"}) /\ Len(diff) < MaxHunks /\ Room(1)
    /\ Last # <<>> /\ Last[Len(Last)].mark = " " /\ All(Last, Changed) > 0
    /\ LET h == diff[Len(diff)]
           next(side) == h[side] + All(Last, Marks(side)) + 1
       IN \E t \in Texts :
            diff' = Append(diff, [old |-> next("old"), new |-> next("new"),
                                  lines |-> <<Line(" ", t)>>])
Context(t) == Open({"old", "new"}) /\ Room(1) /\ Add(<<Line(" ", t)>>)
Deletion(t) ==
    Open({"old", "new"}) /\ ~AfterAddition /\ Room(1) /\ Add(<<Line("-", t)>>)
Addition(t) == Open({"new"}) /\ Room(1) /\ Add(<<Line("+", t)>>)

\* The last line of a version or of both has no newline; what is left of the
\* other one has been removed before.
Unterminated ==
    /\ Open({"old", "new"}) \/ (Open({"new"}) /\ AfterAddition)
    /\ Last # <<>> /\ Room(1) /\ Add(<<NoNewline>>)

Init == diff = <<>>
Next ==
    \/ FirstHunk \/ NextHunk \/ Unterminated
    \/ \E t \in Texts : Context(t) \/ Deletion(t) \/ Addition(t)
Spec == Init /\ [][Next]_diff

\* git's diffs are complete, with a change in every hunk, and minimal: as many
\* lines stay as the two versions have in common.
Common(a, b) ==
    LET lcs[i \in 0..Len(a), j \in 0..Len(b)] ==
            IF i = 0 \/ j = 0 THEN 0
            ELSE IF a[i] = b[j] THEN lcs[i - 1, j - 1] + 1
            ELSE IF lcs[i - 1, j] > lcs[i, j - 1] THEN lcs[i - 1, j] ELSE lcs[i, j - 1]
    IN lcs[Len(a), Len(b)]
Complete ==
    \A n \in 1..Len(diff) :
        LET ls == diff[n].lines IN
        /\ All(ls, Changed) > 0
        /\ All(ls, {" "}) = Common(Side(ls, "old"), Side(ls, "new"))

------------------------------------------------------------------------------
(* Properties.                                                             *)

\* ApplyPatch takes no lines, which means all of a hunk, or contiguous ones.
Selections(ls) == {{}} \cup {lo..hi : lo, hi \in 0..(All(ls, Changed) - 1)}

\* The region with just the chosen changes made, or undone: the lines of either
\* version that stay, that a choice brings in, or that no choice takes away.
Stays(ls, sel, reverse) ==
    {i \in 1..Len(ls) :
        \/ ls[i].mark = " "
        \/ ls[i].mark = (IF reverse THEN "-" ELSE "+") /\ Chosen(ls, i, sel)
        \/ ls[i].mark = (IF reverse THEN "+" ELSE "-") /\ ~Chosen(ls, i, sel)}

\* Only the last line of a file has no newline.
IsFile(lines) == \A i \in 1..(Len(lines) - 1) : lines[i].ended

\* An unterminated line is a change that was not chosen.
EndUnchosen(ls, sel) ==
    \E i \in 2..Len(ls) :
        ls[i] = NoNewline /\ ls[i - 1].mark \in Changed /\ ~Chosen(ls, i - 1, sel)

DoesJust(ls, sel, reverse) ==
    /\ Result(ls, sel, reverse) = Picked(ls, Stays(ls, sel, reverse))
    /\ IsFile(Result(ls, sel, reverse))

\* A patch action on a diff that is not stale is taken, and does just what was
\* chosen: staging any contiguous lines, and unstaging or discarding a hunk.
\* Left out is a selection next to an unterminated line that is itself a change
\* and not chosen: SelectPatch keeps the "\ No newline" of such a line, and git
\* then joins two lines, drops a newline or refuses the patch.
ActionsExact ==
    \A n \in 1..Len(diff), reverse \in BOOLEAN :
        LET ls == diff[n].lines
        IN \A sel \in IF reverse THEN {{}} ELSE Selections(ls) :
              ~EndUnchosen(ls, sel) => Applies(ls, sel, reverse) /\ DoesJust(ls, sel, reverse)

\* "Discard this block" (web/src/review-templates.ts:128): where git takes the
\* patch of a block, its lines are undone, in the place where they were changed.
\* A block is a run of changed lines as the split view shows it.  Of the diffs
\* only those count whose changes git could not have shown a line up or down.
Blocks(n) ==
    LET ls == diff[n].lines
        apart(i, j) == \E k \in i..j : ls[k].mark \notin Changed
        changes == {i \in 1..Len(ls) : ls[i].mark \in Changed}
    IN {{Ordinal(n, j) : j \in {k \in changes : ~apart(i, k) /\ ~apart(k, i)}} : i \in changes}
Settled(ls) ==
    LET run(i, j) == \E m \in Changed : \A k \in i..j : ls[k].mark = m
        same(i, j) == ls[i].text = ls[j].text /\ " " \in {ls[i].mark, ls[j].mark}
    IN \A i, j \in 1..Len(ls) :
          i < j /\ same(i, j) => ~run(i, j - 1) /\ ~run(i + 1, j)
BlocksDiscarded ==
    Complete => \A n \in 1..Len(diff) : \A sel \in Blocks(n) :
        LET ls == diff[n].lines
        IN Settled(ls) /\ Applies(ls, sel, TRUE) => DoesJust(ls, sel, TRUE)

\* The daemon acts on the line the reviewer sees: the ordinal ParseDiff gave to
\* a changed line selects that line and no other in SelectPatch.
OrdinalsAgree ==
    \A n \in 1..Len(diff) : \A i \in 1..Len(diff[n].lines) :
        diff[n].lines[i].mark \in Changed =>
            LET sel == {Ordinal(n, i)}
                p == SelectPatch(diff[n].lines, sel)
            IN /\ ~Refused(diff[n].lines, sel)
               /\ \E k \in 1..Len(p) :
                     /\ p[k] = diff[n].lines[i]
                     /\ \A m \in 1..Len(p) : p[m].mark \in Changed => m = k

\* A comment stays where the reviewer put it: while the diff is unchanged the
\* watcher finds its line under the number ParseDiff showed, or takes it for
\* outdated because the line is not unique or looks like a file header.  Left
\* out is a line after such a one in its hunk, which the watcher does not count.
CommentsLocated ==
    \A pos \in Positions, side \in {"old", "new"} :
        LET h == diff[pos[1]]
            l == h.lines[pos[2]]
            alone == \A q \in Positions : diff[q[1]].lines[q[2]] = l => q = pos
            misled == \E j \in 1..(pos[2] - 1) :
                          h.lines[j].mark \in Marks(side) /\ Misread(h.lines[j])
        IN l.mark \in Marks(side) /\ ~misled =>
              locateComment(side, l) =
                  IF alone /\ ~Misread(l) THEN Number(h, side, pos[2]) ELSE Outdated
==============================================================================
