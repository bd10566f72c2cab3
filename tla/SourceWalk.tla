----------------------------- MODULE SourceWalk -----------------------------
(***************************************************************************)
(* DirSource::list (source.rs) against a directory somebody edits while it *)
(* is walked: one action per system call.  read_dir answers the names that *)
(* are there when it is called.                                            *)
(***************************************************************************)
EXTENDS ProblemSource, FiniteSets

CONSTANTS
  InitialTree,  \* what the directory holds at first
  AskedFor,     \* the prefixes the caller may ask for
  LinkTo,       \* where a link that is made may lead
  MaxEdits,     \* bound: edits during the call
  NULL

\* Paths are paths of names, and none is longer than the file system takes.
ASSUME WalkAssumption ==
  /\ IsTree(InitialTree) /\ MaxEdits \in Nat /\ NULL # {}
  /\ DOMAIN InitialTree \subseteq Seq(Segments) \cup {Outside}
  /\ \A p \in DOMAIN InitialTree \ {Outside} : Len(p) <= MaxDepth
  /\ AskedFor \subseteq Seq(STRING) \ {<< >>}

VARIABLES
  tree,   \* the directory
  prefix, \* the prefix that is listed
  step,   \* "resolve", "start", "walk" or "done"
  start,  \* the canonical start of the walk, NULL until it is resolved
  stack,  \* the directories being walked, innermost last: [dir, names]
  out,    \* the paths pushed so far
  answer, \* the result, or NULL
  edits,  \* edits so far
  always, \* history: the paths that held a file ever since the call began
  ever,   \* history: the paths that held a file at some time since
  made,   \* history: the paths where a link was made since
  fault   \* history: a system call of the walker failed by itself

walker == <<step, start, stack, out, answer, fault>>
vars == <<tree, prefix, walker, edits, always, ever, made>>

Init ==
  /\ tree = InitialTree
  /\ prefix \in AskedFor
  /\ step = "resolve" /\ start = NULL /\ stack = << >> /\ out = {}
  /\ answer = NULL /\ edits = 0 /\ made = {} /\ fault = FALSE
  /\ always = FilesOf(InitialTree) /\ ever = FilesOf(InitialTree)

-----------------------------------------------------------------------------
(* The walker.                                                             *)

Answer(r) == answer' = r /\ step' = "done"

\* canonicalize, the check that it stays inside, and the early returns.
ResolveStart ==
  LET r == ListStart(tree, prefix) IN
  /\ step = "resolve" /\ UNCHANGED <<stack, out, fault>>
  /\ IF IsOk(r) THEN start' = r.value /\ step' = "start" /\ UNCHANGED answer
     ELSE Answer(IF r.error = "NotFound" THEN Ok({}) ELSE r) /\ UNCHANGED start

\* read_dir of p, which links on its path may lead elsewhere.
Opened(p) ==
  LET real == Canonicalize(tree, p) IN
  IF Len(p) > MaxDepth \/ ~IsOk(real) \/ ~IsDir(tree, real.value) THEN Failed("Io")
  ELSE Ok({Last(q) : q \in {q \in DOMAIN tree \ {Root, Outside} :
                              Parent(q) = real.value}})

\* is_dir follows the links that may be on the way to the start by now; it
\* answers FALSE for what has vanished, and whenever it fails.
CheckStart ==
  LET real == Canonicalize(tree, start)
      isDir == IsOk(real) /\ IsDir(tree, real.value)
  IN
  /\ step = "start"
  /\ \/ /\ isDir
        /\ stack' = <<[dir |-> start, names |-> NULL]>> /\ step' = "walk"
        /\ UNCHANGED <<out, answer, fault>>
     \/ /\ fault' = isDir
        /\ out' = {start} /\ Answer(Ok({start}))
        /\ UNCHANGED stack
  /\ UNCHANGED start

Top == stack[Len(stack)]

\* Mutant: a directory that has vanished is tried again.
ReadDirRetries ==
  LET names == Opened(Top.dir) IN
  /\ step = "walk" /\ stack # << >> /\ Top.names = NULL
  /\ IF IsOk(names)
       THEN stack' = [stack EXCEPT ![Len(stack)].names = names.value]
       ELSE UNCHANGED stack
  /\ UNCHANGED <<step, start, out, answer, fault>>

\* fs::read_dir of the innermost directory.
ReadDir ==
  LET names == Opened(Top.dir) IN
  /\ step = "walk" /\ stack # << >> /\ Top.names = NULL
  /\ IF IsOk(names)
       THEN /\ stack' = [stack EXCEPT ![Len(stack)].names = names.value]
            /\ UNCHANGED <<step, answer>>
       ELSE Answer(names) /\ UNCHANGED stack
  /\ UNCHANGED <<start, out, fault>>

\* canonicalize, read_dir, an entry of it or symlink_metadata fails, whatever
\* is there (EACCES, EMFILE, EIO).
CallFails ==
  /\ step = "resolve" \/ (step = "walk" /\ stack # << >>)
  /\ fault' = TRUE /\ Answer(Failed("Io"))
  /\ UNCHANGED <<start, stack, out>>

\* Mutant: metadata, which follows p itself as well.
MetaFollows(p) ==
  LET at == Canonicalize(tree, p)
  IN  IF IsOk(at) THEN Ok(tree[at.value].kind) ELSE Failed("Io")

\* Mutant: an entry that has vanished is taken for a file.
MetaOptimistic(p) ==
  LET at == Canonicalize(tree, Parent(p))
  IN  IF IsOk(at) /\ Exists(tree, Append(at.value, Last(p)))
      THEN Ok(tree[Append(at.value, Last(p))].kind) ELSE Ok("file")

\* symlink_metadata of p: the parent is followed, the last name is not.
Meta(p) ==
  LET at == Canonicalize(tree, Parent(p))
  IN  IF IsOk(at) /\ Exists(tree, Append(at.value, Last(p)))
      THEN Ok(tree[Append(at.value, Last(p))].kind) ELSE Failed("Io")

\* Mutant: links are left out.
PushedFile(kind) == kind = "file"

\* What walk makes of an entry that is no directory.
Pushed(kind) == TRUE

\* One turn of the loop: the next name, a directory to descend into or a path
\* to push.
Entry(name) ==
  LET p == Append(Top.dir, name)
      meta == Meta(p)
      rest == [stack EXCEPT ![Len(stack)].names = @ \ {name}]
  IN
  /\ step = "walk" /\ stack # << >> /\ Top.names # NULL /\ name \in Top.names
  /\ IF ~IsOk(meta) THEN Answer(meta) /\ UNCHANGED <<stack, out>>
     ELSE /\ IF meta.value = "dir"
             THEN stack' = Append(rest, [dir |-> p, names |-> NULL]) /\ UNCHANGED out
             ELSE stack' = rest /\ out' = IF Pushed(meta.value) THEN out \cup {p} ELSE out
          /\ UNCHANGED <<step, answer>>
  /\ UNCHANGED <<start, fault>>

\* The loop over a directory ends: back to the one it is in.
Leave ==
  /\ step = "walk" /\ stack # << >> /\ Top.names = {}
  /\ stack' = Front(stack)
  /\ UNCHANGED <<step, start, out, answer, fault>>

\* list sorts what was collected and returns it.
Return ==
  /\ step = "walk" /\ stack = << >>
  /\ Answer(Ok(out))
  /\ UNCHANGED <<start, stack, out, fault>>

Walk ==
  /\ \/ ResolveStart \/ CheckStart \/ ReadDir \/ Leave \/ Return
     \/ \E name \in Segments : Entry(name)
  /\ UNCHANGED <<tree, prefix, edits, always, ever, made>>

Fault == CallFails /\ UNCHANGED <<tree, prefix, edits, always, ever, made>>

-----------------------------------------------------------------------------
(* Whoever edits the directory.  A directory that goes and a link that is  *)
(* made in its place are two edits.                                        *)

LinksOf(t) == {p \in DOMAIN t : IsLink(t, p)}

Becomes(t) ==
  /\ tree' = t /\ edits' = edits + 1
  /\ always' = always \cap FilesOf(tree')
  /\ ever' = ever \cup FilesOf(tree')
  /\ made' = made \cup (LinksOf(tree') \ LinksOf(tree))
  /\ UNCHANGED <<prefix, walker>>

\* A new file, directory or link; a link leads to no link, and none to it.
Create(at, name, node) ==
  LET p == Append(at, name) IN
  /\ IsDir(tree, at) /\ Len(at) < MaxDepth /\ ~Exists(tree, p)
  /\ node.kind = "link" =>
       ~IsLink(tree, node.to) /\ \A q \in LinksOf(tree) : tree[q].to # p
  /\ Becomes([q \in DOMAIN tree \cup {p} |-> IF q \in DOMAIN tree THEN tree[q] ELSE node])

\* An entry and all that is below it goes.
Unlink(p) ==
  /\ p \notin {Root, Outside}
  /\ Becomes([q \in {q \in DOMAIN tree : ~IsPrefix(p, q)} |-> tree[q]])

\* A file is renamed over another file or a link, as editors save.
Replace(p, over) ==
  /\ p \notin {over, Outside} /\ over # Outside
  /\ tree[p].kind = "file" /\ tree[over].kind # "dir"
  /\ Becomes([q \in DOMAIN tree \ {p} |-> IF q = over THEN tree[p] ELSE tree[q]])

\* Where q, which is p or below it, is once p is at `to`.
Relocated(p, to, q) == to \o SubSeq(q, Len(p) + 1, Len(q))

\* An entry is renamed into another directory, with all that is below it, none
\* of it a link.
Move(p, at) ==
  LET to == Append(at, Last(p))
      From(q) == IF IsPrefix(to, q) THEN Relocated(to, p, q) ELSE q
      moved == {q \in DOMAIN tree : IsPrefix(p, q)}
      landed == {Relocated(p, to, q) : q \in moved}
  IN
  /\ p \notin {Root, Outside} /\ IsDir(tree, at) /\ ~IsPrefix(p, at) /\ ~Exists(tree, to)
  /\ \A q \in moved : ~IsLink(tree, q)
  /\ \A q \in landed : Len(q) <= MaxDepth
  /\ Becomes([q \in (DOMAIN tree \ moved) \cup landed |-> tree[From(q)]])

Edit ==
  /\ step # "done" /\ edits < MaxEdits
  /\ \/ \E at \in DOMAIN tree, name \in Segments,
           node \in {Dir, File("new", {})} \cup {Link(to) : to \in LinkTo} :
          Create(at, name, node)
     \/ \E p \in DOMAIN tree : Unlink(p)
     \/ \E p, at \in DOMAIN tree : p # Root /\ Move(p, at)
     \/ \E p, over \in DOMAIN tree : Replace(p, over)

Next == Walk \/ Fault \/ Edit

\* The walker is a loop of its own; nobody need edit anything, and no call
\* need fail.
Spec == Init /\ [][Next]_vars /\ WF_vars(Walk)

-----------------------------------------------------------------------------
(* Properties.                                                             *)

\* source.rs:48-50: a listing that succeeds holds every file, link or not,
\* that was under the start for as long as the call took, whatever was
\* created, removed, moved or linked around it, as long as the system calls
\* work: is_dir takes a failing one for a file.
ListsWhatStayed ==
  answer # NULL /\ IsOk(answer) /\ start # NULL /\ ~fault =>
    {p \in always : IsPrefix(start, p)} \subseteq answer.value

\* source.rs:48-50, 154-155: what it holds was a file or a link at that path
\* at some time of the call.  The code breaks both comments in two ways, which
\* are left out: a start that is_dir cannot find is all of the listing, though
\* it may be a directory's path, and a link that was put in a directory's place
\* after symlink_metadata saw it is entered by read_dir.
ListsWhatWas ==
  answer # NULL /\ IsOk(answer) =>
    \/ answer.value = {start}
    \/ \A p \in answer.value : p \in ever \/ \E m \in made : IsStrictPrefix(m, p)

\* source.rs:154-155: without an edit, and as long as the system calls work,
\* the walk answers what is under its start and never fails once it has begun,
\* links that dangle, loop or lead outside included: none of them is followed.
FailsOnlyWhenEdited ==
  answer # NULL /\ edits = 0 /\ ~fault =>
    /\ start # NULL => IsOk(answer)
    /\ answer = DirList(tree, prefix)

\* source.rs:147: every walk ends, whatever vanishes under it.
ListReturns == <>(answer # NULL)
=============================================================================
