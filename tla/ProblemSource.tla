--------------------------- MODULE ProblemSource ---------------------------
(***************************************************************************)
(* The two implementations of the ProblemSource trait (source.rs), as      *)
(* operators: DirSource on a directory tree and TarSource on the entries   *)
(* of an upload.  A path is the sequence of its segments between slashes:  *)
(* "./a//b/" is <<".", "a", "", "b", "">>.  A listing is the set of its    *)
(* paths; the code's order is that of the joined strings in both.          *)
(***************************************************************************)
EXTENDS Integers, Sequences, SequencesExt

CONSTANTS
  Names,     \* segments that name a file or a directory
  Colon,     \* segments that hold a colon and no backslash
  Backslash, \* Backslash[s]: the segments a segment with backslashes falls into
  MaxDepth   \* bound: names in a path (PATH_MAX)

\* What an entry of a directory may be called: Unix takes colons and
\* backslashes, too.
Segments == Names \cup Colon \cup DOMAIN Backslash

ASSUME SourceAssumption ==
  /\ Segments \cap {"", ".", ".."} = {}
  /\ DOMAIN Backslash \cap (Names \cup Colon) = {}
  /\ Names \cap Colon = {} /\ Segments \cup {"", ".", ".."} \subseteq STRING
  /\ Backslash \in [DOMAIN Backslash -> Seq(STRING) \ {<< >>}]
  /\ MaxDepth \in Nat

-----------------------------------------------------------------------------
(* Results.                                                                *)

Ok(v) == [error |-> "none", value |-> v]
Failed(e) == [error |-> e]
IsOk(r) == r.error = "none"

-----------------------------------------------------------------------------
(* normalize.                                                              *)

\* path.replace('\\', "/").
Slashed(path) ==
  FlattenSeq([i \in DOMAIN path |->
    IF path[i] \in DOMAIN Backslash THEN Backslash[path[i]] ELSE <<path[i]>>])

\* trim_start_matches("./"): a leading "." goes while a slash follows it.
Trimmed(path) ==
  LET starts == {i \in DOMAIN path : \A j \in 1..(i - 1) : path[j] = "."}
  IN  SubSeq(path, Max(starts), Len(path))

\* The segments but those in S.
Without(path, S) ==
  FlattenSeq([i \in DOMAIN path |-> IF path[i] \in S THEN << >> ELSE <<path[i]>>])

Normalize(path) ==
  LET trimmed == Trimmed(Slashed(path))
      names == Without(trimmed, {"", "."})
  IN  IF trimmed = <<"">> THEN Failed("NotFound")
      ELSE IF Head(trimmed) = "" \/ ToSet(trimmed) \cap (Colon \cup {".."}) # {}
        THEN Failed("Escapes")
      ELSE IF names = << >> THEN Failed("NotFound")
      ELSE Ok(names)

-----------------------------------------------------------------------------
(* A directory tree: what is at each path from the root, the root being    *)
(* << >> and everything outside of it one file, <<"..">>.  A link leads    *)
(* straight to its end, which may be missing, or to itself.                *)

Root == << >>
Outside == <<"..">>

Dir == [kind |-> "dir"]
File(data, mode) == [kind |-> "file", data |-> data, mode |-> mode]
Link(to) == [kind |-> "link", to |-> to]

Exists(tree, p) == p \in DOMAIN tree
IsDir(tree, p) == Exists(tree, p) /\ tree[p].kind = "dir"
IsLink(tree, p) == Exists(tree, p) /\ tree[p].kind = "link"
Inside(p) == ~IsPrefix(Outside, p)
Parent(p) == Front(p)

\* fs::read of a file: one that may not be read holds Unreadable.
Unreadable == "unreadable"

Content(tree, p) ==
  IF tree[p].data = Unreadable THEN Failed("Io") ELSE Ok(tree[p].data)

\* Every entry is in a directory.
IsTree(tree) ==
  /\ IsDir(tree, Root) /\ Exists(tree, Outside) /\ tree[Outside].kind = "file"
  /\ \A p \in DOMAIN tree \ {Root, Outside} :
       Inside(p) /\ IsDir(tree, Parent(p))

\* Entering `name` from where a resolution has come to.
Entered(tree, at, name) ==
  LET p == Append(at.value, name)
      end == IF IsLink(tree, p) THEN tree[p].to ELSE p
  IN  IF ~IsOk(at) THEN at
      ELSE IF ~IsDir(tree, at.value) THEN Failed("Io")     \* ENOTDIR
      ELSE IF ~Exists(tree, end) THEN Failed("NotFound")
      ELSE IF IsLink(tree, end) THEN Failed("Io")          \* ELOOP
      ELSE Ok(end)

\* fs::canonicalize of a path below the root.
Canonicalize(tree, names) ==
  LET at[n \in 0..Len(names)] ==
        IF n = 0 THEN Ok(Root) ELSE Entered(tree, at[n - 1], names[n])
  IN  at[Len(names)]

-----------------------------------------------------------------------------
(* DirSource.  Each operation here sees one tree; what list does while the *)
(* tree is edited is in SourceWalk.                                        *)

\* Mutant: nobody checks that the end is in the root.
ResolveTrusting(tree, path) ==
  LET rel == Normalize(path)
  IN  IF ~IsOk(rel) THEN rel ELSE Canonicalize(tree, rel.value)

Resolve(tree, path) ==
  LET rel == Normalize(path)
      real == Canonicalize(tree, rel.value)
  IN  IF ~IsOk(rel) THEN rel
      ELSE IF IsOk(real) /\ ~Inside(real.value) THEN Failed("Escapes")
      ELSE real

DirRead(tree, path) ==
  LET r == Resolve(tree, path)
  IN  IF ~IsOk(r) THEN r
      ELSE IF IsDir(tree, r.value) THEN Failed("IsDirectory")
      ELSE Content(tree, r.value)

\* What walk collects from a tree nobody edits: links are entries like files.
FilesUnder(tree, start) ==
  {p \in DOMAIN tree : Inside(p) /\ IsPrefix(start, p) /\ ~IsDir(tree, p)}

\* All the files and links of a tree.
FilesOf(tree) == FilesUnder(tree, Root)

\* list's start: the root for "" and ".", which normalize would refuse.
ListStart(tree, prefix) ==
  IF prefix \in {<<"">>, <<".">>} THEN Ok(Root) ELSE Resolve(tree, prefix)

\* Mutant: the paths are relative to the prefix.
DirListRelative(tree, prefix) ==
  LET start == ListStart(tree, prefix)
  IN  IF start.error = "NotFound" THEN Ok({})
      ELSE IF ~IsOk(start) THEN start
      ELSE Ok({SubSeq(p, Len(start.value) + 1, Len(p)) :
                 p \in FilesUnder(tree, start.value)})

DirList(tree, prefix) ==
  LET start == ListStart(tree, prefix)
  IN  IF start.error = "NotFound" THEN Ok({})
      ELSE IF ~IsOk(start) THEN start
      ELSE Ok(FilesUnder(tree, start.value))

\* A mode is the set of those who may execute: user, group, other.
ModeIsExecutable(mode) == mode # {}

\* A directory has its search bits set.
DirIsExecutable(tree, path) ==
  LET r == Resolve(tree, path)
  IN  IF ~IsOk(r) THEN r
      ELSE Ok(IsDir(tree, r.value) \/ ModeIsExecutable(tree[r.value].mode))

-----------------------------------------------------------------------------
(* TarSource: a function from normalized paths to entries.                 *)

NoEntries == [p \in {} |-> << >>]

\* BTreeMap::insert: the last entry of a path wins.
TarInsert(entries, path, data, mode) ==
  LET key == Normalize(path)
  IN  IF ~IsOk(key) THEN key
      ELSE Ok([p \in DOMAIN entries \cup {key.value} |->
                 IF p = key.value THEN [data |-> data, mode |-> mode]
                 ELSE entries[p]])

TarGet(entries, path) ==
  LET key == Normalize(path)
  IN  IF ~IsOk(key) THEN key
      ELSE IF key.value \notin DOMAIN entries THEN Failed("NotFound")
      ELSE Ok(entries[key.value])

TarRead(entries, path) ==
  LET r == TarGet(entries, path) IN IF IsOk(r) THEN Ok(r.value.data) ELSE r

\* Mutant: only what is below the prefix, not the prefix itself.
TarListBelow(entries, prefix) ==
  LET key == Normalize(prefix)
  IN  IF prefix \in {<<"">>, <<".">>} THEN Ok(DOMAIN entries)
      ELSE IF ~IsOk(key) THEN key
      ELSE Ok({p \in DOMAIN entries : IsStrictPrefix(key.value, p)})

TarList(entries, prefix) ==
  LET key == Normalize(prefix)
  IN  IF prefix \in {<<"">>, <<".">>} THEN Ok(DOMAIN entries)
      ELSE IF ~IsOk(key) THEN key
      ELSE Ok({p \in DOMAIN entries : IsPrefix(key.value, p)})

TarIsExecutable(entries, path) ==
  LET r == TarGet(entries, path)
  IN  IF IsOk(r) THEN Ok(ModeIsExecutable(r.value.mode)) ELSE r
=============================================================================
