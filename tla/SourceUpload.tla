---------------------------- MODULE SourceUpload ----------------------------
(***************************************************************************)
(* One problem held twice: the author's directory, read through DirSource, *)
(* and the archive made of it, its entries spelled as archivers spell them *)
(* and inserted one by one into a TarSource (from_entries).                *)
(***************************************************************************)
EXTENDS ProblemSource, FiniteSets

CONSTANTS
  Data, Modes,  \* what a file may hold, and its mode
  Targets,      \* where links lead
  Asked,        \* the paths and prefixes that are asked for
  MaxEntries,   \* bound: entries of the tree, the root and Outside apart
  MaxRewrites   \* bound: files written again once the archive is begun

\* Paths are not empty; "" is one segment.
ASSUME UploadAssumption == Asked \subseteq Seq(STRING) \ {<< >>}

VARIABLES
  folder,      \* the directory
  entries,   \* the TarSource
  left,      \* the files still to be appended to the archive
  phase,     \* "edit", "pack", or "refused" once an entry was refused
  rewrites   \* files written again so far

uploadVars == <<folder, entries, left, phase, rewrites>>

\* A file outside of the root whose bytes are no file's inside.
Secret == "outside"

UploadInit ==
  /\ folder = [p \in {Root, Outside} |->
               IF p = Root THEN Dir ELSE File(Secret, {})]
  /\ entries = NoEntries
  /\ left = {} /\ phase = "edit" /\ rewrites = 0

-----------------------------------------------------------------------------
(* The author.                                                             *)

Put(p, node) == folder' = [q \in DOMAIN folder \cup {p} |-> IF q = p THEN node ELSE folder[q]]

\* A new file, directory or link in a directory that is there.
Make(at, name) ==
  LET p == Append(at, name) IN
  /\ phase = "edit" /\ Cardinality(DOMAIN folder) < MaxEntries + 2
  /\ IsDir(folder, at) /\ Len(at) < MaxDepth /\ ~Exists(folder, p)
  /\ \/ Put(p, Dir)
     \/ \E d \in Data \cup {Unreadable}, m \in Modes : Put(p, File(d, m))
     \/ \E to \in Targets : (to = p \/ ~IsLink(folder, to)) /\ Put(p, Link(to))
  /\ \A q \in DOMAIN folder : IsLink(folder, q) => folder'[q].to # p \/ folder'[p].kind # "link"
  /\ UNCHANGED <<entries, left, phase, rewrites>>

\* A file is written again after the archive was begun: its entry, if it is
\* already there, will be appended a second time.
Rewrite(p) ==
  /\ phase = "pack" /\ rewrites < MaxRewrites
  /\ p \in FilesOf(folder)
  /\ \E d \in Data \cup {Unreadable}, m \in Modes : Put(p, File(d, m))
  /\ left' = left \cup {p}
  /\ rewrites' = rewrites + 1
  /\ UNCHANGED <<entries, phase>>

-----------------------------------------------------------------------------
(* The archive.                                                            *)

\* Only a directory without links is archived.
Begin ==
  /\ phase = "edit"
  /\ \A p \in DOMAIN folder : ~IsLink(folder, p)
  /\ phase' = "pack" /\ left' = FilesOf(folder)
  /\ UNCHANGED <<folder, entries, rewrites>>

\* p, ./p, p with a doubled slash, p with a trailing one.
Spellings(p) ==
  {p, <<".">> \o p, Append(p, ""), <<Head(p), "">> \o Tail(p)}

\* One turn of from_entries: the first entry that is refused drops them all.
\* An archiver appends only what it may read.
Insert(p, path) ==
  LET e == TarInsert(entries, path, folder[p].data, folder[p].mode) IN
  /\ phase = "pack" /\ p \in left /\ folder[p].data # Unreadable
  /\ IF IsOk(e) THEN entries' = e.value /\ left' = left \ {p} /\ UNCHANGED phase
                ELSE entries' = NoEntries /\ left' = {} /\ phase' = "refused"
  /\ UNCHANGED <<folder, rewrites>>

UploadNext ==
  \/ \E at \in DOMAIN folder, name \in Segments : Make(at, name)
  \/ Begin
  \/ \E p \in left : \E path \in Spellings(p) : Insert(p, path)
  \/ \E p \in DOMAIN folder : Rewrite(p)

UploadSpec == UploadInit /\ [][UploadNext]_uploadVars

-----------------------------------------------------------------------------
(* Properties.                                                             *)

\* The archive is complete: its entries are what the directory holds now.
Complete == phase = "pack" /\ left = {}

\* No name in the directory holds a backslash, which insert would rewrite;
\* insert has refused the archive over one that holds a colon.
NamesAreKept == \A p \in DOMAIN folder : ToSet(p) \cap DOMAIN Backslash = {}

\* Both answer the same value, or neither answers one and both or none call
\* the path an escape.
SameAnswer(dir, tar) ==
  IF IsOk(dir) \/ IsOk(tar) THEN dir = tar
  ELSE dir.error = "Escapes" <=> tar.error = "Escapes"

\* path leads to a directory, which an archive has no entry for.
LeadsToDir(path) ==
  LET r == Resolve(folder, path) IN IsOk(r) /\ IsDir(folder, r.value)

\* source.rs:3-6: a rule of the validator sees the same files in the directory
\* and in its archive, whatever spellings and order the archiver chose and
\* whatever was appended twice.  The two are not alike everywhere, and this
\* says where they differ: of a directory the archive knows nothing, while
\* DirSource calls it executable and refuses to read it; what is under a file
\* is an error to list on disk and nothing in an archive; and a prefix of
\* noise ("./") lists nothing on disk and is an error in an archive.
SourcesAgree ==
  Complete /\ NamesAreKept => \A path \in Asked :
    /\ IF LeadsToDir(path)
       THEN TarRead(entries, path) = Failed("NotFound")
            /\ TarIsExecutable(entries, path) = Failed("NotFound")
       ELSE SameAnswer(DirRead(folder, path), TarRead(entries, path))
            /\ SameAnswer(DirIsExecutable(folder, path), TarIsExecutable(entries, path))
    /\ LET dir == DirList(folder, path)
           tar == TarList(entries, path)
       IN  IF IsOk(dir) /\ IsOk(tar) THEN dir.value = tar.value
           ELSE \/ dir.error = "Escapes" /\ tar.error = "Escapes"
                \/ dir.error = "Io" /\ tar = Ok({})
                \/ dir = Ok({}) /\ tar.error = "NotFound"

\* Where the operating system goes with one segment, "." and ".." as it
\* understands them.
Followed(at, s) ==
  IF ~IsOk(at) \/ s \in {"", "."} THEN at
  ELSE IF s # ".." THEN Entered(folder, at, s)
  ELSE IF at.value \in {Root, Outside} THEN Failed("outside")
  ELSE IF IsDir(folder, at.value) THEN Ok(Parent(at.value)) ELSE Failed("Io")

\* Where it arrives from the root along path itself.
Reached(path) ==
  LET at[n \in 0..Len(path)] ==
        IF n = 0 THEN Ok(Root) ELSE Followed(at[n - 1], path[n])
  IN  at[Len(path)]

\* A path that normalize may refuse.
Suspicious(path) == Head(Trimmed(path)) = "" \/ ToSet(path) \cap (Colon \cup {".."}) # {}

\* source.rs:58-60, 120-122: once its backslashes are slashes (source.rs:62), a
\* path is read as the operating system reads it, links and all: read returns
\* the bytes of the file at its end and never those of one outside, and it
\* calls a file inside an escape only if the path is written suspiciously.
ReadsWhatIsNamed ==
  \A path \in Asked :
    LET os == Reached(Slashed(path))
        read == DirRead(folder, path)
        named == IsOk(os) /\ Inside(os.value) /\ ~IsDir(folder, os.value)
    IN  /\ IsOk(read) => named /\ read = Content(folder, os.value)
        /\ named => \/ read = Content(folder, os.value)
                    \/ read.error = "Escapes" /\ Suspicious(Slashed(path))

\* The paths of a listing; none when it is refused.
Listed(prefix) ==
  LET r == DirList(folder, prefix) IN IF IsOk(r) THEN r.value ELSE {}

\* What an entry stands for: itself, or what a link leads to.
End(p) == IF IsLink(folder, p) THEN folder[p].to ELSE p

\* source.rs:48-50, 53-54, 164-165: list answers paths of entries that are no
\* directories, from the root whatever the prefix.  read and is_executable
\* take each of them that is a file or a link to one and answer what that
\* holds, and refuse each link out of the root.  A link to a directory is
\* listed, too, against source.rs:50 ("only files are"), and a read of it says
\* so.  (Paths with a colon, which normalize refuses, and with a backslash,
\* which it rewrites, are left out.)
ListedFilesRead ==
  \A prefix \in Asked : \A p \in Listed(prefix) :
    LET read == DirRead(folder, p)
        exec == DirIsExecutable(folder, p)
        end == End(p)
    IN  /\ p \in FilesOf(folder)
        /\ ToSet(p) \subseteq Names /\ Exists(folder, end) =>
             IF end = Outside THEN read = Failed("Escapes") /\ exec = Failed("Escapes")
             ELSE /\ IsDir(folder, end) =>
                       p # end /\ read = Failed("IsDirectory") /\ exec = Ok(TRUE)
                  /\ folder[end].kind = "file" =>
                       /\ read = Content(folder, end)
                       /\ exec = Ok(ModeIsExecutable(folder[end].mode))
=============================================================================
