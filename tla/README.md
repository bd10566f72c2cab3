# A TLA+ development for satunera

satunera judges programming exercises. The repository holds two crates: the
*contracts* (`crates/satunera-contracts`: what a problem author and the platform
owe each other) and the *store* (`crates/satunera-store`: what the platform
keeps). This directory models what they do, checks the models on small instances
with TLC, and proves some of the results for every instance with TLAPS.

Run a check with `tlc -config store_calls.cfg MCStore`, a proof with
`tlapm StoreProofs.tla`. `PROJECT.json` ties every definition to the lines it
models, every run to its properties, and every property to a mutant of the code
that breaks it.

## 1. The system

| Component | Source | State it keeps | Operations |
|---|---|---|---|
| `SqliteStore` | `satunera-store/src/sqlite.rs` | an SQLite file (WAL), a pool of at most five connections, one write lock, a transaction per writer | the `Store` methods: `create_user`, `replace_problems`, `create_submission`, `set_submission_status`, `finish_submission`, `record_run`, and the reads |
| `Store` trait | `store.rs`, `error.rs` | – | what the methods promise, and the errors |
| Schema | `migrations/0001_initial.up.sql` | five tables, unique keys, foreign keys, CHECKs | statements |
| Lifecycle, verdicts | `model.rs`, `satunera-contracts/src/verdict.rs` | – | `can_transition_to`, `is_accepted`, `is_infrastructure` |
| Ids | `store/src/id.rs` | – | `generate`: a ULID, milliseconds then random bits |
| `FsBlobStore` | `blob.rs` | files `<key>` and `<key>.tmp` | `put`, `get` |
| Verdict output | `verdict.rs`, `docs/validation-contract.md`, `schemas/verdict.schema.json` | – | `from_stdout`, `from_line`, `truncate`, `reconcile`, `verdict` |
| Schemas | `schema.rs`, `schemas/*.json` | compiled validators | `validate` |
| Manifests | `lib.rs`, `problem.rs`, `config.rs`, `error.rs` | – | `load_problem`, `load_config`, `referenced_problems` |
| `ProblemSource` | `source.rs` | `DirSource`: a directory; `TarSource`: an archive read into memory | `read`, `list` (with `walk`), `is_executable`, `normalize`, `from_entries` |
| Names | `env.rs`, `contracts/src/id.rs` | – | constants, newtypes |
| API server, runner, validator, Author Studio | named by the docs, not in the repository | – | call all of the above |

How they interact:

- The API server and the workers of the runner call `Store` from many tasks at
  once. The tasks share the pool and SQLite's single write lock, nothing else.
  Every write method is either one INSERT or one `BEGIN IMMEDIATE` transaction.
- The runner puts sources and logs into the blob store and keeps the uris in
  `submissions` and `runs`. Nothing joins the two in one transaction.
- `validation.sh` prints lines and exits; `verdict.rs` turns both into a
  `Verdict`, which the runner hands to `finish_submission`.
- At boot the catalog is read through a `ProblemSource`, checked, and given to
  `replace_problems`; `in_flight_submissions` lists the work a crash interrupted.

What is hard about it, and which properties answer for it, component by component
(`PROJECT.json` lists each hazard at its line):

- **SqliteStore.** Calls interleave between any two statements; each may fail,
  time out, be dropped by its caller or die with the process. Two judges may
  finish one submission; a catalog may drop a problem while a submission to it
  comes in; `finish_submission` writes two tables. It is correct when a method
  takes effect once or not at all and its answer tells which (`MethodsAreAtomic`,
  `OkIsKept`), writers exclude each other (`OneWriter`), one finish wins
  (`OneFinishWins`), `user_progress` is always the tally of the submissions
  (`ProgressMatches`), rows move only forward and their times are in order
  (`LegalHistory`, `TimesTold`), nothing dangles (`References`), the catalog is
  whole (`CatalogAllOrNothing`), and nobody waits for ever (`CallsReturn`,
  `LockIsReleased`).
- **Rows.** What a writer gave was typed; what a reader finds is text and integers,
  written by several statements, read by others, and maybe edited by hand. It is
  correct when a row nobody edited reads back as what its writers meant
  (`ReadsBack`), enums and CHECKs name the same texts (`BothSidesAgree`), and the
  recovery scan answers just the unfinished submissions or fails
  (`ScanFindsTheUnfinished`).
- **FsBlobStore.** A put writes and then renames; it may be cut short anywhere,
  and what it handed to a blocking thread goes on without it. It is correct when
  a key holds one whole payload (`NeverTorn`), put and get look like single steps
  to their callers (`PutsAndGetsAreAtomic`), a blob is never lost (`NeverLost`) and
  what other puts left stops none (`SecondPutSucceeds`).
- **The two stores together.** A submission's row, its logs, its runs and its
  verdict are written by separate calls, with crashes in between. Whoever uses the
  stores as their comments say gets: no run without its own log (`LogsOfRuns`),
  retries only after an infrastructure verdict (`RetriesAreEarned`), the last run's
  verdict (`VerdictIsOfLastRun`), and a verdict for every submission (`AllJudged`).
- **Verdict output.** The last line, the exit code, the truncation and the
  narrowing to `u32` must together never accept or reject a submission by
  mistake (`ExitCodeDecides`), reject it without a reason (`RejectionsExplain`),
  report another testcase (`TestcaseIsPrinted`), or blame a stray key
  (`StrayKeysCostNothing`).
- **ProblemSource.** A rule of the validator reads one problem through two
  implementations, and through links, odd spellings and a directory that changes.
  It is correct when both answer alike, or differ in a known way (`SourcesAgree`), a
  path reads the file it names and none outside (`ReadsWhatIsNamed`), what is listed
  can be read or is refused for a reason (`ListedFilesRead`), and a listing misses
  nothing that stayed, invents nothing, fails only because of an edit or of a failing
  system call, and ends (`ListsWhatStayed`, `ListsWhatWas`, `FailsOnlyWhenEdited`,
  `ListReturns`).
- **Manifests.** Schema and types are written twice. What the schema lets pass the
  types must take (`SchemaImpliesTypes`), a report must name everything there is to
  repair (`OneRoundOfFixes`), an absent block must mean an empty one
  (`OmittedIsEmpty`), and a problem is referenced once (`ReferencedOnce`).

## 2. The modules

| Module | What it is |
|---|---|
| `Lifecycle` | statuses and verdict codes, and the predicates on them |
| `Tables` | a database as a value; one operator per writing SQL statement, and what the schema demands of it (`Can...`) |
| `StoreCalls` | the calls a client may make, the reads, and what a sound database is |
| `StoreSpec` | the abstract store: `Request`, `Perform` (one atomic step), `GiveUp`, `Forget` |
| `SqliteStore` | the store as it runs: tasks, pool, lock, transactions, statements |
| `StoreProperties` | its properties, and the refinement mapping to `StoreSpec` |
| `MCStore` | small instances of it |
| `Rows`, `MCRows` | the columns of every table as each statement binds them, as they are declared and CHECKed, and as each read decodes them |
| `BlobStore`, `MCBlob` | the blob store by system call, its properties, its instances |
| `BlobSpec` | the abstract blob store: a put or a get takes effect in one step |
| `Judge`, `MCJudge` | learners and workers over `StoreSpec` and atomic blobs, with crashes and the recovery scan |
| `VerdictOutput`, `MCVerdict` | a run of `validation.sh` and its interpretation |
| `ProblemSource` | trees with links, `normalize`, `DirSource` and `TarSource`, as operators |
| `SourceUpload`, `MCSource` | a directory under construction and the archive made of it |
| `SourceWalk`, `MCWalk` | `DirSource::list` by system call while the directory changes |
| `Manifests` | JSON values, the two schemas, serde's types, `load` and `referenced_problems` |
| `Authoring`, `MCAuthoring` | an author who edits, loads and repairs a manifest |
| `DatabaseTheorems` | lemmas about the statements: their types, and that they keep a database sound |
| `StoreProofs` | theorems about `SqliteStore`: types, the write lock, the committed database, answers, histories and the refinement to `StoreSpec` |
| `DecodingProofs` | theorems about what is decoded: `VerdictOutput` and `Rows` |
| `BlobProofs` | theorems about `BlobStore`, and the refinement to `BlobSpec` |
| `JudgeProofs` | theorems about `Judge` |
| `TreeProofs` | lemmas on paths, trees, `normalize` and `canonicalize` |
| `SourceProofs` | theorems about `SourceUpload` and `SourceWalk` |
| `AuthoringProofs` | theorems about `Authoring`: schemas and types, reports, defaults, references |

### SqliteStore

A *task* is one call in flight, a future being polled. `stage[t]` is the await
point it is at; an action is what the code does from one await point to the next.

| Action | Code |
|---|---|
| `Invoke` | the head of a method up to its first await. `create_submission` has its id and `created_at` from here on, long before the INSERT |
| `Acquire`, `PoolTimeout` | the pool lends one of `MaxConnections` connections, or gives up |
| `Begin`, `BusyTimeout` | `begin_immediate` takes the write lock, or `busy_timeout` expires |
| `BeginUnclaimed` | a BEGIN whose caller has gone comes through after all, and is rolled back |
| `CreateUser`, `CreateSubmission`, `RecordRun` | the single INSERTs, with the mapping of constraint errors to `Conflict` |
| `UpsertRow`, `SelectProblems`, `DeleteRow` | `replace_problems`, row by row |
| `SelectStatus`, `UpdateStatus` | `set_submission_status` |
| `SelectFinish`, `UpdateDone`, `UpdateUserProgress`, `InsertUserProgress` | `finish_submission` |
| `Commit`, `Rollback` | `tx.commit()`; the drop of a `Transaction` |
| `StatementFails` | SQLite fails a BEGIN, an INSERT, a statement or the COMMIT, and `?` returns |
| `CorruptRow` | a stored status does not parse, or an `updated_at` does not format |
| `Cancel` | the caller drops the future: what was not sent never runs and a transaction is rolled back, but an INSERT or a COMMIT that was sent runs on in the connection's thread (`dropped`) |
| `Return` | the answer is delivered |
| `Crash` | the process dies, only committed data survives, the store is opened again |
| `Tick` | the wall clock |

`db` is the committed database. `view[t]` is what the transaction of `t` sees, a
copy of `db` made at BEGIN and changed by its statements. Readers are no tasks:
under WAL a SELECT sees one committed state, so a read is an operator on `db`
(`InFlight`, `HistoryBefore`, `LatestVerdictForHash`) and an invariant of `db`
says what it can return. Opaque columns (password hash, language, uris, timings,
output) are left out. `MillisOf` gives the millisecond a ULID carries; ids of one
millisecond are picked in any order.

Two abstractions to know of. The clock is monotone, though the code reads a wall
clock that an administrator may set back; `TimesTold` says nothing about such a
day. A crash is a process crash: what SQLite committed is on disk (that is
SQLite's promise under WAL, not the code's).

### BlobStore

Directory entries (`final`, `temp`) point at inodes (`data`), because a rename
moves an entry while open descriptors keep their inode. `tokio::fs::write` is
`Open` (create or truncate), `Write` once per piece, `Close`; then `Rename`, which
answers `Refused` when another put has taken the `.tmp` away. Any of them may fail
for a reason of its own (`WriteFails`, `RenameFails`, `ReadFails`: answer `Io`). A
`Cancel` either drops what was not handed over, or leaves the blocking thread at
work with nobody waiting. `Crash` keeps the files.

`MaxWriters` bounds how many puts may use one key's `.tmp` at a time. The code
has no such bound. `blob_put` takes 1 and shows what holds when clients keep to
it; `blob_torn` takes 2 and shows what happens when they do not.

### VerdictOutput

A line is kept as what the parser tells apart: blank, not JSON, a scalar, or an
object whose `ok`, `message` and `testcase` are absent, null, of the wrong type or
a value. A message is its length and the index of its first visible character;
truncation, blankness and the ellipsis depend on nothing else. The ellipsis is
visible for `from_line`, as `trim` leaves it, but it is none of the script's own
characters (`Tells`), so it tells a learner nothing.

### Rows

Values and cells are kept apart. A value is a generated id, an instant, an integer or
a variant of an enum; a cell is a text, an integer or NULL. `Bound`
says what each INSERT binds to a column, or has in its SQL (`'QUEUED'`), `Columns` what
each read makes of it, and the migration gives `Nullable`, `Integral` and `Checks`, so
that three descriptions written in three places can disagree. `Encode` is `to_string`,
`as_str`, `format`; `Decode` is `from_str`, `parse` (which looks through `ALL`),
`parse_ts` and `try_from`, and gives no value where they fail. Integers keep a width
(`Half` stands for 2^31) in columns that take any. What the `ulid` and `time` crates do
is two pairs of functions, `UlidText`/`UlidOf` and `Rfc3339`/`InstantOf`, about which
`RowsAssumption` says only that what was written is read; other texts may parse, too.

`stored` has the cells, `meant` the values the writers gave or were answered. `Insert`,
`SetStatus`, `Finish` and `Count` are the statements; `Count` adds one to an integer that
is there, up to `MaxAttempts`. (After 2^32 counted attempts of one learner at one problem
the row would be corrupt.) `InsertFails` is `replace_problems` with an instant RFC 3339
cannot say: CorruptRow answers a write there, though error.rs:28-30 speaks of a row that
was read. `Edit` is a hand in the sqlite3 shell, which the CHECKs bind too. `Record` is
what every read makes of a row, the empty set being CorruptRow. Opaque text columns are
left out: nothing decodes them.

### BlobSpec

A call is pending, takes effect once, or is forgotten; `PutsAndGetsAreAtomic` is the
refinement, with a get taking effect where it opens the file and a put where it
renames. It holds because a rename never changes an inode that a get has open, and
`MaxWriters` is 1.

### Judge

The repository has no server and no runner. `Judge` is the smallest pair that does
what the comments of the two stores say they are for: look for a prior verdict,
create the row, queue it; take a job, read its runs, claim, run, put the log, record,
and finish with the last run's verdict or make another attempt
(`MAX_AUTOMATIC_RETRIES`). A call of the database has the effect `StoreSpec` gives it,
in one step, which `MethodsAreAtomic` shows of `SqliteStore`; a blob put is one step,
which `PutsAndGetsAreAtomic` shows. Its callers are mapped as external; the predicates
and the scan they ask are the code's. A request that dies after its row is found by the
scan. When the source is put is left out: nothing here depends on it, and no code says.

`Judge` keeps to two rules the stores do not enforce: one process, and a submission
in one pair of hands. Nothing in a row names its worker, so a worker that was given
up on could still move the submission of its successor; the code has no fencing to
model.

### ProblemSource, SourceUpload, SourceWalk

A path is the sequence of its segments between slashes, so that `./`, `//`, `..`,
colons and backslashes are values of segments. Unix takes colons and backslashes in the
names of files, so `Segments` has both. A tree maps paths to directories, files and
links; everything outside the root is one file. A link leads straight to its end (chains
of links are the operating system's affair), which may be missing, outside, or itself. A
file that may not be read holds `Unreadable`. Names of a directory and the order of a
listing are sets: both sources sort the same strings.

`SourceUpload` builds every tree up to a size and, when it has no links, appends its
files to an archive, in any order and spelling, some of them again after they
changed. Where the two sources differ, `SourcesAgree` says how: of a directory the
archive knows nothing (`NotFound`), while `DirSource` calls it executable and refuses to
read it; a listing under a file is an error on disk and empty in an archive; a prefix of
noise (`./`) is empty on disk and an error in an archive. A name with a backslash becomes
another name in the archive (`NamesAreKept` leaves it out), and one with a colon makes
`from_entries` refuse the archive.

`read` and `is_executable` see one tree, `canonicalize` included: what happens between
their system calls is left out. `SourceWalk` has one action per system call of `list`.
`canonicalize` with the checks after it is one step, and `read_dir` a snapshot of the
names. Files, directories and links are created, removed, moved and renamed over each
other, two edits in a call, so a directory may become a link between any two system
calls; every path is followed anew through whatever links there are by then.
`CallFails` is a system call that fails whatever is there (EACCES, EMFILE, EIO); the
walker passes that on, except for `is_dir`, which has no errors and answers FALSE.
`always`, `ever`, `made` and `fault` are history variables of the properties. Names are
UTF-8 (`to_string_lossy` would change others).

### Manifests, Authoring

A schema is a record of its keywords and a Rust type a record of its fields, and
`Violations` and `Accepts` interpret them, so the two passes can disagree. Both go over
the *nodes* of a document: a value, the part of the schema or type that describes it,
and its JSON pointer. The described part of a manifest is five levels deep (the
document, its lists, their structs, the lists in these, and the slugs in those), so
`Nodes` takes four steps down and needs no recursion; `Typed` likewise builds
the loaded value from the inside out. Of a string the model keeps whether it is a slug
and its length; of a number whether it is written without a fraction. The two files and
their schemas are translated in full; `$schema`, titles and descriptions constrain
nothing.

`Edit` writes a value at a key of the document, or of a block of it, or takes away what
is there; what is deeper is written together with the key above it. `Repaired` is an
author who does what the report says and no more: in the document and in its blocks a
missing key is added and an unknown one removed, and any other part that a pointer of the
report names is written anew from `Good`. `Spoil` loses the file or its syntax.

## 3. The runs

| Run | Question | Bounds |
|---|---|---|
| `store_calls` | does every call take effect once or not at all, and is the database sound throughout? | two tasks, two submissions of one learner, two problems, nine calls: creations, restarts, finishes with an accepted, a rejected and an infrastructure verdict, a catalog that drops the problem in use and retitles the other, one that breaks a CHECK; two instants |
| `store_live` | does every call return? | three tasks on two connections, one method of each shape |
| `blob_put` | is a blob whole, readable and kept, and are put and get atomic? | two tasks, a source and a log, payloads of two pieces |
| `verdict_lines` | is the verdict what the contract says? | two lines out of some 270, both exit codes, messages of 2 characters forwarded whole, `u32` of two bits |
| `judge_runs` | is every submission judged, once and rightly, whatever dies? | one learner, two workers, two submissions of the same source, three attempts, two faults (crashes or failed calls) |
| `source_trees` | do the two sources answer alike, and does a path read what it names? | three entries, depth two, links to an entry, below one, and out; names with a colon and a backslash, files that may not be read; 25 spellings of paths; one file written again |
| `source_walk` | what does a listing promise while the directory changes, and does every listing return? | three links (to the directory they are in, to nothing, out), files at two depths, five starts (one that is missing, one that leads out), two edits, new links lead to the root |
| `manifests` | do schema, types and defaults agree? | both files; two edits, each writing or removing a key of the document or of one of its blocks; values on both sides of every limit |
| `rows_decode` | does every row read back, or fail loudly? | two rows of every table, integers of two bits, two spellings of an id and of an instant, one instant that does not format, three counted attempts, one column edited |
| `store_done` (violation) | is `DONE` where the verdict is set? | two tasks, one submission, creation, moves and a finish |
| `store_history` (violation) | is the history newest first? | two ids of one millisecond, two instants in it |
| `blob_torn` (violation) | is a blob whole when puts of its key overlap? | two puts |

Why the bounds are enough to be interesting: there is one write lock, so what can
go wrong between transactions goes wrong between two of them; a third task matters
only where it competes for a connection, and `store_live` has it, with the two
methods `store_calls` leaves out (`create_user`, `record_run`). Progress counts
per learner and problem, so two submissions of one learner reach first, second,
accepted and rejected verdicts in either order. A put has two pieces so that there
is a moment when half of it is written. Two lines are a log and a last line, or a
last line and a blank. Two faults are a crash in the middle of the recovery from
another, or a failed call on either side of one; three attempts are the retries
there are, and two workers the least that can collide. Three entries of depth two
hold a directory, a file in it, and a link to it or out. Two edits are a repair
undone, an entry removed and made again as a link, or two violations in one report. A hand
that edits two columns shows nothing that one does not, since columns decode on
their own. The theorems of section 5 do not depend on these bounds.

Symmetry in tasks, inodes and keys is used in safety runs only. Deadlock is
checked where the system goes on for ever; it is off in `judge_runs`, `manifests`,
`rows_decode`, `verdict_lines` and `store_history` (everything judged, written,
decided or created), and in `source_trees` and `source_walk` (nothing left to insert,
the call answered).

**Fairness.** `store_live` assumes `WF_vars(Step(t))` for every task: the runtime
polls a future that can go on, and both timeouts do expire. Nothing is assumed of
`Tick`, `Invoke`, `Cancel`, `StatementFails`, `CorruptRow` or `Crash`. The pool hands out
connections, and SQLite its lock, in any order; a task that is overtaken for ever
is saved by its timeout, as in the code. The return of `replace_problems`, which has
the same shape as the other transactions, is not among its calls.

`judge_runs` assumes that a request or a worker that can go on does, and that a dead
process is started again (`WF_vars` of `Serve`, `Work` and `Boot`); `Crash` and `Fail`
are bounded by `MaxFaults` because a process that always dies judges nothing.
`source_walk` assumes that the walker, a loop on a thread of its own, goes on
(`WF_vars(Walk)`), and nothing of the edits, of which there are finitely many, or of
system calls that fail (`Fault` is no part of `Walk`); the walk also ends because paths
have a greatest length.

## 4. What the code does otherwise

Three violation runs each show a disagreement between a document and the code
(`findings` quotes the lines):

1. `store_done`: `set_submission_status` accepts `DONE`. The row is terminal without a
   verdict, no method can repair it, and the recovery scan does not list it.
2. `store_history`: the history is ordered by ULID, whose low bits are random within a
   millisecond, so two quick submissions may come back in the wrong order.
3. `blob_torn`: two puts of one key share one `.tmp`, so a rename may publish a file that
   the other put has just truncated. One put after the other is safe.

Others were met while modelling. No run is kept for them; the models show them, and the
properties leave them out where they say so:

4. Of two puts of the same bytes at the same time the slower finds no `.tmp` to rename
   (blob.rs:124) and fails, where blob.rs:49-50 promises a no-op. (`SecondPutSucceeds` is
   checked and proved for one put of a key at a time.)
5. Whether a message is blank is asked after it was cut and given an ellipsis
   (verdict.rs:251). A rejection whose first 500 characters are white space tells nothing,
   where verdict.rs:161-163 wants every rejection to. (`RejectionsExplain` says of a
   longer message only that what can be seen in its first characters is not lost.)
6. A backslash in a path is rewritten to a slash (source.rs:62), where source.rs:41-42
   promises to reject what is no proper path; a file whose name has one cannot be read.
   (`ReadsWhatIsNamed` speaks of the path with slashes, and `SourcesAgree` of directories
   without such names.)
7. `walk` lists a link to a directory (source.rs:161), where only files are to be listed
   (source.rs:50). (`ListedFilesRead` states that a read of it answers `IsDirectory`.)
8. A directory that vanishes before `is_dir` is listed as a file (source.rs:211 against 50).
9. A directory that is replaced by a link between `symlink_metadata` and `read_dir`
   (source.rs:142) is entered, where links must not be (source.rs:154-155). The walk still
   ends. (`ListsWhatWas` names this and the last as its two exceptions.)
10. `from_line` refuses verdicts the schema accepts (verdict.rs:7-9 promises the
    reverse): a white-space message, a testcase of 2^32, a testcase written `2.0`.
11. JSON Schema counts `30.0` as an integer and serde does not, so such a limit is a
    `Model` error, which error.rs:62-64 says no author can fix.
    (`SchemaImpliesTypes` and `OneRoundOfFixes` ask for whole numbers.)
12. The listing of a prefix that is a link has the paths under the link's target, not
    under the prefix (source.rs:48-49).
13. `list("./")` is empty in a directory and NotFound in an archive; `is_executable` of a
    directory is true on disk and NotFound in an archive. (`SourcesAgree` states both.)

## 5. What is proved

Every safety and action property that a passing run checks is a theorem here, for any
number of tasks, rows, keys, values, entries, paths and edits.
Assumptions, all named in the modules, and evaluated by TLC in their runs:

- `TablesAssumption`: NULL is no value, ids are finitely many and ordered;
- `CallsAssumption`: calls are well-typed, and NULL is no call and no answer;
- `StoreAssumption`: at least one connection; the file is well-typed and sound when
  opened, as an empty one is; ULIDs order by millisecond;
- `VerdictAssumption`; `BlobAssumption`: a payload has a piece, and NULL is none of
  the values; `RowsAssumption`: the `ulid` and `time` crates read back what they wrote,
  what the clock gives can be written, writers insert values of the types that are bound,
  the counted attempts fit in a `u32`, and NULL is none of the values;
- `JudgeAssumption`: learners are no workers, their calls are calls of the store, three
  attempts can be numbered, and the judge starts before anything is submitted;
- `SourceAssumption`: segments are strings; plain ones, those with a colon and those with
  a backslash are told apart, the last fall into segments, and none of them has a
  special meaning; the length of a path is bounded;
  `WalkAssumption`: the directory is a tree when the call begins, of paths no longer than
  that, what is asked for is a path, and NULL is no set of names; `UploadAssumption`:
  what is asked for is a path;
- `JsonAssumption`: a JSON number is a number, and what a JSON array or object holds is
  JSON; `AuthoringAssumption`: the author has a complete manifest that breaks no rule to
  repair from, writes JSON, and writes it at pointers of one or two keys.

`StoreProofs`, types and the lock: `TypeCorrect` and `WritersExclude`. `TypeOK` is not inductive: that
a statement finds the call, the id and the view it works on follows from the stage
only. `TypeInv` adds that (`TaskOK`) and the lock discipline (`OneWriter`); the
proof has one step per action and under it one per part of the invariant.

`StoreProofs`, the committed database: `ProgressIsExact`, `NothingEverDangles` and `TimesStayInOrder`, that is
`ProgressMatches`, `References` and `TimesTold` for any number of tasks, learners,
problems and submissions. The soundness of `db` is not inductive: COMMIT makes `db`
what a private view is. `SafeInv` therefore adds what each task holds at its stage
(`Held`): its view is sound and lists the submissions of `db`; between a SELECT and
its UPDATE the move it checked is still legal; and between the two writes of
`finish_submission` the tally lacks exactly the verdict just written (`Almost`),
which the write of `user_progress` then adds (`TallyGrows`). A submission may be
inserted only while no transaction is open, and under an id that no other call has
(`MintedOnce`), so no view ever misses one. `DatabaseTheorems` proves statement by
statement what each step needs. That `created_at`, read before the INSERT, and
`solved_at`, read before the tally, are still in the past when committed is
`SoundLater`: what was in order stays so as the clock goes on.

`DecodingProofs`, verdicts: `ExitDecides`, `RejectionsAreExplained`, `TestcasesArePrinted`,
`StrayKeysAreFree`, for scripts of any length and any line. The invariant ties
`output` and `error` to the last spoken line (`Parsed`, `Refused`) and the verdict
to both (`Answered`). That a last spoken line exists is `LastSpoken`: a non-empty
set of indices has a greatest element.

`BlobProofs`: `WholeBlobs` (`NeverTorn`) and `BlobsStay` (`NeverLost`), for any number
of tasks, keys, payloads and pieces, when the tasks are finitely many and `MaxWriters`
is 1; `blob_torn` shows that 2 is one too many. `NeverTorn` is not inductive: a rename
publishes whatever the `.tmp` holds. `Inv` adds that a `.tmp` has one owner
(`Exclusive`), that no two directory entries share an inode (`Separate`), and how much
of its payload an owner's file holds at each stage (`PutOK`). Gets, failures, dropped
calls and crashes are one lemma (`QuietStep`): they touch no file and only let go.

The refinement of `BlobSpec` (`BlobStoreIsAtomic`) and `SecondPutSucceeds`
(`NoPutIsRefused`), under the same condition, need to know in addition what callers hold (`SeenInv`). A get
reads an inode piece by piece while its entry may be renamed over: `Reading` says that
the inode is one whole file, that no `.tmp` is it, hence that nobody writes it any more,
and that what has been read is the beginning of it. A put that has come to its rename
has its `.tmp`, so only an error of the rename itself can fail it. Then a put maps to its step of `BlobSpec` at the rename, a get where it
opens the file, and all else to a stutter or to the failure of a call.

`StoreProofs`, answers and atomicity: `StoreIsAtomic` (`MethodsAreAtomic`), `HistoryIsLegal`,
`CatalogsAreWhole`, `OkIsTrue` (`OkIsKept`) and `FinishWinsOnce` (`OneFinishWins`).
`SafeInv` says that a view is sound, not what it is. `WorkInv` adds that (`Work`):
since nobody else can write between BEGIN and COMMIT, the view is `db` with exactly what
the statements of this call have done so far, after which COMMIT is `Perform` of the
abstract store. For `replace_problems` that is said row by row (`Catalogued`: the last
row about a problem wins, a problem without a row goes if nothing refers to it), since
its loop is no single statement. A transaction that rolls back has the answer that
`AnswerTo` gives on that same `db`. The refinement then takes each action in turn: INSERTs and
COMMITs are `Perform`, failures `GiveUp`, a dropped call that had sent nothing or a crash
`Forget`, the rest stutters; a call that is dropped with its INSERT or COMMIT on the way
stays pending until that has run or failed. `LegalHistory` and `CatalogAllOrNothing` follow from `WorkInv` and one step.
`OkIsKept` is not inductive because another call may overwrite what was answered; `AnswerInv`
says which facts no later call undoes (`Holds`), the central one being that a verdict,
once committed, admits no second (`VerdictIsFinal`).

`JudgeProofs`: `EveryRunHasItsLog`, `RetriesFollowFailures`, `LastRunDecides`
(`LogsOfRuns`, `RetriesAreEarned`, `VerdictIsOfLastRun`). None is inductive, because nothing in a row says who works on it. `JudgeInv` is an argument by ownership: a
submission is in the queue once, or with one task, or with nobody until the next scan
(`Exclusive`). So while a worker has it nobody adds a run, and what the worker read stays
so: its attempt is the one that is due (`Due`), its log is there, and when it finishes,
its verdict is that of the last run (`LastVerdict`). With that the runs of a submission
are numbered without a gap, all but the last infrastructure failures (`Numbered`). A
crash forgets all owners at once, and the scan finds only submissions without a verdict.

`DecodingProofs`, rows: `RowsReadBack`, `SidesAgree`, `ScanIsComplete` (`ReadsBack`,
`BothSidesAgree`, `ScanFindsTheUnfinished`), for any ids, instants and texts, integers of
any width and any sequence of statements and edits. The invariant `RowsInv` says that
every cell is one the schema admits, and that a cell no editor has touched decodes to
what its writers meant. `Wiring` compares what each INSERT binds with what each read
expects, column by column; `RoundTrip` goes through the conversions, of which only those
of the `ulid` and `time` crates are assumed: that no two variants of an enum share a text
and that `ALL` has them all is `EnumFacts`. `ChecksAreTheEnums` compares the CHECKs.

`SourceProofs`, the walk: `StayedIsListed`, `ListedWasThere`, `FailuresAreEdits`
(`ListsWhatStayed`, `ListsWhatWas`, `FailsOnlyWhenEdited`), for directories of any shape, links of any kind,
any prefix asked for, and any number of edits. What makes them hard is that a frame of
the walk holds a path, and paths go through links that may have been made since: `WalkInv`
says that no link is on the way to a directory being walked but those made during the
call (`Begun`, `Straight`). Edits leave a tree (`EditEdits`; that a rename leaves one is
`MoveEdits`, by the path arithmetic of `RelocatedBack`). So `canonicalize` of such a path
answers the path itself or fails (`StraightWay`), and `read_dir` sees its own directory,
or something below a link that was made, whose paths `ListsWhatWas` leaves out. `Progress` then says
that every file which stayed is listed, or has a frame on the stack it will be come to
through (`LeadsTo`); `WayDown` is the step from one directory to the next. A file that
stayed never has such a link on its way, since the directory must go before a link can take its place.
Without edits the frames stay directories and their names entries (`Quiet`), so nothing
fails but what fails by itself.
These lemmas on paths and trees are in `TreeProofs`. `canonicalize` is a loop over
names: `Repeated` shows once that every loop has a run, by induction on a *set* of
naturals, which needs no operator parameter; `Resolution` and `Flattened` (for
`normalize`) follow from it.

`SourceProofs`, the two sources: `Agreement`, `ReadsThePath`, `ListsWhatReads` (`SourcesAgree`,
`ReadsWhatIsNamed`, `ListedFilesRead`), for directories of any shape, archives of any
order, spelling and repetition, any names and any paths. The invariant is that the directory stays
a tree, and that the archive, unless a name holds a backslash, holds of every file that is
not left to be appended what the directory holds of it now (`Held`). That an archiver's spelling of a name is
normalized to that name is `SpellingsSpell`. A complete archive then holds the files of
the directory and nothing else (`Whole`), and every path, as `normalize` and
`canonicalize` treat it, is refused by both, or a directory, or a file, or nothing and
with nothing under it (`Kinds`, by `NoDetours`: without links `canonicalize` answers its
argument or fails); each of the four is settled method by method. `ReadsThePath` has
links: `ReachedIs` shows that the operating system, which goes along the path as it is
written, arrives where `canonicalize` arrives from the normalized names, unless the path
goes up, which `normalize` refuses. That is the path with slashes for its backslashes,
which need not be the path that was asked for.

`AuthoringProofs`: `SchemasAgreeWithTypes`, `OneRoundIsEnough`, `OmittedMeansEmpty`,
`ReferencedInOrder` (`SchemaImpliesTypes`, `OneRoundOfFixes`, `OmittedIsEmpty`,
`ReferencedOnce`), for documents of any content and any edits. The invariant
`AuthoringInv` says that a document stays JSON, that `report` is what `Load` answers of
the document as it is, and that a repaired document has no violations; each
property is then a fact about `Load`.

- *Schema and types.* `Twins` pairs each schema with the type that reads what it lets
  pass, and `TwinsAreAlike` compares the two keyword by keyword and field by field: what
  the type takes at a node the schema demands there, and their parts are twins again.
  So the nodes under the type mirror nodes under the schema on every level
  (`MirrorsDown`), and what is clean for the one is acceptable to the other
  (`SchemaTypes`).
- *Reports.* That a repaired document is clean would fail if a violation were hidden: by
  another one, or behind a pointer it shares with another place. On the first two levels
  a pointer belongs to one node only (`OnePointer`); below a node whose pointer heads no
  violation there is none (`NothingBelow`); and an object with only missing or unknown
  keys has the required shape once these are added and removed (`Reshaped`). The author's
  steps are taken from the inside out: `EntryRepaired`, `BlockRepaired`,
  `DocumentRepaired`.
- *Defaults.* With an empty block the document has one more node, without parts
  (`NodesWith`), and the default of the block is what the defaults of its fields make of
  an empty object (`TwoDefaults`): two definitions that the code writes apart.
- *References.* `ReferencedProblems` is a loop over the mentions. `Gathered` says what
  has been collected after n mentions: each of them, once, ordered by where it was first
  mentioned. The induction goes over the run of that loop (`Repeated` of `TreeProofs`
  gives it).

Only model-checked: liveness (`CallsReturn`, `LockIsReleased`, `AllJudged`, `ListReturns`),
since TLAPS reasons about neither fairness nor ENABLED; and the violation runs,
which are counterexamples.

## 6. What is not modelled, and the plan

Not modelled: the runner, the API server and the validator (not in the
repository; `Judge` and `Authoring` stand for what the stores and the loader need of
them); edits between the system calls of `read` and `is_executable`, and names that are
not UTF-8; power failures (the file system's affair); JSON text and Unicode; SQL text;
`limit` and the lookups of one user; the down migration; `env.rs` and the newtypes;
`compose_profiles` and `has_category`, which read one field.

Next, if the code grows: the validator, once it is in the repository, over
`ProblemSource` and `Manifests`; the runner's and the server's own loops in place of
`Judge`, with whatever fencing they bring; the reads with `limit`.
