-------------------------------- MODULE Rows --------------------------------
(***************************************************************************)
(* How rows get into the database and out of it again (sqlite.rs,          *)
(* model.rs).  Rust values are written as TEXT and INTEGER, each column as *)
(* its statement binds it; the schema CHECKs some columns; every read      *)
(* decodes what it finds, each column as its reader says; and somebody     *)
(* with the sqlite3 shell may have edited it.  Opaque text columns are     *)
(* left out; a column holds values of its own affinity.                    *)
(***************************************************************************)
EXTENDS Lifecycle, Integers, FiniteSets

CONSTANTS
  Keys,       \* primary keys: a generated id, as a value
  UlidText,   \* UlidText[id]: the text to_string gives
  UlidOf,     \* UlidOf[text]: the id from_str gives, for the texts that parse
  Instants,   \* OffsetDateTime
  Now,        \* those the clock gives
  Rfc3339,    \* Rfc3339[instant]: the text format gives, for those it can format
  InstantOf,  \* InstantOf[text]: the instant parse gives, for the texts that parse
  Garbage,    \* texts that parse as nothing
  Half,       \* half of the values a 32-bit integer has, 2^31
  Inputs,     \* Inputs[t][k]: the values that writers insert as row k of table t
  MaxAttempts,\* bound: attempts counted on one row
  MaxEdits    \* bound: columns edited by hand

VARIABLES
  table,  \* the table under study
  stored, \* stored[k]: row k, column by column, for the rows there are
  meant,  \* meant[k]: the values its writers gave or were answered
  refused,\* the keys some write of which was answered with an error
  edited  \* the <<key, column>> that were edited by hand

rowsVars == <<table, stored, meant, refused, edited>>

-----------------------------------------------------------------------------
(* The Rust types of columns, and the text of every variant.               *)

Plain(kind) == [kind |-> kind, optional |-> FALSE]
Opt(type) == [type EXCEPT !.optional = TRUE]
Ulid == Plain("ulid")
Instant == Plain("instant")
Clock == Plain("clock")
U32 == Plain("u32")
I32 == Plain("i32")
Str == Plain("str")
Literal(raw, value) == [kind |-> "literal", optional |-> FALSE, raw |-> raw, value |-> value]

\* as_str is text; parse looks through all.
Enum(text, all) == [kind |-> "enum", optional |-> FALSE, text |-> text, all |-> all]

RoleText == [Learner |-> "learner", Author |-> "author", Admin |-> "admin"]
Role == Enum(RoleText, {"Learner", "Author", "Admin"})

LanguageText == [Rust |-> "rust", Py |-> "py", Cpp |-> "cpp"]
Language == Enum(LanguageText, {"Rust", "Py", "Cpp"})

StatusText == [Queued |-> "QUEUED", Preparing |-> "PREPARING", Building |-> "BUILDING",
               Booting |-> "BOOTING", Running |-> "RUNNING", Done |-> "DONE"]
Status == Enum(StatusText, {"Queued", "Preparing", "Building", "Booting", "Running", "Done"})

VerdictText == [Ac |-> "AC", Wa |-> "WA", Tle |-> "TLE", Mle |-> "MLE",
                Re |-> "RE", Ce |-> "CE", Se |-> "SE", Ie |-> "IE"]

\* Mutant: the list of all verdicts forgets one.
VerdictShort == Enum(VerdictText, {"Ac", "Wa", "Tle", "Mle", "Re", "Ce", "Se"})

Verdict == Enum(VerdictText, {"Ac", "Wa", "Tle", "Mle", "Re", "Ce", "Se", "Ie"})

-----------------------------------------------------------------------------
(* The columns: as they are written, as they are declared, as they are     *)
(* read.                                                                   *)

\* The INSERTs of create_user, replace_problems, create_submission and
\* record_run: what is bound to each column, or stands there in the SQL.
Bound ==
  [users |-> [id |-> Ulid, role |-> Role, created_at |-> Clock],
   problems |-> [difficulty |-> Str, updated_at |-> Instant],
   submissions |->
     [id |-> Ulid, user_id |-> Ulid, language |-> Language,
      status |-> Literal("QUEUED", "Queued"), verdict |-> Literal(NULL, NULL),
      created_at |-> Clock, started_at |-> Literal(NULL, NULL),
      finished_at |-> Literal(NULL, NULL)],
   runs |->
     [id |-> Ulid, attempt |-> U32, exit_code |-> Opt(I32), verdict |-> Opt(Verdict),
      boot_ms |-> Opt(U32), build_ms |-> Opt(U32), run_ms |-> Opt(U32),
      created_at |-> Clock]]

\* The columns that are not NOT NULL, those that are INTEGER, and the CHECKs.
Nullable == {"verdict", "started_at", "finished_at", "exit_code", "boot_ms", "build_ms",
             "run_ms", "solved_at"}
Integral == {"attempt", "exit_code", "boot_ms", "build_ms", "run_ms", "attempts"}
Checks ==
  [users |-> [role |-> {"learner", "author", "admin"}],
   problems |-> [difficulty |-> {"easy", "medium", "hard"}],
   submissions |->
     [language |-> {"rust", "py", "cpp"},
      status |-> {"QUEUED", "PREPARING", "BUILDING", "BOOTING", "RUNNING", "DONE"},
      verdict |-> {"AC", "WA", "TLE", "MLE", "RE", "CE", "SE", "IE"}],
   runs |-> [verdict |-> {"AC", "WA", "TLE", "MLE", "RE", "CE", "SE", "IE"}],
   user_progress |-> [c \in {} |-> {}]]

\* user_by_handle, problems, into_submission, runs_for_submission, progress.
Columns ==
  [users |-> [id |-> Ulid, role |-> Role, created_at |-> Instant],
   problems |-> [difficulty |-> Str, updated_at |-> Instant],
   submissions |->
     [id |-> Ulid, user_id |-> Ulid, language |-> Language, status |-> Status,
      verdict |-> Opt(Verdict), created_at |-> Instant,
      started_at |-> Opt(Instant), finished_at |-> Opt(Instant)],
   runs |->
     [id |-> Ulid, attempt |-> U32, exit_code |-> Opt(I32), verdict |-> Opt(Verdict),
      boot_ms |-> Opt(U32), build_ms |-> Opt(U32), run_ms |-> Opt(U32),
      created_at |-> Instant],
   user_progress |-> [solved_at |-> Opt(Instant), attempts |-> U32]]

Names == DOMAIN Columns[table]
IsChecked(c) == c \in DOMAIN Checks[table]

-----------------------------------------------------------------------------
(* Values and cells.                                                       *)

Range32 == 0..(2 * Half - 1)
Signed32 == -Half..(Half - 1)

EnumTexts ==
  UNION {{type.text[v] : v \in DOMAIN type.text} : type \in {Role, Language, Status, Verdict}}
RowTexts ==
  DOMAIN UlidOf \cup DOMAIN InstantOf \cup EnumTexts \cup {"easy", "medium", "hard"} \cup Garbage

\* The values of a type; a ProblemRow's difficulty is any String.
Values(type) ==
  CASE type.kind = "ulid"    -> Keys
    [] type.kind = "clock"   -> Now
    [] type.kind = "instant" -> Instants
    [] type.kind = "u32"     -> Range32
    [] type.kind = "i32"     -> Signed32
    [] type.kind = "enum"    -> DOMAIN type.text
    [] type.kind = "str"     -> {"easy", "medium", "hard"} \cup Garbage
    [] type.kind = "literal" -> {type.value}

Null(type) == IF type.optional THEN {NULL} ELSE {}

\* The ulid and time crates read back what they wrote; the clock is UTC and
\* formats; writers insert values of the types of what is bound.
ASSUME RowsAssumption ==
  /\ \A k \in Keys : UlidText[k] \in DOMAIN UlidOf /\ UlidOf[UlidText[k]] = k
  /\ Now \subseteq DOMAIN Rfc3339 /\ DOMAIN Rfc3339 \subseteq Instants
  /\ \A i \in DOMAIN Rfc3339 :
       Rfc3339[i] \in DOMAIN InstantOf /\ InstantOf[Rfc3339[i]] = i
  /\ \A t \in DOMAIN InstantOf : InstantOf[t] \in Instants
  /\ Half \in Nat \ {0} /\ MaxAttempts \in Range32
  /\ NULL \notin RowTexts \cup Int \cup Keys \cup Instants
  /\ \A type \in {Role, Language, Status, Verdict} : NULL \notin DOMAIN type.text
  /\ \A t \in DOMAIN Bound : \A k \in Keys : \A input \in Inputs[t][k] :
       /\ input = [c \in DOMAIN Bound[t] |-> input[c]]
       /\ \A c \in DOMAIN input : input[c] \in Values(Bound[t][c]) \cup Null(Bound[t][c])

\* to_string, as_str, format, i64::from: the cell a value is written as.
Encode(type, value) ==
  IF value = NULL THEN NULL
  ELSE CASE type.kind = "literal"              -> type.raw
         [] type.kind = "ulid"                 -> UlidText[value]
         [] type.kind \in {"clock", "instant"} -> Rfc3339[value]
         [] type.kind = "enum"                 -> type.text[value]
         [] OTHER                              -> value

\* Mutant: exit codes are read with u32::try_from too.
DecodeUnsigned(type, raw) ==
  IF raw = NULL THEN Null(type)
  ELSE CASE type.kind = "ulid"           -> {UlidOf[t] : t \in {raw} \cap DOMAIN UlidOf}
         [] type.kind = "instant"        -> {InstantOf[t] : t \in {raw} \cap DOMAIN InstantOf}
         [] type.kind \in {"u32", "i32"} -> {raw} \cap Range32
         [] type.kind = "enum"           -> {v \in type.all : type.text[v] = raw}
         [] OTHER                        -> {raw}

\* from_str, parse, parse_ts, try_from: the value a cell is read as, or none.
Decode(type, raw) ==
  IF raw = NULL THEN Null(type)
  ELSE CASE type.kind = "ulid"    -> {UlidOf[t] : t \in {raw} \cap DOMAIN UlidOf}
         [] type.kind = "instant" -> {InstantOf[t] : t \in {raw} \cap DOMAIN InstantOf}
         [] type.kind = "u32"     -> {raw} \cap Range32
         [] type.kind = "i32"     -> {raw} \cap Signed32
         [] type.kind = "enum"    -> {v \in type.all : type.text[v] = raw}
         [] OTHER                 -> {raw}

\* into_submission, and what the reads of the other tables do alike: the
\* record of a row, or none for CorruptRow.
Record(row) ==
  LET field(c) == Decode(Columns[table][c], row[c])
  IN  IF \E c \in Names : field(c) = {} THEN {}
      ELSE {[c \in Names |-> CHOOSE v \in field(c) : TRUE]}

Found == DOMAIN stored

\* Mutant: a row that does not decode is left out.
ListedSkipping(rows) ==
  LET good == {k \in rows : Record(stored[k]) # {}}
  IN  {[k \in good |-> CHOOSE record \in Record(stored[k]) : TRUE]}

\* collect::<Result<Vec<_>, _>>: the records of the rows a SELECT found, or no
\* answer as soon as one does not decode.
Listed(rows) ==
  IF \E k \in rows : Record(stored[k]) = {} THEN {}
  ELSE {[k \in rows |-> CHOOSE record \in Record(stored[k]) : TRUE]}

\* in_flight_submissions: WHERE status <> 'DONE'.
InFlight == {k \in Found : stored[k].status # "DONE"}

-----------------------------------------------------------------------------
(* Writing.                                                                *)

RowsInit ==
  /\ table \in DOMAIN Columns
  /\ stored = [k \in {} |-> NULL] /\ meant = [k \in {} |-> NULL]
  /\ refused = {} /\ edited = {}

\* What the schema lets into a column.
Admits(c, raw) ==
  IF raw = NULL THEN c \in Nullable
  ELSE /\ raw \in IF c \in Integral THEN Int ELSE RowTexts
       /\ IsChecked(c) => raw \in Checks[table][c]

\* A statement leaves row k as `row`, which stands for `values`, unless the
\* schema refuses it.
Write(k, row, values) ==
  IF \A c \in Names : Admits(c, row[c])
    THEN /\ stored' = [j \in Found \cup {k} |-> IF j = k THEN row ELSE stored[j]]
         /\ meant' = [j \in Found \cup {k} |-> IF j = k THEN values ELSE meant[j]]
         /\ UNCHANGED <<table, refused, edited>>
    ELSE refused' = refused \cup {k} /\ UNCHANGED <<table, stored, meant, edited>>

Formats(type, value) == type.kind = "instant" => value \in DOMAIN Rfc3339

\* create_user, replace_problems, create_submission, record_run.
Insert(k, input) ==
  /\ k \notin Found
  /\ \A c \in Names : Formats(Bound[table][c], input[c])
  /\ Write(k, [c \in Names |-> Encode(Bound[table][c], input[c])], input)

\* replace_problems with a timestamp that RFC 3339 cannot say: CorruptRow.
InsertFails(k, input) ==
  /\ \E c \in Names : ~Formats(Bound[table][c], input[c])
  /\ refused' = refused \cup {k} /\ UNCHANGED <<table, stored, meant, edited>>

\* set_submission_status; started_at is what it was, as it was.
SetStatus(k, status, now) ==
  /\ \E current \in Decode(Status, stored[k].status) :
       CanTransitionTo(StatusText[current], StatusText[status])
  /\ Write(k, [stored[k] EXCEPT !.status = Encode(Status, status),
                                !.started_at = IF @ = NULL THEN Encode(Clock, now) ELSE @],
              [meant[k] EXCEPT !.status = status,
                               !.started_at = IF @ = NULL THEN now ELSE @])

\* finish_submission, what it does to the submission.
Finish(k, verdict, now) ==
  /\ \E current \in Decode(Status, stored[k].status) :
       CanTransitionTo(StatusText[current], StatusText["Done"])
  /\ Write(k, [stored[k] EXCEPT !.status = "DONE", !.verdict = Encode(Verdict, verdict),
                                !.finished_at = Encode(Clock, now)],
              [meant[k] EXCEPT !.status = "Done", !.verdict = verdict, !.finished_at = now])

\* finish_submission, what it does to the progress row, in place or anew.
Count(k, verdict, now) ==
  LET solved == IF IsAccepted(VerdictText[verdict]) THEN now ELSE NULL
      text == Encode(Clock, solved)
  IN  /\ Counts(VerdictText[verdict])
      /\ \/ /\ k \in Found /\ stored[k].attempts < MaxAttempts
            /\ Write(k, [solved_at |-> IF stored[k].solved_at = NULL THEN text
                                       ELSE stored[k].solved_at,
                         attempts |-> stored[k].attempts + 1],
                        [solved_at |-> IF meant[k].solved_at = NULL THEN solved
                                       ELSE meant[k].solved_at,
                         attempts |-> meant[k].attempts + 1])
         \/ /\ k \notin Found
            /\ Write(k, [solved_at |-> text, attempts |-> 1],
                        [solved_at |-> solved, attempts |-> 1])

\* What an editor may write into column c: an id, a timestamp, garbage, or what a
\* CHECK names; any integer near the ends of the 32-bit ones.
Editable(c) ==
  LET texts == DOMAIN UlidOf \cup DOMAIN InstantOf \cup Garbage
                 \cup IF IsChecked(c) THEN Checks[table][c] ELSE {}
  IN  {raw \in {NULL} \cup IF c \in Integral THEN -(2 * Half)..(2 * Half) ELSE texts :
         Admits(c, raw)}

\* Somebody writes `raw` into column c of a row.
Edit(k, c, raw) ==
  /\ Cardinality(edited) < MaxEdits
  /\ stored' = [stored EXCEPT ![k] = [stored[k] EXCEPT ![c] = raw]]
  /\ edited' = edited \cup {<<k, c>>}
  /\ UNCHANGED <<table, meant, refused>>

RowsNext ==
  \/ /\ table \in DOMAIN Bound
     /\ \E k \in Keys : \E input \in Inputs[table][k] : Insert(k, input) \/ InsertFails(k, input)
  \/ /\ table = "submissions"
     /\ \E k \in Found, now \in Now :
          \/ \E status \in Status.all : SetStatus(k, status, now)
          \/ \E verdict \in DOMAIN VerdictText : Finish(k, verdict, now)
  \/ /\ table = "user_progress"
     /\ \E k \in Keys, now \in Now : \E verdict \in DOMAIN VerdictText : Count(k, verdict, now)
  \/ \E k \in Found, c \in Names : \E raw \in Editable(c) : Edit(k, c, raw)

RowsSpec == RowsInit /\ [][RowsNext]_rowsVars

-----------------------------------------------------------------------------
(* Properties.                                                             *)

EditedColumns(k) == {c \in Names : <<k, c>> \in edited}

\* error.rs:28-30: a row that nobody edited is never corrupt, however many calls wrote
\* it: it is read as the values they gave and were answered, whatever text or
\* integer each statement bound and each reader expects.
ReadsBack ==
  \A k \in Found : EditedColumns(k) = {} => Record(stored[k]) = {meant[k]}

\* model.rs:5-6: the enums and the CHECKs name the same texts: no enum a
\* writer holds is refused, and nothing the schema admits in such a column is corrupt.
BothSidesAgree ==
  /\ table = "problems" \/ refused = {}
  /\ \A k \in Found : EditedColumns(k) \subseteq DOMAIN Checks[table] => Record(stored[k]) # {}

\* sqlite.rs:589-603, the recovery scan: when it answers at all, it answers with every
\* submission that its writers left unfinished and with no finished one, whatever else
\* of their rows was edited: 'DONE' in its SQL is the status the enum calls Done, and
\* a corrupt row is never skipped in silence.
ScanFindsTheUnfinished ==
  table = "submissions" =>
    \A scan \in Listed(InFlight) : \A k \in Found :
      <<k, "status">> \notin edited => (k \in DOMAIN scan <=> meant[k].status # "Done")
=============================================================================
