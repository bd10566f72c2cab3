--------------------------- MODULE DecodingProofs ---------------------------
(***************************************************************************)
(* Theorems about what satunera decodes.  VerdictOutput, for scripts of    *)
(* any length, any lines and any exit codes: who decides a verdict, and    *)
(* what a rejection tells.  Rows, for any number of rows, of edits, and    *)
(* any width of an integer: what was written is read, the schema and the   *)
(* enums agree, and the recovery scan finds what is unfinished.            *)
(***************************************************************************)
EXTENDS VerdictOutput, Rows, TLAPS, WellFoundedInduction

-----------------------------------------------------------------------------
(* VerdictOutput.                                                          *)

\* What is known once the script has ended: the output is what its last line
\* says, and an answer other than IE is the output's, in agreement with the
\* exit code.
Parsed ==
  output # NULL => /\ Spoken(stdout) # {}
                   /\ ErrorIn(LastLine(stdout)) = NULL
                   /\ output = OutputOf(LastLine(stdout))

\* An error of from_line is one its last line has.
Refused ==
  error # NULL /\ error \notin {"NoOutput", "ExitCodeMismatch"} =>
    Spoken(stdout) # {} /\ ErrorIn(LastLine(stdout)) = error

Answered ==
  verdict # NULL /\ verdict # "IE" =>
    output # NULL /\ verdict = VerdictOf(output) /\ Agrees(output, exit)

\* The inductive invariant: nothing is parsed before the exit, so the last
\* line stays the last.
Inv ==
  /\ stdout \in Seq(Lines)
  /\ exit \in Optional(ExitCodes)
  /\ exit = NULL => output = NULL /\ error = NULL /\ verdict = NULL
  /\ Parsed
  /\ Refused
  /\ Answered

-----------------------------------------------------------------------------
\* The order of the natural numbers, as the relation the library speaks of.
Below == {ss \in Nat \X Nat : ss[1] < ss[2]}

\* ... which is well-founded.
LEMMA BelowWellFounded == IsWellFoundedOn(Below, Nat)
BY NatLessThanWellFounded DEF OpToRel, Below

\* Among the lines that are not blank one is the last.
LEMMA LastSpoken ==
  ASSUME NEW out \in Seq(Lines), Spoken(out) # {}
  PROVE  \E i \in Spoken(out) : \A j \in Spoken(out) : j <= i
<1> DEFINE Left == {Len(out) - i : i \in Spoken(out)}
<1>1. Spoken(out) \subseteq 1..Len(out)
  BY DEF Spoken
<1>2. Left \subseteq Nat /\ Left # {}
  <2>1. Len(out) \in Nat
    OBVIOUS
  <2> QED
    BY <1>1, <2>1
<1>3. PICK n \in Left : \A m \in Left : ~(<<m, n>> \in Below)
  BY <1>2, BelowWellFounded, WFMin, Zenon
<1>4. PICK i \in Spoken(out) : n = Len(out) - i
  BY <1>3
<1>5. ASSUME NEW j \in Spoken(out), ~(j <= i) PROVE FALSE
  <2>1. Len(out) - j \in Left /\ Len(out) - j < n
    BY <1>1, <1>4, <1>5
  <2>2. <<Len(out) - j, n>> \in Below
    BY <1>2, <2>1 DEF Below
  <2> QED
    BY <1>3, <2>1, <2>2
<1> QED
  BY <1>4, <1>5

\* The last line is one that is spoken, and only blank ones follow it.
LEMMA LastLineIsLast ==
  ASSUME NEW out \in Seq(Lines), Spoken(out) # {}
  PROVE  \E i \in DOMAIN out : /\ LastLine(out) = out[i]
                               /\ \A j \in DOMAIN out : j > i => out[j].kind = "blank"
<1>1. PICK i \in Spoken(out) : \A j \in Spoken(out) : j <= i
  BY LastSpoken
<1>2. Spoken(out) \subseteq 1..Len(out)
  BY DEF Spoken
<1>3. i = CHOOSE k \in Spoken(out) : \A j \in Spoken(out) : j <= k
  BY <1>1, <1>2
<1>4. LastLine(out) = out[i]
  BY <1>3 DEF LastLine
<1>5. ASSUME NEW j \in DOMAIN out, j > i PROVE out[j].kind = "blank"
  BY <1>1, <1>2, <1>5 DEF Spoken
<1> QED
  BY <1>1, <1>4, <1>5 DEF Spoken

\* A line from_line accepts is an object that says true or false, and says why
\* when it is false.
LEMMA Accepted ==
  ASSUME NEW line \in Lines, ErrorIn(line) = NULL
  PROVE  /\ line.kind = "object" /\ line.ok \in {"true", "false"}
         /\ line.message.is # "other" /\ IsTestcase(line) /\ Explains(line)
<1>1. NULL \notin Errors
  BY VerdictAssumption
<1>2. /\ line.kind = "object" /\ line.ok \notin {"absent", "other"}
      /\ line.message.is # "other" /\ IsTestcase(line) /\ Explains(line)
  BY <1>1 DEF ErrorIn, Errors
<1>3. line \in AllLines
  BY VerdictAssumption
<1> QED
  BY <1>2, <1>3 DEF AllLines

-----------------------------------------------------------------------------
\* The invariant holds before the script starts.
LEMMA InvInit == Init => Inv
BY DEF Init, Inv, Parsed, Refused, Answered, Optional

\* Every step keeps it.
LEMMA InvNext == Inv /\ [Next]_vars => Inv'
<1> SUFFICES ASSUME Inv, [Next]_vars PROVE Inv'
  OBVIOUS
<1> USE DEF Inv
<1>1. ASSUME NEW line \in Lines, PrintLine(line) PROVE Inv'
  BY <1>1 DEF PrintLine, Parsed, Refused, Answered
<1>2. ASSUME NEW code \in ExitCodes, Exit(code) PROVE Inv'
  BY <1>2, VerdictAssumption DEF Exit, Parsed, Refused, Answered, Optional
<1>3. CASE FromStdout
  <2>1. error' = NULL => Spoken(stdout) # {} /\ ErrorIn(LastLine(stdout)) = NULL
    BY <1>3, VerdictAssumption DEF FromStdout, Errors
  <2>2. Parsed'
    BY <1>3, <2>1 DEF FromStdout, Parsed
  <2> QED
    BY <1>3, <2>2 DEF FromStdout, Refused, Answered
<1>4. CASE Reconcile
  BY <1>4 DEF Reconcile, Parsed, Refused, Answered
<1>5. CASE Blame
  BY <1>5 DEF Blame, Parsed, Refused, Answered
<1>6. CASE UNCHANGED vars
  BY <1>6 DEF vars, Parsed, Refused, Answered, Agrees
<1> QED
  BY <1>1, <1>2, <1>3, <1>4, <1>5, <1>6 DEF Next

\* The invariant holds of every script.
THEOREM Invariant == Spec => []Inv
BY InvInit, InvNext, PTL DEF Spec

-----------------------------------------------------------------------------
\* The exit code decides and the last line agrees: AC needs exit 0 and a last
\* line that says true, WA a failing exit and one that says false
\* (docs/validation-contract.md:124-137).
THEOREM ExitDecides == Spec => []ExitCodeDecides
<1>1. Inv => ExitCodeDecides
  <2> SUFFICES ASSUME Inv, verdict \in {"AC", "WA"} PROVE ExitCodeDecides
    BY DEF ExitCodeDecides
  <2>1. /\ output # NULL /\ verdict = VerdictOf(output) /\ Agrees(output, exit)
    BY VerdictAssumption DEF Inv, Answered, Verdicts
  <2>2. /\ Spoken(stdout) # {} /\ stdout \in Seq(Lines)
        /\ ErrorIn(LastLine(stdout)) = NULL /\ output = OutputOf(LastLine(stdout))
    BY <2>1 DEF Inv, Parsed
  <2>3. PICK i \in DOMAIN stdout :
          /\ LastLine(stdout) = stdout[i]
          /\ \A j \in DOMAIN stdout : j > i => stdout[j].kind = "blank"
    BY <2>2, LastLineIsLast
  <2>4. stdout[i].kind = "object" /\ stdout[i].ok \in {"true", "false"}
    BY <2>2, <2>3, Accepted
  <2>5. output.ok <=> stdout[i].ok = "true"
    BY <2>2, <2>3 DEF OutputOf
  <2> QED
    BY <2>1, <2>3, <2>4, <2>5 DEF ExitCodeDecides, Says, VerdictOf, Agrees
<1> QED
  BY <1>1, Invariant, PTL

\* A WA has a message, which says something when it is forwarded whole, and
\* when the part that is not cut does (verdict.rs:225-231, 251).
THEOREM RejectionsAreExplained == Spec => []RejectionsExplain
<1>1. Inv => RejectionsExplain
  <2> DEFINE line == LastLine(stdout)
  <2> SUFFICES ASSUME Inv, verdict = "WA"
               PROVE  /\ line.message.is = "string"
                      /\ line.message.text.length <= MaxChars =>
                           /\ Tells(line.message.text)
                           /\ output.message = line.message.text
                      /\ Tells(line.message.text) => Tells(output.message)
    BY DEF RejectionsExplain
  <2>1. output # NULL /\ ~output.ok
    BY VerdictAssumption DEF Inv, Answered, Verdicts, VerdictOf
  <2>2. /\ Spoken(stdout) # {} /\ stdout \in Seq(Lines)
        /\ ErrorIn(LastLine(stdout)) = NULL /\ output = OutputOf(LastLine(stdout))
    BY <2>1 DEF Inv, Parsed
  <2>3. line \in Lines
    BY <2>2, LastLineIsLast
  <2>4. Explains(line) /\ line.ok # "true" /\ line.kind = "object"
    BY <2>1, <2>2, <2>3, Accepted DEF OutputOf
  <2> HIDE DEF line
  <2>5. line.message.is = "string" /\ ~Blank(Truncate(line.message.text))
    BY <2>4 DEF Explains, MessageOf
  <2>6. line.message \in Texts
    BY <2>3, <2>4, VerdictAssumption DEF AllLines
  <2>7. line.message.text \in Message
    BY <2>5, <2>6 DEF Texts
  <2>8. output.message = Truncate(line.message.text)
    BY <2>2, <2>5 DEF line, OutputOf, MessageOf
  <2> QED
    BY <2>5, <2>7, <2>8, VerdictAssumption DEF Truncate, Tells, Blank, Message
<1> QED
  BY <1>1, Invariant, PTL

\* A stray key changes nothing from_line reports of a line.
LEMMA StrayIsIgnored ==
  ASSUME NEW line \in Lines, line.kind = "object"
  PROVE  LET plain == [line EXCEPT !.stray = FALSE]
         IN  /\ ErrorIn(plain) = ErrorIn(line)
             /\ OutputOf(plain).ok = OutputOf(line).ok
             /\ OutputOf(plain).message = OutputOf(line).message
<1> DEFINE plain == [line EXCEPT !.stray = FALSE]
<1>1. line \in AllLines
  BY VerdictAssumption
<1>2. /\ plain.kind = line.kind /\ plain.ok = line.ok
      /\ plain.message = line.message /\ plain.testcase = line.testcase
  BY <1>1 DEF AllLines
<1> QED
  BY <1>2 DEF ErrorIn, OutputOf, MessageOf, IsTestcase, Explains

\* A stray key costs a learner nothing: without it the last line gets the same
\* answer and the same message (verdict.rs:8-9).
THEOREM StrayKeysAreFree == Spec => []StrayKeysCostNothing
<1>1. Inv => StrayKeysCostNothing
  <2> SUFFICES ASSUME Inv PROVE StrayKeysCostNothing
    OBVIOUS
  <2> DEFINE line == LastLine(stdout)
  <2>1. Spoken(stdout) # {} => line \in Lines
    BY LastLineIsLast DEF Inv
  <2>2. ASSUME output # NULL
        PROVE  SameWithout([line EXCEPT !.stray = FALSE])
    <3>1. line \in Lines /\ ErrorIn(line) = NULL /\ output = OutputOf(line)
      BY <2>1, <2>2 DEF Inv, Parsed
    <3>2. line.kind = "object"
      BY <3>1, Accepted
    <3> HIDE DEF line
    <3> QED
      BY <3>1, <3>2, StrayIsIgnored DEF SameWithout
  <2>3. ASSUME error \in {"WrongType", "MissingMessage"}
        PROVE  ErrorIn([line EXCEPT !.stray = FALSE]) = error
    <3>1. Spoken(stdout) # {} /\ ErrorIn(line) = error
      BY <2>3, VerdictAssumption DEF Inv, Refused, Errors
    <3>2. line.kind = "object"
      BY <3>1, <2>3, VerdictAssumption DEF ErrorIn, Errors
    <3> HIDE DEF line
    <3> QED
      BY <2>1, <3>1, <3>2, StrayIsIgnored
  <2> QED
    BY <2>2, <2>3 DEF StrayKeysCostNothing
<1> QED
  BY <1>1, Invariant, PTL

\* The testcase a learner is shown is the printed one, whatever the width of
\* u32 (verdict.rs:241-247).
THEOREM TestcasesArePrinted == Spec => []TestcaseIsPrinted
<1>1. Inv => TestcaseIsPrinted
  <2> SUFFICES ASSUME Inv, output # NULL, output.testcase # NULL
               PROVE  LastLine(stdout).testcase.n = output.testcase
    BY DEF TestcaseIsPrinted
  <2>1. /\ Spoken(stdout) # {} /\ stdout \in Seq(Lines)
        /\ ErrorIn(LastLine(stdout)) = NULL /\ output = OutputOf(LastLine(stdout))
    BY DEF Inv, Parsed
  <2> DEFINE line == LastLine(stdout)
  <2>2. line \in Lines
    BY <2>1, LastLineIsLast
  <2>3. line.kind = "object" /\ IsTestcase(line)
    BY <2>1, <2>2, Accepted
  <2>4. line.testcase.is = "integer" /\ output.testcase = line.testcase.n % U32Bound
    BY <2>1 DEF OutputOf, TestcaseOf
  <2>5. line.testcase \in Numbers
    BY <2>2, <2>3, VerdictAssumption DEF AllLines
  <2>6. line.testcase.n \in Nat /\ line.testcase.n < U32Bound
    BY <2>3, <2>4, <2>5 DEF Numbers, IsTestcase
  <2>7. \A n, w \in Nat : n < w => n % w = n
    OBVIOUS
  <2> QED
    BY <2>4, <2>6, <2>7, VerdictAssumption
<1> QED
  BY <1>1, Invariant, PTL

-----------------------------------------------------------------------------
(* Rows.                                                                   *)

\* How column c of the table under study is read.
ColumnOf(c) == Columns[table][c]

\* The cell of an unedited column is read as what its writers meant, and every
\* cell is one the schema admits.
RowOK(k) ==
  /\ DOMAIN stored[k] = Names /\ stored[k] = [c \in Names |-> stored[k][c]]
  /\ DOMAIN meant[k] = Names /\ meant[k] = [c \in Names |-> meant[k][c]]
  /\ \A c \in Names :
       /\ Admits(c, stored[k][c])
       /\ <<k, c>> \notin edited => Decode(ColumnOf(c), stored[k][c]) = {meant[k][c]}

\* The inductive invariant: no enum is refused either.
RowsInv ==
  /\ table \in DOMAIN Columns
  /\ Found \subseteq Keys /\ DOMAIN meant = Found
  /\ \A k \in Found : RowOK(k)
  /\ table = "problems" \/ refused = {}

-----------------------------------------------------------------------------
(* The types.                                                              *)

Enums == {Role, Language, Status, Verdict}

\* No two variants of an enum have the same text, and parse looks through all.
LEMMA TextsDiffer ==
  ASSUME NEW type \in Enums
  PROVE  /\ type.kind = "enum" /\ type.optional = FALSE /\ type.all = DOMAIN type.text
         /\ \A v, w \in DOMAIN type.text : type.text[v] = type.text[w] => v = w
         /\ \A v \in DOMAIN type.text : type.text[v] \in EnumTexts
<1> USE DEF Enum
<1>1. CASE type = Role
  BY <1>1 DEF Role, RoleText, EnumTexts
<1>2. CASE type = Language
  BY <1>2 DEF Language, LanguageText, EnumTexts
<1>3. CASE type = Status
  BY <1>3 DEF Status, StatusText, EnumTexts
<1>4. CASE type = Verdict
  BY <1>4 DEF Verdict, VerdictText, EnumTexts
<1> QED
  BY <1>1, <1>2, <1>3, <1>4 DEF Enums

\* The types of columns.
LEMMA TypeFacts ==
  /\ Ulid.kind = "ulid" /\ ~Ulid.optional
  /\ Instant.kind = "instant" /\ ~Instant.optional
  /\ Opt(Instant).kind = "instant" /\ Opt(Instant).optional
  /\ U32.kind = "u32" /\ ~U32.optional /\ Opt(U32).kind = "u32" /\ Opt(U32).optional
  /\ Opt(I32).kind = "i32" /\ Opt(I32).optional
  /\ Str.kind = "str" /\ ~Str.optional
  /\ Clock.kind = "clock" /\ ~Clock.optional
<1>1. /\ Ulid.kind = "ulid" /\ ~Ulid.optional
      /\ Instant.kind = "instant" /\ ~Instant.optional
      /\ U32.kind = "u32" /\ ~U32.optional
      /\ Str.kind = "str" /\ ~Str.optional
      /\ Clock.kind = "clock" /\ ~Clock.optional
  BY DEF Plain, Ulid, Instant, U32, Str, Clock
<1>2. Opt(Instant).kind = "instant" /\ Opt(Instant).optional
  BY DEF Plain, Opt, Instant
<1>3. Opt(U32).kind = "u32" /\ Opt(U32).optional
  BY DEF Plain, Opt, U32
<1>4. Opt(I32).kind = "i32" /\ Opt(I32).optional
  BY DEF Plain, Opt, I32
<1> QED
  BY <1>1, <1>2, <1>3, <1>4

\* The types of enums.
LEMMA EnumFacts ==
  ASSUME NEW type \in Enums
  PROVE  /\ type.kind = "enum" /\ ~type.optional
         /\ Opt(type).kind = "enum" /\ Opt(type).optional
         /\ Opt(type).text = type.text /\ Opt(type).all = type.all
BY DEF Enums, Role, Language, Status, Verdict, Enum, Opt

\* What a column is read as: its kind is that of its affinity, and an Option
\* where it may be NULL.
Fits(type, c) ==
  /\ \/ type.kind \in {"ulid", "instant", "u32", "i32", "str"}
     \/ \E enum \in Enums : type \in {enum, Opt(enum)}
  /\ type.optional <=> c \in Nullable
  /\ c \in Integral <=> type.kind \in {"u32", "i32"}

LEMMA ReadTypes ==
  ASSUME table \in DOMAIN Columns, NEW c \in Names
  PROVE  Fits(ColumnOf(c), c)
<1> USE TypeFacts, EnumFacts DEF Names, ColumnOf, Nullable, Integral, Fits
<1>0. Role \in Enums /\ Language \in Enums /\ Status \in Enums /\ Verdict \in Enums
  BY DEF Enums
<1>1. CASE table = "users"
  <2>1. Columns[table] = [id |-> Ulid, role |-> Role, created_at |-> Instant]
    BY <1>1 DEF Columns
  <2> QED
    BY <1>0, <2>1
<1>2. CASE table = "problems"
  <2>1. Columns[table] = [difficulty |-> Str, updated_at |-> Instant]
    BY <1>2 DEF Columns
  <2> QED
    BY <2>1
<1>3. CASE table = "submissions"
  <2>1. Columns[table] =
          [id |-> Ulid, user_id |-> Ulid, language |-> Language, status |-> Status,
           verdict |-> Opt(Verdict), created_at |-> Instant,
           started_at |-> Opt(Instant), finished_at |-> Opt(Instant)]
    BY <1>3 DEF Columns
  <2> QED
    BY <1>0, <2>1
<1>4. CASE table = "runs"
  <2>1. Columns[table] =
          [id |-> Ulid, attempt |-> U32, exit_code |-> Opt(I32), verdict |-> Opt(Verdict),
           boot_ms |-> Opt(U32), build_ms |-> Opt(U32), run_ms |-> Opt(U32),
           created_at |-> Instant]
    BY <1>4 DEF Columns
  <2> QED
    BY <1>0, <2>1
<1>5. CASE table = "user_progress"
  <2>1. Columns[table] = [solved_at |-> Opt(Instant), attempts |-> U32]
    BY <1>5 DEF Columns
  <2> QED
    BY <2>1
<1> QED
  BY <1>1, <1>2, <1>3, <1>4, <1>5 DEF Columns

\* What is bound to a column is of the type it is read as, stamped by the
\* clock, or a literal.
LEMMA Wiring ==
  ASSUME table \in DOMAIN Bound, NEW c \in Names
  PROVE  /\ table \in DOMAIN Columns /\ DOMAIN Bound[table] = Names
         /\ \/ Bound[table][c] = ColumnOf(c)
            \/ Bound[table][c] = Clock /\ ColumnOf(c) = Instant
            \/ /\ table = "submissions" /\ c = "status"
               /\ Bound[table][c] = Literal("QUEUED", "Queued") /\ ColumnOf(c) = Status
            \/ /\ table = "submissions" /\ c \in {"verdict", "started_at", "finished_at"}
               /\ Bound[table][c] = Literal(NULL, NULL)
<1>1. CASE table = "users"
  BY <1>1 DEF Bound, Columns, Names, ColumnOf
<1>2. CASE table = "problems"
  BY <1>2 DEF Bound, Columns, Names, ColumnOf
<1>3. CASE table = "submissions"
  BY <1>3 DEF Bound, Columns, Names, ColumnOf
<1>4. CASE table = "runs"
  BY <1>4 DEF Bound, Columns, Names, ColumnOf
<1> QED
  BY <1>1, <1>2, <1>3, <1>4 DEF Bound

\* A CHECK lets in exactly the texts of the enum the column is read as; the
\* one on the difficulty of a problem stands before a String.
LEMMA ChecksAreTheEnums ==
  ASSUME table \in DOMAIN Columns, NEW c, IsChecked(c)
  PROVE  /\ c \in Names
         /\ \/ \E enum \in Enums :
                 /\ ColumnOf(c) \in {enum, Opt(enum)}
                 /\ Checks[table][c] = {enum.text[v] : v \in DOMAIN enum.text}
            \/ table = "problems" /\ ColumnOf(c).kind = "str"
<1> USE DEF Names, ColumnOf, IsChecked
<1>1. /\ Role \in Enums /\ {"learner", "author", "admin"} = {Role.text[v] : v \in DOMAIN Role.text}
      /\ Language \in Enums
      /\ {"rust", "py", "cpp"} = {Language.text[v] : v \in DOMAIN Language.text}
  BY DEF Enums, Enum, Role, RoleText, Language, LanguageText
<1>2. /\ Status \in Enums
      /\ {"QUEUED", "PREPARING", "BUILDING", "BOOTING", "RUNNING", "DONE"} =
           {Status.text[v] : v \in DOMAIN Status.text}
  BY DEF Enums, Enum, Status, StatusText
<1>3. /\ Verdict \in Enums
      /\ {"AC", "WA", "TLE", "MLE", "RE", "CE", "SE", "IE"} =
           {Verdict.text[v] : v \in DOMAIN Verdict.text}
  BY DEF Enums, Enum, Verdict, VerdictText
<1>4. CASE table = "users"
  BY <1>1, <1>4 DEF Columns, Checks
<1>5. CASE table = "problems"
  BY <1>5, TypeFacts DEF Columns, Checks
<1>6. CASE table = "submissions"
  <2>1. DOMAIN Checks[table] = {"language", "status", "verdict"}
    BY <1>6 DEF Checks
  <2>2. CASE c = "language"
    BY <1>1, <1>6, <2>2 DEF Columns, Checks
  <2>3. CASE c = "status"
    BY <1>2, <1>6, <2>3 DEF Columns, Checks
  <2>4. CASE c = "verdict"
    BY <1>3, <1>6, <2>4 DEF Columns, Checks
  <2> QED
    BY <2>1, <2>2, <2>3, <2>4
<1>7. CASE table = "runs"
  BY <1>3, <1>7 DEF Columns, Checks
<1>8. CASE table = "user_progress"
  BY <1>8 DEF Checks
<1> QED
  BY <1>4, <1>5, <1>6, <1>7, <1>8 DEF Columns

-----------------------------------------------------------------------------
(* Writing a value and reading the cell.                                   *)

\* What the schema wants of a cell of column c that is not NULL.
Storable(c, raw) == raw \in IF c \in Integral THEN Int ELSE RowTexts

\* A text that the clock or a caller's instant is written as.
LEMMA InstantsRoundTrip ==
  ASSUME NEW type, type.kind = "instant", NEW value \in DOMAIN Rfc3339
  PROVE  /\ value # NULL /\ Rfc3339[value] # NULL /\ Rfc3339[value] \in RowTexts
         /\ Decode(type, Rfc3339[value]) = {value}
<1>1. /\ Rfc3339[value] \in DOMAIN InstantOf /\ InstantOf[Rfc3339[value]] = value
      /\ value \in Instants
  BY RowsAssumption
<1>2. Rfc3339[value] \in RowTexts /\ Rfc3339[value] # NULL /\ value # NULL
  BY <1>1, RowsAssumption DEF RowTexts
<1>3. Decode(type, Rfc3339[value]) =
        {InstantOf[t] : t \in {Rfc3339[value]} \cap DOMAIN InstantOf}
  BY <1>2 DEF Decode
<1> QED
  BY <1>1, <1>2, <1>3

\* The text of a variant parses as that variant alone.
LEMMA EnumsRoundTrip ==
  ASSUME NEW enum \in Enums, NEW type \in {enum, Opt(enum)}, NEW value \in DOMAIN enum.text
  PROVE  /\ value # NULL /\ enum.text[value] # NULL /\ enum.text[value] \in RowTexts
         /\ Decode(type, enum.text[value]) = {value}
<1>1. type.kind = "enum" /\ type.text = enum.text /\ type.all = DOMAIN enum.text
  BY TextsDiffer, EnumFacts
<1>2. enum.text[value] \in RowTexts /\ enum.text[value] # NULL
  <2>1. enum.text[value] \in EnumTexts
    BY TextsDiffer
  <2>2. EnumTexts \subseteq RowTexts /\ NULL \notin RowTexts
    BY RowsAssumption DEF RowTexts
  <2> QED
    BY <2>1, <2>2
<1>3. value # NULL
  <2>1. \A e \in Enums : NULL \notin DOMAIN e.text
    BY RowsAssumption DEF Enums
  <2> QED
    BY <2>1
<1>4. Decode(type, enum.text[value]) = {v \in DOMAIN enum.text : enum.text[v] = enum.text[value]}
  BY <1>1, <1>2 DEF Decode
<1> QED
  BY <1>2, <1>3, <1>4, TextsDiffer

\* A value of the type a column is read as, written as one of that type.
LEMMA RoundTrip ==
  ASSUME NEW c, NEW type, Fits(type, c), NEW value \in Values(type) \cup Null(type),
         Formats(type, value)
  PROVE  /\ Decode(type, Encode(type, value)) = {value}
         /\ Encode(type, value) = NULL => c \in Nullable
         /\ Encode(type, value) # NULL => Storable(c, Encode(type, value))
<1>1. CASE value = NULL /\ value \in Null(type)
  BY <1>1 DEF Encode, Decode, Null, Fits
<1>2. CASE type.kind = "ulid" /\ value \in Values(type)
  <2>1. value \in Keys /\ value # NULL
    BY <1>2, RowsAssumption DEF Values
  <2>2. /\ UlidText[value] \in DOMAIN UlidOf /\ UlidOf[UlidText[value]] = value
        /\ UlidText[value] \in RowTexts /\ UlidText[value] # NULL
    BY <2>1, RowsAssumption DEF RowTexts
  <2>3. Encode(type, value) = UlidText[value]
    BY <1>2, <2>1 DEF Encode
  <2>4. Decode(type, UlidText[value]) = {UlidOf[t] : t \in {UlidText[value]} \cap DOMAIN UlidOf}
    BY <1>2, <2>2 DEF Decode
  <2> QED
    BY <1>2, <2>2, <2>3, <2>4 DEF Storable, Fits
<1>3. CASE type.kind = "instant" /\ value \in Values(type)
  <2>1. value \in DOMAIN Rfc3339
    BY <1>3 DEF Formats
  <2>2. Encode(type, value) = Rfc3339[value]
    BY <1>3, <2>1, InstantsRoundTrip DEF Encode
  <2> QED
    BY <1>3, <2>1, <2>2, InstantsRoundTrip DEF Storable, Fits
<1>4. CASE type.kind \in {"u32", "i32"} /\ value \in Values(type)
  <2>1. value \in Int /\ value # NULL /\ (type.kind = "u32" => value \in Range32)
        /\ (type.kind = "i32" => value \in Signed32)
    BY <1>4, RowsAssumption DEF Values, Range32, Signed32
  <2>2. Encode(type, value) = value
    BY <1>4, <2>1 DEF Encode
  <2> QED
    BY <1>4, <2>1, <2>2 DEF Decode, Storable, Fits
<1>5. CASE type.kind = "str" /\ value \in Values(type)
  <2>1. value \in RowTexts /\ value # NULL
    BY <1>5, RowsAssumption DEF Values, RowTexts
  <2>2. Encode(type, value) = value
    BY <1>5, <2>1 DEF Encode
  <2> QED
    BY <1>5, <2>1, <2>2 DEF Decode, Storable, Fits
<1>6. ASSUME NEW enum \in Enums, type \in {enum, Opt(enum)}, value \in Values(type)
      PROVE  /\ Decode(type, Encode(type, value)) = {value}
             /\ Encode(type, value) # NULL /\ Storable(c, Encode(type, value))
  <2>1. type.kind = "enum" /\ type.text = enum.text
    BY <1>6, EnumFacts, TextsDiffer
  <2>2. value \in DOMAIN enum.text
    BY <1>6, <2>1 DEF Values
  <2>3. Encode(type, value) = enum.text[value]
    BY <2>1, <2>2, EnumsRoundTrip DEF Encode
  <2> QED
    BY <1>6, <2>1, <2>2, <2>3, EnumsRoundTrip DEF Storable, Fits
<1> QED
  BY <1>1, <1>2, <1>3, <1>4, <1>5, <1>6 DEF Fits, Null

\* A cell that is read as something is one the schema admits, but for the
\* difficulty of a problem; and one it CHECKs and admits is read as something.
LEMMA AdmittedIsRead ==
  ASSUME table \in DOMAIN Columns, NEW c \in Names, NEW raw
  PROVE  /\ (/\ raw = NULL => c \in Nullable
             /\ raw # NULL => Storable(c, raw)
             /\ Decode(ColumnOf(c), raw) # {}) => Admits(c, raw) \/ table = "problems"
         /\ Admits(c, raw) /\ IsChecked(c) => Decode(ColumnOf(c), raw) # {}
<1>1. ASSUME raw # NULL, NEW enum \in Enums, ColumnOf(c) \in {enum, Opt(enum)}
      PROVE  Decode(ColumnOf(c), raw) # {} <=> raw \in {enum.text[v] : v \in DOMAIN enum.text}
  <2>1. /\ ColumnOf(c).kind = "enum" /\ ColumnOf(c).text = enum.text
        /\ ColumnOf(c).all = DOMAIN enum.text
    BY <1>1, TextsDiffer, EnumFacts
  <2>2. Decode(ColumnOf(c), raw) = {v \in DOMAIN enum.text : enum.text[v] = raw}
    BY <1>1, <2>1 DEF Decode
  <2> QED
    BY <2>2
<1>2. ColumnOf(c).kind = "str" /\ raw # NULL => Decode(ColumnOf(c), raw) # {}
  BY DEF Decode
<1>3. raw = NULL => (Decode(ColumnOf(c), raw) # {} <=> c \in Nullable)
  BY ReadTypes DEF Decode, Null, Fits
<1> QED
  BY <1>1, <1>2, <1>3, ChecksAreTheEnums DEF Admits, Storable

-----------------------------------------------------------------------------
(* The steps.                                                              *)

\* At first there is no row.
LEMMA InitRows == RowsInit => RowsInv
BY DEF RowsInit, RowsInv, Found

\* A row that a step leaves alone stays right.
LEMMA RowStays ==
  ASSUME NEW k, RowOK(k), table' = table, stored'[k] = stored[k], meant'[k] = meant[k],
         \A c : <<k, c>> \in edited => <<k, c>> \in edited'
  PROVE  RowOK(k)'
<1>1. /\ Names' = Names
      /\ \A c : ColumnOf(c)' = ColumnOf(c)
      /\ \A c, raw : Admits(c, raw)' <=> Admits(c, raw)
  BY DEF Names, ColumnOf, Admits, IsChecked
<1> QED
  BY <1>1 DEF RowOK

\* What a cell of a row that is written must be like.
Good(k, c, raw, value) ==
  /\ raw = NULL => c \in Nullable
  /\ raw # NULL => Storable(c, raw)
  /\ Admits(c, raw) \/ table = "problems" \/ <<k, c>> \notin edited
  /\ <<k, c>> \notin edited => Decode(ColumnOf(c), raw) = {value}

\* A statement that writes good cells keeps the invariant.
LEMMA WriteKeeps ==
  ASSUME RowsInv, NEW k \in Keys, NEW row, NEW values, Write(k, row, values),
         DOMAIN row = Names, row = [c \in Names |-> row[c]],
         DOMAIN values = Names, values = [c \in Names |-> values[c]],
         \A c \in Names : Good(k, c, row[c], values[c])
  PROVE  RowsInv'
<1>0. table \in DOMAIN Columns /\ table' = table /\ edited' = edited
  BY DEF RowsInv, Write
<1>1. \A c \in Names : Admits(c, row[c]) \/ table = "problems"
  BY <1>0, AdmittedIsRead DEF Good
<1>2. CASE \A c \in Names : Admits(c, row[c])
  <2>1. /\ stored' = [j \in Found \cup {k} |-> IF j = k THEN row ELSE stored[j]]
        /\ meant' = [j \in Found \cup {k} |-> IF j = k THEN values ELSE meant[j]]
        /\ refused' = refused
    BY <1>2 DEF Write
  <2>2. /\ Found' = Found \cup {k} /\ DOMAIN meant' = Found'
        /\ stored'[k] = row /\ meant'[k] = values
        /\ \A j \in Found \ {k} : stored'[j] = stored[j] /\ meant'[j] = meant[j]
    BY <2>1 DEF Found
  <2>3. /\ Names' = Names
        /\ \A c : ColumnOf(c)' = ColumnOf(c)
        /\ \A c, raw : Admits(c, raw)' <=> Admits(c, raw)
    BY <1>0 DEF Names, ColumnOf, Admits, IsChecked
  <2>4. RowOK(k)'
    BY <1>0, <1>2, <2>2, <2>3 DEF RowOK, Good
  <2>5. ASSUME NEW j \in Found \ {k} PROVE RowOK(j)'
    BY <1>0, <2>2, RowStays DEF RowsInv
  <2> QED
    BY <1>0, <2>1, <2>2, <2>4, <2>5 DEF RowsInv
<1>3. CASE ~\A c \in Names : Admits(c, row[c])
  <2>1. stored' = stored /\ meant' = meant /\ table = "problems"
    BY <1>1, <1>3 DEF Write
  <2>2. \A j \in Found : RowOK(j)'
    BY <1>0, <2>1, RowStays DEF RowsInv
  <2> QED
    BY <1>0, <2>1, <2>2 DEF RowsInv, Found
<1> QED
  BY <1>2, <1>3

\* What the clock gives, as a cell of a timestamp.
LEMMA StampIsGood ==
  ASSUME NEW k, NEW now \in Now, NEW c, ColumnOf(c).kind = "instant", c \notin Integral,
         ~IsChecked(c)
  PROVE  /\ Encode(Clock, now) # NULL /\ now # NULL
         /\ Good(k, c, Encode(Clock, now), now)
<1>1. now \in DOMAIN Rfc3339
  BY RowsAssumption
<1>2. Encode(Clock, now) = Rfc3339[now]
  BY <1>1, InstantsRoundTrip, TypeFacts DEF Encode
<1> QED
  BY <1>1, <1>2, InstantsRoundTrip DEF Good, Storable, Admits

\* A timestamp is absent where its cell is NULL, and only there.
LEMMA NoInstantIsNull ==
  ASSUME NEW type, type.kind = "instant", NEW raw, NEW value, Decode(type, raw) = {value}
  PROVE  raw = NULL <=> value = NULL
<1>1. CASE raw = NULL
  BY <1>1 DEF Decode, Null
<1>2. CASE raw # NULL
  <2>1. Decode(type, raw) = {InstantOf[t] : t \in {raw} \cap DOMAIN InstantOf}
    BY <1>2 DEF Decode
  <2>2. value \in Instants
    BY <2>1, RowsAssumption
  <2> QED
    BY <1>2, <2>2, RowsAssumption
<1> QED
  BY <1>1, <1>2

\* The text of a variant, as a cell of its enum.
LEMMA VariantIsGood ==
  ASSUME table \in DOMAIN Columns, NEW k, NEW c \in Names, NEW enum \in Enums,
         ColumnOf(c) \in {enum, Opt(enum)}, table # "problems", c \notin Integral,
         NEW value \in DOMAIN enum.text
  PROVE  Good(k, c, enum.text[value], value) /\ enum.text[value] # NULL /\ value # NULL
<1>1. /\ enum.text[value] # NULL /\ enum.text[value] \in RowTexts /\ value # NULL
      /\ Decode(ColumnOf(c), enum.text[value]) = {value}
  BY EnumsRoundTrip
<1>2. Admits(c, enum.text[value])
  BY <1>1, AdmittedIsRead DEF Storable
<1> QED
  BY <1>1, <1>2 DEF Good, Storable

\* What INSERTs bind are good cells.
LEMMA BoundIsGood ==
  ASSUME table \in DOMAIN Bound, NEW k, NEW c \in Names,
         NEW value \in Values(Bound[table][c]) \cup Null(Bound[table][c]),
         Formats(Bound[table][c], value)
  PROVE  Good(k, c, Encode(Bound[table][c], value), value)
<1>1. table \in DOMAIN Columns
  BY Wiring
<1>2. CASE Bound[table][c] = ColumnOf(c)
  <2>1. /\ Decode(ColumnOf(c), Encode(ColumnOf(c), value)) = {value}
        /\ Encode(ColumnOf(c), value) = NULL => c \in Nullable
        /\ Encode(ColumnOf(c), value) # NULL => Storable(c, Encode(ColumnOf(c), value))
    BY <1>1, <1>2, ReadTypes, RoundTrip
  <2>2. Admits(c, Encode(ColumnOf(c), value)) \/ table = "problems"
    BY <1>1, <2>1, AdmittedIsRead
  <2> QED
    BY <1>2, <2>1, <2>2 DEF Good
<1>3. CASE Bound[table][c] = Clock /\ ColumnOf(c) = Instant
  <2>1. value \in Now
    BY <1>3, TypeFacts DEF Values, Null
  <2>2. ColumnOf(c).kind = "instant" /\ c \notin Integral
    BY <1>1, <1>3, TypeFacts, ReadTypes DEF Fits
  <2>3. ~IsChecked(c)
    BY <1>1, <1>3, <2>2, ChecksAreTheEnums, EnumFacts
  <2> QED
    BY <1>3, <2>1, <2>2, <2>3, StampIsGood
<1>4. CASE /\ table = "submissions" /\ c = "status" /\ ColumnOf(c) = Status
           /\ Bound[table][c] = Literal("QUEUED", "Queued")
  <2>1. value = "Queued"
    BY <1>4 DEF Values, Null, Literal
  <2>2. Status \in Enums /\ "Queued" \in DOMAIN Status.text /\ Status.text["Queued"] = "QUEUED"
    BY DEF Enums, Status, StatusText, Enum
  <2>3. Good(k, c, "QUEUED", "Queued") /\ "Queued" # NULL
    BY <1>1, <1>4, <2>2, VariantIsGood DEF Integral
  <2> QED
    BY <1>4, <2>1, <2>3 DEF Encode, Literal
<1>5. CASE /\ c \in {"verdict", "started_at", "finished_at"}
           /\ Bound[table][c] = Literal(NULL, NULL)
  <2>1. value = NULL /\ Encode(Bound[table][c], value) = NULL /\ c \in Nullable
    BY <1>5 DEF Values, Null, Literal, Encode, Nullable
  <2>2. Decode(ColumnOf(c), NULL) = {NULL}
    BY <1>1, <2>1, ReadTypes DEF Decode, Null, Fits
  <2> QED
    BY <2>1, <2>2 DEF Good, Admits
<1> QED
  BY <1>2, <1>3, <1>4, <1>5, Wiring

\* An INSERT keeps the invariant.
LEMMA InsertRow ==
  ASSUME RowsInv, table \in DOMAIN Bound, NEW k \in Keys, NEW input \in Inputs[table][k],
         Insert(k, input)
  PROVE  RowsInv'
<1>1. DOMAIN input = DOMAIN Bound[table] /\ DOMAIN Bound[table] = Names
  <2>1. DOMAIN Bound[table] = Names
    BY DEF Bound, Columns, Names
  <2> QED
    BY <2>1, RowsAssumption
<1>2. /\ \A c \in Names : input[c] \in Values(Bound[table][c]) \cup Null(Bound[table][c])
      /\ \A c \in Names : Formats(Bound[table][c], input[c])
  BY <1>1, RowsAssumption DEF Insert
<1> DEFINE row == [c \in Names |-> Encode(Bound[table][c], input[c])]
<1>3. \A c \in Names : Good(k, c, row[c], input[c])
  BY <1>2, BoundIsGood
<1>4. input = [c \in Names |-> input[c]]
  BY <1>1, RowsAssumption
<1> QED
  BY <1>1, <1>3, <1>4, WriteKeeps DEF Insert

\* A call that cannot say its timestamp writes nothing.
LEMMA RefusedKeeps ==
  ASSUME RowsInv, table \in DOMAIN Bound, NEW k \in Keys, NEW input \in Inputs[table][k],
         InsertFails(k, input)
  PROVE  RowsInv'
<1>1. /\ table' = table /\ stored' = stored /\ meant' = meant /\ edited' = edited
      /\ table \in DOMAIN Columns
  BY DEF InsertFails, RowsInv
<1>2. \A j \in Found : RowOK(j)'
  BY <1>1, RowStays DEF RowsInv
<1>3. table = "problems"
  <2>1. PICK c \in Names : ~Formats(Bound[table][c], input[c])
    BY DEF InsertFails
  <2>2. Bound[table][c].kind = "instant"
    BY <2>1 DEF Formats
  <2>3. CASE table = "users"
    BY <2>2, <2>3, TypeFacts, EnumFacts DEF Bound, Columns, Names, Enums
  <2>4. CASE table = "submissions"
    BY <2>2, <2>4, TypeFacts, EnumFacts DEF Bound, Columns, Names, Enums, Literal
  <2>5. CASE table = "runs"
    BY <2>2, <2>5, TypeFacts, EnumFacts DEF Bound, Columns, Names, Enums
  <2> QED
    BY <2>3, <2>4, <2>5 DEF Bound
<1> QED
  BY <1>1, <1>2, <1>3 DEF RowsInv, Found

\* The types of the columns that updates write.
LEMMA Updated ==
  /\ table = "submissions" =>
       /\ {"status", "verdict", "started_at", "finished_at"} \subseteq Names
       /\ ColumnOf("status") = Status /\ ColumnOf("verdict") = Opt(Verdict)
       /\ ColumnOf("started_at").kind = "instant" /\ ColumnOf("finished_at").kind = "instant"
       /\ ~IsChecked("started_at") /\ ~IsChecked("finished_at")
  /\ table = "user_progress" =>
       /\ Names = {"solved_at", "attempts"} /\ ~IsChecked("solved_at") /\ ~IsChecked("attempts")
       /\ ColumnOf("solved_at") = Opt(Instant) /\ ColumnOf("attempts") = U32
  /\ Status \in Enums /\ Verdict \in Enums
  /\ Status.all = DOMAIN Status.text /\ Status.text = StatusText /\ Verdict.text = VerdictText
  /\ "Done" \in DOMAIN StatusText /\ StatusText["Done"] = "DONE"
<1>1. /\ Status \in Enums /\ Verdict \in Enums
      /\ Status.all = DOMAIN Status.text /\ Status.text = StatusText /\ Verdict.text = VerdictText
      /\ "Done" \in DOMAIN StatusText /\ StatusText["Done"] = "DONE"
  BY TextsDiffer DEF Enums, Status, Verdict, Enum, StatusText
<1>2. ASSUME table = "submissions"
      PROVE  /\ {"status", "verdict", "started_at", "finished_at"} \subseteq Names
             /\ ColumnOf("status") = Status /\ ColumnOf("verdict") = Opt(Verdict)
             /\ ColumnOf("started_at").kind = "instant" /\ ColumnOf("finished_at").kind = "instant"
             /\ ~IsChecked("started_at") /\ ~IsChecked("finished_at")
  BY <1>2, TypeFacts DEF Names, ColumnOf, Columns, IsChecked, Checks
<1>3. ASSUME table = "user_progress"
      PROVE  /\ Names = {"solved_at", "attempts"}
             /\ ~IsChecked("solved_at") /\ ~IsChecked("attempts")
             /\ ColumnOf("solved_at") = Opt(Instant) /\ ColumnOf("attempts") = U32
  BY <1>3 DEF Names, ColumnOf, Columns, IsChecked, Checks
<1> QED
  BY <1>1, <1>2, <1>3

\* What stands in a row is good as it stands.
LEMMA StandingIsGood ==
  ASSUME RowsInv, NEW k \in Found, NEW c \in Names
  PROVE  Good(k, c, stored[k][c], meant[k][c])
BY DEF RowsInv, RowOK, Good, Admits, Storable

\* set_submission_status keeps the invariant.
LEMMA SetStatusRow ==
  ASSUME RowsInv, table = "submissions", NEW k \in Found, NEW now \in Now,
         NEW status \in Status.all, SetStatus(k, status, now)
  PROVE  RowsInv'
<1> DEFINE row == [stored[k] EXCEPT !.status = Encode(Status, status),
                                    !.started_at = IF @ = NULL THEN Encode(Clock, now) ELSE @]
           values == [meant[k] EXCEPT !.status = status,
                                      !.started_at = IF @ = NULL THEN now ELSE @]
<1>1. RowOK(k) /\ k \in Keys /\ table \in DOMAIN Columns
  BY DEF RowsInv
<1>2. /\ DOMAIN row = Names /\ row = [c \in Names |-> row[c]]
      /\ DOMAIN values = Names /\ values = [c \in Names |-> values[c]]
  BY <1>1 DEF RowOK
<1>3. \A c \in Names \ {"status", "started_at"} : Good(k, c, row[c], values[c])
  BY <1>1, StandingIsGood DEF RowOK
<1>4. Good(k, "status", row["status"], values["status"])
  <2>1. row["status"] = Encode(Status, status) /\ values["status"] = status
    BY <1>1, Updated DEF RowOK
  <2>2. status \in DOMAIN Status.text /\ Status.kind = "enum"
    BY Updated, EnumFacts
  <2>3. Good(k, "status", Status.text[status], status) /\ status # NULL
    BY <1>1, <2>2, Updated, VariantIsGood DEF Integral
  <2> QED
    BY <2>1, <2>2, <2>3 DEF Encode
<1>5. Good(k, "started_at", row["started_at"], values["started_at"])
  <2>1. /\ row["started_at"] = IF stored[k]["started_at"] = NULL THEN Encode(Clock, now)
                               ELSE stored[k]["started_at"]
        /\ values["started_at"] = IF meant[k]["started_at"] = NULL THEN now
                                  ELSE meant[k]["started_at"]
    BY <1>1, Updated DEF RowOK
  <2>2. Good(k, "started_at", Encode(Clock, now), now)
    BY Updated, StampIsGood DEF Integral
  <2>3. Good(k, "started_at", stored[k]["started_at"], meant[k]["started_at"])
    BY Updated, StandingIsGood
  <2>4. <<k, "started_at">> \notin edited =>
          (stored[k]["started_at"] = NULL <=> meant[k]["started_at"] = NULL)
    <3> SUFFICES ASSUME <<k, "started_at">> \notin edited
                 PROVE  stored[k]["started_at"] = NULL <=> meant[k]["started_at"] = NULL
      OBVIOUS
    <3>1. /\ Decode(ColumnOf("started_at"), stored[k]["started_at"]) = {meant[k]["started_at"]}
          /\ ColumnOf("started_at").kind = "instant"
      BY <2>3, Updated DEF Good
    <3> HIDE DEF row, values
    <3> QED
      BY <3>1, NoInstantIsNull
  <2> QED
    BY <2>1, <2>2, <2>3, <2>4 DEF Good
<1>6. \A c \in Names : Good(k, c, row[c], values[c])
  BY <1>3, <1>4, <1>5
<1>7. Write(k, row, values)
  BY DEF SetStatus
<1> HIDE DEF row, values
<1> QED
  BY <1>1, <1>2, <1>6, <1>7, WriteKeeps

\* finish_submission keeps the invariant of submissions.
LEMMA FinishRow ==
  ASSUME RowsInv, table = "submissions", NEW k \in Found, NEW now \in Now,
         NEW answer \in DOMAIN VerdictText, Finish(k, answer, now)
  PROVE  RowsInv'
<1> DEFINE row == [stored[k] EXCEPT !.status = "DONE", !.verdict = Encode(Verdict, answer),
                                    !.finished_at = Encode(Clock, now)]
           values == [meant[k] EXCEPT !.status = "Done", !.verdict = answer,
                                      !.finished_at = now]
<1>1. RowOK(k) /\ k \in Keys /\ table \in DOMAIN Columns
  BY DEF RowsInv
<1>2. /\ DOMAIN row = Names /\ row = [c \in Names |-> row[c]]
      /\ DOMAIN values = Names /\ values = [c \in Names |-> values[c]]
  BY <1>1 DEF RowOK
<1>3. \A c \in Names \ {"status", "verdict", "finished_at"} : Good(k, c, row[c], values[c])
  BY <1>1, StandingIsGood DEF RowOK
<1>4. Good(k, "status", row["status"], values["status"])
  <2>1. row["status"] = "DONE" /\ values["status"] = "Done"
    BY <1>1, Updated DEF RowOK
  <2>2. Good(k, "status", Status.text["Done"], "Done")
    BY <1>1, Updated, VariantIsGood DEF Integral
  <2> QED
    BY <2>1, <2>2, Updated
<1>5. Good(k, "verdict", row["verdict"], values["verdict"])
  <2>1. row["verdict"] = Encode(Verdict, answer) /\ values["verdict"] = answer
    BY <1>1, Updated DEF RowOK
  <2>2. Good(k, "verdict", Verdict.text[answer], answer) /\ answer # NULL
    BY <1>1, Updated, VariantIsGood DEF Integral
  <2>3. Verdict.kind = "enum"
    BY Updated, EnumFacts
  <2> QED
    BY <2>1, <2>2, <2>3 DEF Encode
<1>6. Good(k, "finished_at", row["finished_at"], values["finished_at"])
  <2>1. row["finished_at"] = Encode(Clock, now) /\ values["finished_at"] = now
    BY <1>1, Updated DEF RowOK
  <2> QED
    BY <2>1, Updated, StampIsGood DEF Integral
<1>7. \A c \in Names : Good(k, c, row[c], values[c])
  BY <1>3, <1>4, <1>5, <1>6
<1>8. Write(k, row, values)
  BY DEF Finish
<1> HIDE DEF row, values
<1> QED
  BY <1>1, <1>2, <1>7, <1>8, WriteKeeps

\* finish_submission keeps the invariant of progress rows.
LEMMA CountRow ==
  ASSUME RowsInv, table = "user_progress", NEW k \in Keys, NEW now \in Now,
         NEW answer \in DOMAIN VerdictText, Count(k, answer, now)
  PROVE  RowsInv'
<1> DEFINE solved == IF IsAccepted(VerdictText[answer]) THEN now ELSE NULL
           text == Encode(Clock, solved)
<1>1. Good(k, "solved_at", text, solved) /\ (text = NULL <=> solved = NULL)
  <2>1. CASE IsAccepted(VerdictText[answer])
    BY <2>1, Updated, TypeFacts, StampIsGood DEF Integral
  <2>2. CASE ~IsAccepted(VerdictText[answer])
    <3>1. text = NULL /\ solved = NULL
      BY <2>2 DEF Encode
    <3> QED
      BY <3>1, Updated, TypeFacts DEF Good, Decode, Null, Nullable, Admits
  <2> QED
    BY <2>1, <2>2
<1>2. ASSUME NEW n, NEW m, n \in Int, <<k, "attempts">> \notin edited => n \in Range32 /\ m = n
      PROVE  Good(k, "attempts", n, m)
  <2>1. n # NULL
    BY <1>2, RowsAssumption
  <2>2. Decode(U32, n) = {n} \cap Range32
    BY <2>1, TypeFacts DEF Decode
  <2> QED
    BY <1>2, <2>1, <2>2, Updated DEF Good, Storable, Admits, Integral
<1> HIDE DEF solved, text
<1>3. CASE k \notin Found
  <2> DEFINE row == [solved_at |-> text, attempts |-> 1]
             values == [solved_at |-> solved, attempts |-> 1]
  <2>1. Write(k, row, values)
    BY <1>3 DEF Count, solved, text
  <2>2. 1 \in Range32
    BY RowsAssumption DEF Range32
  <2>3. \A c \in Names : Good(k, c, row[c], values[c])
    BY <1>1, <1>2, <2>2, Updated
  <2>4. /\ DOMAIN row = Names /\ row = [c \in Names |-> row[c]]
        /\ DOMAIN values = Names /\ values = [c \in Names |-> values[c]]
    BY Updated
  <2> HIDE DEF row, values
  <2> QED
    BY <2>1, <2>3, <2>4, WriteKeeps
<1>4. CASE k \in Found
  <2> DEFINE row == [solved_at |-> IF stored[k].solved_at = NULL THEN text
                                   ELSE stored[k].solved_at,
                     attempts |-> stored[k].attempts + 1]
             values == [solved_at |-> IF meant[k].solved_at = NULL THEN solved
                                      ELSE meant[k].solved_at,
                        attempts |-> meant[k].attempts + 1]
  <2>1. Write(k, row, values) /\ stored[k].attempts < MaxAttempts
    BY <1>4 DEF Count, solved, text
  <2>2. /\ Good(k, "solved_at", stored[k]["solved_at"], meant[k]["solved_at"])
        /\ Good(k, "attempts", stored[k]["attempts"], meant[k]["attempts"])
    BY <1>4, Updated, StandingIsGood
  <2>3. Good(k, "solved_at", row["solved_at"], values["solved_at"])
    <3>1. <<k, "solved_at">> \notin edited =>
            (stored[k]["solved_at"] = NULL <=> meant[k]["solved_at"] = NULL)
      <4> SUFFICES ASSUME <<k, "solved_at">> \notin edited
                   PROVE  stored[k]["solved_at"] = NULL <=> meant[k]["solved_at"] = NULL
        OBVIOUS
      <4>1. /\ Decode(ColumnOf("solved_at"), stored[k]["solved_at"]) = {meant[k]["solved_at"]}
            /\ ColumnOf("solved_at").kind = "instant"
        BY <2>2, Updated, TypeFacts DEF Good
      <4>2. PICK type, raw, value : /\ type = ColumnOf("solved_at")
                                    /\ raw = stored[k]["solved_at"]
                                    /\ value = meant[k]["solved_at"]
        OBVIOUS
      <4>3. type.kind = "instant" /\ Decode(type, raw) = {value}
        BY <4>1, <4>2
      <4>4. raw = NULL <=> value = NULL
        BY <4>3, NoInstantIsNull
      <4> QED
        BY <4>2, <4>4
    <3> QED
      BY <1>1, <2>2, <3>1 DEF Good
  <2>4. Good(k, "attempts", row["attempts"], values["attempts"])
    <3> DEFINE n == stored[k]["attempts"]
               m == meant[k]["attempts"]
    <3>1. n \in Int /\ n < MaxAttempts
      BY <2>1, <2>2, Updated DEF Good, Storable, Integral, Nullable
    <3>2. <<k, "attempts">> \notin edited => n \in Range32 /\ m = n
      <4>1. Decode(U32, n) = {n} \cap Range32
        BY <3>1, TypeFacts, RowsAssumption DEF Decode
      <4> QED
        BY <2>2, <4>1, Updated DEF Good
    <3>3. n + 1 \in Int /\ (<<k, "attempts">> \notin edited => n + 1 \in Range32 /\ m + 1 = n + 1)
      BY <3>1, <3>2, RowsAssumption DEF Range32
    <3> QED
      BY <1>2, <3>3
  <2>5. \A c \in Names : Good(k, c, row[c], values[c])
    BY <2>3, <2>4, Updated
  <2>6. /\ DOMAIN row = Names /\ row = [c \in Names |-> row[c]]
        /\ DOMAIN values = Names /\ values = [c \in Names |-> values[c]]
    BY Updated
  <2> HIDE DEF row, values
  <2> QED
    BY <2>1, <2>5, <2>6, WriteKeeps
<1> QED
  BY <1>3, <1>4

\* An edit by hand: the column is known to be edited, and within the schema.
LEMMA EditRow ==
  ASSUME RowsInv, NEW k \in Found, NEW d \in Names, NEW raw \in Editable(d), Edit(k, d, raw)
  PROVE  RowsInv'
<1>0. /\ table \in DOMAIN Columns /\ UNCHANGED <<table, meant, refused>> /\ RowOK(k)
      /\ stored' = [stored EXCEPT ![k] = [stored[k] EXCEPT ![d] = raw]]
      /\ edited' = edited \cup {<<k, d>>} /\ Admits(d, raw)
  BY DEF RowsInv, Edit, Editable
<1>1. /\ Names' = Names
      /\ \A c : ColumnOf(c)' = ColumnOf(c)
      /\ \A c, cell : Admits(c, cell)' <=> Admits(c, cell)
  BY <1>0 DEF Names, ColumnOf, Admits, IsChecked
<1>2. Found' = Found /\ stored'[k] = [stored[k] EXCEPT ![d] = raw] /\ meant' = meant
  BY <1>0 DEF Found
<1>3. /\ DOMAIN stored'[k] = Names /\ stored'[k] = [c \in Names |-> stored'[k][c]]
      /\ stored'[k][d] = raw
      /\ \A c \in Names \ {d} : stored'[k][c] = stored[k][c]
  BY <1>0, <1>2 DEF RowOK
<1>4. RowOK(k)'
  BY <1>0, <1>1, <1>2, <1>3 DEF RowOK
<1>5. ASSUME NEW j \in Found, j # k PROVE RowOK(j)'
  BY <1>0, <1>2, <1>5, RowStays DEF RowsInv, Found
<1> QED
  BY <1>0, <1>2, <1>4, <1>5 DEF RowsInv

\* Every step keeps the invariant.
LEMMA StepRows == RowsInv /\ [RowsNext]_rowsVars => RowsInv'
<1> SUFFICES ASSUME RowsInv, [RowsNext]_rowsVars PROVE RowsInv'
  OBVIOUS
<1>1. CASE UNCHANGED rowsVars
  <2>1. \A k \in Found : RowOK(k)'
    BY <1>1, RowStays DEF rowsVars, RowsInv
  <2> QED
    BY <1>1, <2>1 DEF rowsVars, RowsInv, Found
<1> QED
  BY <1>1, InsertRow, RefusedKeeps, SetStatusRow, FinishRow, CountRow, EditRow DEF RowsNext

-----------------------------------------------------------------------------
(* The theorems.                                                           *)

\* Unedited cells are read as what their writers meant, every cell is one the
\* schema admits, and only a catalog row is ever refused.
THEOREM RowsInvariant == RowsSpec => []RowsInv
BY InitRows, StepRows, PTL DEF RowsSpec

\* A row that nobody edited is never corrupt, and is read as it was meant.
THEOREM RowsReadBack == RowsSpec => []ReadsBack
<1>1. RowsInv => ReadsBack
  <2> SUFFICES ASSUME RowsInv, NEW k \in Found, EditedColumns(k) = {}
               PROVE  Record(stored[k]) = {meant[k]}
    BY DEF ReadsBack
  <2>1. RowOK(k) /\ \A c \in Names : Decode(ColumnOf(c), stored[k][c]) = {meant[k][c]}
    BY DEF RowsInv, RowOK, EditedColumns
  <2>2. Record(stored[k]) =
          {[c \in Names |-> CHOOSE v \in Decode(ColumnOf(c), stored[k][c]) : TRUE]}
    BY <2>1 DEF Record, ColumnOf
  <2>3. [c \in Names |-> CHOOSE v \in Decode(ColumnOf(c), stored[k][c]) : TRUE] =
          [c \in Names |-> meant[k][c]]
    BY <2>1
  <2> QED
    BY <2>1, <2>2, <2>3 DEF RowOK
<1> QED
  BY <1>1, RowsInvariant, PTL

\* No enum is refused by the schema, and nothing the schema admits in the
\* column of an enum is corrupt.
THEOREM SidesAgree == RowsSpec => []BothSidesAgree
<1>1. RowsInv => BothSidesAgree
  <2> SUFFICES ASSUME RowsInv, NEW k \in Found, EditedColumns(k) \subseteq DOMAIN Checks[table]
               PROVE  Record(stored[k]) # {}
    BY DEF BothSidesAgree, RowsInv
  <2>1. RowOK(k) /\ table \in DOMAIN Columns
    BY DEF RowsInv
  <2>2. ASSUME NEW c \in Names PROVE Decode(ColumnOf(c), stored[k][c]) # {}
    <3>1. CASE <<k, c>> \in edited
      BY <2>1, <3>1, AdmittedIsRead DEF EditedColumns, IsChecked, RowOK
    <3>2. CASE <<k, c>> \notin edited
      BY <2>1, <3>2 DEF RowOK
    <3> QED
      BY <3>1, <3>2
  <2> QED
    BY <2>2 DEF Record, ColumnOf
<1> QED
  BY <1>1, RowsInvariant, PTL

\* When the recovery scan answers, it finds every submission whose writers
\* left it unfinished, and no other.
THEOREM ScanIsComplete == RowsSpec => []ScanFindsTheUnfinished
<1>1. RowsInv => ScanFindsTheUnfinished
  <2> SUFFICES ASSUME RowsInv, table = "submissions", NEW scan \in Listed(InFlight),
                      NEW k \in Found, <<k, "status">> \notin edited
               PROVE  k \in DOMAIN scan <=> meant[k].status # "Done"
    BY DEF ScanFindsTheUnfinished
  <2>1. DOMAIN scan = InFlight
    BY DEF Listed
  <2>2. Decode(Status, stored[k].status) = {meant[k].status} /\ stored[k].status # NULL
    BY Updated DEF RowsInv, RowOK, Admits, Nullable
  <2>3. Decode(Status, stored[k].status) =
          {v \in DOMAIN StatusText : StatusText[v] = stored[k].status}
    BY <2>2, Updated, EnumFacts DEF Decode
  <2>4. /\ meant[k].status \in DOMAIN StatusText
        /\ StatusText[meant[k].status] = stored[k].status
    BY <2>2, <2>3
  <2>5. \A v \in DOMAIN StatusText : StatusText[v] = "DONE" <=> v = "Done"
    BY DEF StatusText
  <2> QED
    BY <2>1, <2>4, <2>5 DEF InFlight
<1> QED
  BY <1>1, RowsInvariant, PTL
=============================================================================
