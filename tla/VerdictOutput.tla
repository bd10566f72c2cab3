---------------------------- MODULE VerdictOutput ----------------------------
(***************************************************************************)
(* How a run of validation.sh becomes a verdict (satunera-contracts,       *)
(* verdict.rs): the script prints lines and exits, the last non-blank line *)
(* is parsed, and the exit code must tell the same story.                  *)
(*                                                                         *)
(* A line is kept as what the parser tells apart.  A message is its length *)
(* in characters and the index of its first visible one; the index is the  *)
(* length when the message is blank.                                       *)
(***************************************************************************)
EXTENDS Lifecycle, Integers, Sequences

CONSTANTS
  MaxChars,   \* MAX_MESSAGE_CHARS
  U32Bound,   \* 2^32
  Lines,      \* the lines the scripts of an instance print
  ExitCodes,
  MaxLines    \* bound: lines a script prints

Message == {m \in [length : Nat, visible : Nat] : m.visible <= m.length}

\* A JSON value where a string, or a positive integer, may stand.  "fraction"
\* is an integer that is written with a fraction, such as 2.0.
Texts == [is : {"absent", "null", "other"}] \cup [is : {"string"}, text : Message]
Numbers == [is : {"absent", "null", "other", "fraction"}] \cup [is : {"integer"}, n : Nat]

AllLines ==
  [kind : {"blank", "text", "scalar"}]
  \cup [kind : {"object"}, ok : {"absent", "other", "true", "false"},
        message : Texts, testcase : Numbers, stray : BOOLEAN]

\* VerdictError.
Errors == {"NoOutput", "NotJson", "NotAnObject", "MissingOk", "WrongType",
           "MissingMessage", "ExitCodeMismatch"}

\* NULL is no value of its own kind.
ASSUME VerdictAssumption ==
  /\ MaxChars \in Nat /\ U32Bound \in Nat \ {0} /\ MaxLines \in Nat
  /\ Lines \subseteq AllLines /\ ExitCodes \subseteq Int
  /\ NULL \notin Int \cup Message \cup Verdicts \cup Errors

VARIABLES
  stdout,   \* what the script has printed
  exit,     \* its exit code, or NULL while it runs
  output,   \* the ValidationOutput, or NULL
  error,    \* the VerdictError, or NULL
  verdict   \* the judge's answer, or NULL

vars == <<stdout, exit, output, error, verdict>>

-----------------------------------------------------------------------------
Optional(S) == S \cup {NULL}

\* ValidationOutput.
Output == [ok : BOOLEAN, message : Optional(Message), testcase : Optional(Nat),
           unknown_keys : BOOLEAN]

Blank(m) == m.visible = m.length

\* truncate: the ellipsis it appends is a visible character, which trim leaves.
Truncate(m) ==
  IF m.length <= MaxChars THEN m
  ELSE [length |-> MaxChars + 1,
        visible |-> IF m.visible < MaxChars THEN m.visible ELSE MaxChars]

\* The message and the testcase of an object, NULL when absent or null.
MessageOf(line) ==
  IF line.message.is = "string" THEN Truncate(line.message.text) ELSE NULL

\* n as u32.
TestcaseOf(line) ==
  IF line.testcase.is = "integer" THEN line.testcase.n % U32Bound ELSE NULL

\* Mutant: every u64 is a testcase.
TestcaseWide(line) == line.testcase.is \in {"absent", "null", "integer"}

IsTestcase(line) ==
  \/ line.testcase.is \in {"absent", "null"}
  \/ /\ line.testcase.is = "integer"
     /\ line.testcase.n # 0 /\ line.testcase.n < U32Bound

\* Mutant: a blank message will do.
ExplainsAnything(line) == line.ok = "true" \/ MessageOf(line) # NULL

\* A rejection says why.
Explains(line) ==
  line.ok = "true" \/ (MessageOf(line) # NULL /\ ~Blank(MessageOf(line)))

\* Mutant: an unknown key is refused, as the schema does.
ErrorInStrict(line) ==
  IF line.kind = "text" THEN "NotJson"
  ELSE IF line.kind # "object" THEN "NotAnObject"
  ELSE IF line.ok = "absent" THEN "MissingOk"
  ELSE IF line.stray THEN "WrongType"
  ELSE IF \/ line.ok = "other"
          \/ line.message.is = "other"
          \/ ~IsTestcase(line) THEN "WrongType"
  ELSE IF ~Explains(line) THEN "MissingMessage"
  ELSE NULL

\* from_line: its first error, or NULL.
ErrorIn(line) ==
  IF line.kind = "text" THEN "NotJson"
  ELSE IF line.kind # "object" THEN "NotAnObject"
  ELSE IF line.ok = "absent" THEN "MissingOk"
  ELSE IF \/ line.ok = "other"
          \/ line.message.is = "other"
          \/ ~IsTestcase(line) THEN "WrongType"
  ELSE IF ~Explains(line) THEN "MissingMessage"
  ELSE NULL

\* from_line, when there is no error.
OutputOf(line) ==
  [ok |-> line.ok = "true", message |-> MessageOf(line),
   testcase |-> TestcaseOf(line), unknown_keys |-> line.stray]

\* The lines from_stdout may choose from.
Spoken(out) == {i \in DOMAIN out : out[i].kind # "blank"}

LastLine(out) == out[CHOOSE i \in Spoken(out) : \A j \in Spoken(out) : j <= i]

\* reconcile.
Agrees(out, code) == out.ok <=> code = 0

\* ValidationOutput::verdict.
VerdictOf(out) == IF out.ok THEN "AC" ELSE "WA"

-----------------------------------------------------------------------------
Init == /\ stdout = << >>
        /\ exit = NULL /\ output = NULL /\ error = NULL /\ verdict = NULL

\* The script prints a line, or exits (by itself, or killed in mid-sentence).
PrintLine(line) ==
  /\ exit = NULL
  /\ Len(stdout) < MaxLines
  /\ stdout' = Append(stdout, line)
  /\ UNCHANGED <<exit, output, error, verdict>>

Exit(code) ==
  /\ exit = NULL
  /\ exit' = code
  /\ UNCHANGED <<stdout, output, error, verdict>>

\* from_stdout, on the whole captured stdout.
FromStdout ==
  /\ exit # NULL /\ output = NULL /\ error = NULL
  /\ error' = IF Spoken(stdout) = {} THEN "NoOutput" ELSE ErrorIn(LastLine(stdout))
  /\ output' = IF error' = NULL THEN OutputOf(LastLine(stdout)) ELSE NULL
  /\ UNCHANGED <<stdout, exit, verdict>>

\* Mutant: the exit code is not looked at.
ReconcileForgotten ==
  /\ output # NULL /\ error = NULL /\ verdict = NULL
  /\ verdict' = VerdictOf(output)
  /\ UNCHANGED <<stdout, exit, output, error>>

\* reconcile, then verdict.
Reconcile ==
  /\ output # NULL /\ error = NULL /\ verdict = NULL
  /\ IF Agrees(output, exit)
       THEN verdict' = VerdictOf(output) /\ UNCHANGED error
       ELSE error' = "ExitCodeMismatch" /\ UNCHANGED verdict
  /\ UNCHANGED <<stdout, exit, output>>

\* The runner: a checker that breaks the contract is an internal error.
Blame ==
  /\ error # NULL /\ verdict = NULL
  /\ verdict' = "IE"
  /\ UNCHANGED <<stdout, exit, output, error>>

Next ==
  \/ \E line \in Lines : PrintLine(line)
  \/ \E code \in ExitCodes : Exit(code)
  \/ FromStdout \/ Reconcile \/ Blame

Spec == Init /\ [][Next]_vars

-----------------------------------------------------------------------------
(* Properties.                                                             *)

\* What the document's table says of a script's stdout and exit code
\* (docs/validation-contract.md:124-137), whatever the logs before the last
\* line look like: the exit code decides, the last line must agree.
Says(ok) ==
  \E i \in DOMAIN stdout :
    /\ stdout[i].kind = "object" /\ stdout[i].ok = ok
    /\ \A j \in DOMAIN stdout : j > i => stdout[j].kind = "blank"

ExitCodeDecides ==
  /\ verdict = "AC" => exit = 0 /\ Says("true")
  /\ verdict = "WA" => exit # 0 /\ Says("false")

\* A character of the script's own can be seen in m; the ellipsis is none.
Tells(m) == m.visible < m.length /\ m.visible < MaxChars

\* A learner is never rejected without a message.  One that is forwarded whole
\* says something, and one that says something where it is not cut still does
\* when it is (verdict.rs:225-231, 251).  One that is blank up to the cut is
\* let through with an ellipsis, against verdict.rs:161-163, "Every rejection
\* must tell the learner what is wrong".
RejectionsExplain ==
  verdict = "WA" =>
    LET printed == LastLine(stdout).message
    IN  /\ printed.is = "string"
        /\ printed.text.length <= MaxChars =>
             Tells(printed.text) /\ output.message = printed.text
        /\ Tells(printed.text) => Tells(output.message)

\* The testcase the learner is shown is the one the script printed, not what
\* u32 makes of it (verdict.rs:241-247).
TestcaseIsPrinted ==
  output # NULL /\ output.testcase # NULL =>
    LastLine(stdout).testcase.n = output.testcase

\* A stray key, or any log, costs a learner nothing: the same last line,
\* alone and without its stray keys, gets the same verdict (verdict.rs:8-9).
SameWithout(line) ==
  /\ ErrorIn(line) = NULL
  /\ OutputOf(line).ok = output.ok /\ OutputOf(line).message = output.message

StrayKeysCostNothing ==
  /\ output # NULL => SameWithout([LastLine(stdout) EXCEPT !.stray = FALSE])
  /\ error \in {"WrongType", "MissingMessage"} =>
       ErrorIn([LastLine(stdout) EXCEPT !.stray = FALSE]) = error
=============================================================================
