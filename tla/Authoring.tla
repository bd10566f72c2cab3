----------------------------- MODULE Authoring -----------------------------
(***************************************************************************)
(* An author at work on one manifest: values are changed, added and taken  *)
(* away, the file is loaded (judgectl, or the server's boot), and what a   *)
(* report names is repaired.                                               *)
(***************************************************************************)
EXTENDS Manifests

CONSTANTS
  Json,      \* the JSON values that occur
  Files,     \* subset of {"problem", "config"}
  Good,      \* of each: a document with every key, which loads
  Pointers,  \* ... where the author may write something
  Values,    \* ... what the author may write there
  MaxEdits   \* bound: edits before a repair

\* The members of S are JSON, and so is what they are made of.
AllJson(S) ==
  \A v \in S :
    /\ IsNumber(v) => v.n \in Int
    /\ v.is = "array" => v.items \in Seq(S)
    /\ \A k \in Keys(v) : v.of[k] \in S

ASSUME JsonAssumption == AllJson(Json)

\* What is good has every key; an edit is to a key of the document or of a
\* block of it, what is deeper being written together.
ASSUME AuthoringAssumption ==
  /\ Files \subseteq {"problem", "config"} /\ NONE \notin {"Source", "Json", "Schema", "Model"}
  /\ \A f \in Files :
       /\ Good[f] \in Json /\ Values[f] \subseteq Json
       /\ Pointers[f] \subseteq Seq(STRING) /\ \A at \in Pointers[f] : Len(at) \in 1..2
       /\ Validate(Manifest(f).schema, Good[f]) = {}
       /\ \A x \in Nodes(Node(Manifest(f).schema, Good[f], << >>)) :
            "properties" \in DOMAIN x.by => DOMAIN x.by.properties \subseteq Keys(x.value)

VARIABLES
  file,     \* which of the two is written
  document, \* its content
  report,   \* what the last load answered, NONE before there is one
  edits,    \* edits so far
  repaired  \* everything that was reported has been repaired

vars == <<file, document, report, edits, repaired>>

Init == /\ file \in Files /\ document = Good[file]
        /\ report = NONE /\ edits = 0 /\ repaired = FALSE

-----------------------------------------------------------------------------
(* Documents, edited.                                                      *)

\* There is an object that `at` is, or could be, a key of.
Fits(v, at) ==
  /\ v.is = "object"
  /\ Len(at) = 2 => at[1] \in Keys(v) /\ v.of[at[1]].is = "object"

\* v with x under the key k, and without k.
With(v, k, x) == Obj([j \in Keys(v) \cup {k} |-> IF j = k THEN x ELSE v.of[j]])
Dropped(v, k) == Obj([j \in Keys(v) \ {k} |-> v.of[j]])

\* v with x at `at`, and without what is at `at`.
Put(v, at, x) ==
  IF Len(at) = 1 THEN With(v, at[1], x)
  ELSE With(v, at[1], With(v.of[at[1]], at[2], x))
Cut(v, at) ==
  IF Len(at) = 1 THEN Dropped(v, at[1])
  ELSE With(v, at[1], Dropped(v.of[at[1]], at[2]))

\* A faulty entry is written anew, `good` being what should be there.
RepairedEntry(v, good, at, violations) ==
  IF \E r \in violations : IsPrefix(at, r.pointer) THEN good ELSE v

\* In an object that is only not of the right shape, what is missing is
\* added, what is unknown taken away, and the rest repaired by Part.
RepairedBy(Part(_, _, _, _), v, good, at, violations) ==
  LET here == {r \in violations : r.pointer = at}
      named(rule) == UNION {r.keys : r \in {r \in here : r.rule = rule}}
  IN  IF \E r \in here : r.rule \notin {"required", "additionalProperties"} THEN good
      ELSE IF v.is # "object" THEN RepairedEntry(v, good, at, violations)
      ELSE Obj([k \in (Keys(v) \ named("additionalProperties")) \cup named("required") |->
                  IF k \in Keys(v) THEN Part(v.of[k], good.of[k], Append(at, k), violations)
                  ELSE good.of[k]])

\* v with everything repaired that the violations name, block by block.
RepairedBlock(v, good, at, violations) == RepairedBy(RepairedEntry, v, good, at, violations)
Repaired(v, good, violations) == RepairedBy(RepairedBlock, v, good, << >>, violations)

-----------------------------------------------------------------------------
\* The author writes something at `at`, or takes away what is there.
Edit(at) ==
  /\ edits < MaxEdits /\ ~repaired
  /\ Fits(document, at)
  /\ \/ \E x \in Values[file] : document' = Put(document, at, x)
     \/ document' = Cut(document, at)
  /\ edits' = edits + 1 /\ report' = NONE
  /\ UNCHANGED <<file, repaired>>

\* The file is lost, or is no JSON any more.
Spoil ==
  /\ edits < MaxEdits /\ ~repaired
  /\ document' \in {Missing, Unparsed}
  /\ edits' = MaxEdits /\ report' = NONE
  /\ UNCHANGED <<file, repaired>>

LoadIt ==
  /\ report = NONE
  /\ report' = Load(file, document)
  /\ UNCHANGED <<file, document, edits, repaired>>

Repair ==
  /\ report # NONE /\ report.error = "Schema" /\ ~repaired
  /\ document' = Repaired(document, Good[file], report.violations)
  /\ repaired' = TRUE /\ report' = NONE
  /\ UNCHANGED <<file, edits>>

Next ==
  \/ \E at \in Pointers[file] : Edit(at)
  \/ Spoil \/ LoadIt \/ Repair

Spec == Init /\ [][Next]_vars

-----------------------------------------------------------------------------
(* Properties.                                                             *)

IsLoaded == report # NONE /\ report.error = NONE

\* Every number in a place that the schema knows is written without a fraction.
Plain == \A x \in Nodes(Node(Manifest(file).schema, document, << >>)) : x.value.is # "float"

\* lib.rs:75-77: the schema and the types agree: what the one lets pass the
\* other takes, as long as no whole number is written with a fraction.
SchemaImpliesTypes ==
  report # NONE /\ Plain => report.error # "Model"

\* schema.rs:50-53: one load reports everything there is to repair, but for a
\* whole number that is written with a fraction.
OneRoundOfFixes == repaired /\ report # NONE /\ Plain => IsLoaded

\* problem.rs:141-153, 184-191: a block that is left out means what an empty
\* block means, though the two get their defaults from different code.
OmittedIsEmpty ==
  LET fields == Manifest(file).type.properties IN
  \A k \in DOMAIN fields :
    IsLoaded /\ k \notin Keys(document) /\ fields[k].kind = "struct" =>
      Load(file, With(document, k, Obj([j \in {} |-> NONE]))) = report

\* config.rs:38-50: every problem a track names, once, in the order in which
\* the tracks first name them.
ReferencedOnce ==
  IsLoaded /\ file = "config" =>
    LET refs == ReferencedProblems(report.value)
        all == Mentions(report.value)
        first(id) == CHOOSE i \in DOMAIN all :
                       all[i] = id /\ \A j \in 1..(i - 1) : all[j] # id
    IN  /\ ToSet(refs) = ToSet(all)
        /\ \A i, j \in DOMAIN refs : i < j => first(refs[i]) < first(refs[j])
=============================================================================
