----------------------------- MODULE Manifests -----------------------------
(***************************************************************************)
(* problem.json and config.json: their schemas, the types they load into,  *)
(* and load (lib.rs), which asks the schema first and serde second.  JSON  *)
(* values, schemas and Rust types are data here, so that the two passes    *)
(* can disagree the way the crates behind them do.                         *)
(***************************************************************************)
EXTENDS Integers, Sequences, SequencesExt, FiniteSets

CONSTANTS
  Slugs,   \* the strings that match ^[a-z0-9]+(-[a-z0-9]+)*$
  Length,  \* Length[s]: how many characters s has
  NONE     \* an absent Option

-----------------------------------------------------------------------------
(* JSON values.  A "float" is a whole number written with a fraction, such *)
(* as 30.0; a "fraction" is a number between n and n + 1.                  *)

Num(is, n) == [is |-> is, n |-> n]
Number(n) == Num("integer", n)
Text(s) == [is |-> "string", text |-> s]
Bool(b) == [is |-> "boolean", b |-> b]
Arr(items) == [is |-> "array", items |-> items]
Obj(f) == [is |-> "object", of |-> f]

IsNumber(v) == v.is \in {"integer", "float", "fraction"}
Whole(v) == v.is \in {"integer", "float"}
Keys(v) == IF v.is = "object" THEN DOMAIN v.of ELSE {}

\* Numbers are equal by value: 1.0 is 1.
Same(v, w) == v = w \/ (Whole(v) /\ Whole(w) /\ v.n = w.n)

-----------------------------------------------------------------------------
(* A schema or a type describes the parts of a value by `properties` and   *)
(* `items`.  A node is a value, what describes it, and its pointer.        *)

Node(by, v, at) == [by |-> by, value |-> v, at |-> at]

\* The parts of a node that its description says something about.
Parts(x) ==
  LET named == IF "properties" \in DOMAIN x.by THEN DOMAIN x.by.properties ELSE {}
      listed == IF "items" \in DOMAIN x.by /\ x.value.is = "array"
                THEN DOMAIN x.value.items ELSE {}
  IN  {Node(x.by.properties[k], x.value.of[k], Append(x.at, k)) : k \in Keys(x.value) \cap named}
      \cup {Node(x.by.items, x.value.items[i], Append(x.at, i)) : i \in listed}

Down(X) == UNION {Parts(x) : x \in X}

\* x and all below it: nothing nests deeper than a list of structs of lists.
Nodes(x) ==
  LET one == Down({x})
      two == Down(one)
      three == Down(two)
  IN  {x} \cup one \cup two \cup three \cup Down(three)

-----------------------------------------------------------------------------
(* A schema is a record of its keywords.                                   *)

Slug(max) == [type |-> "string", pattern |-> TRUE, maxLength |-> max]
NameSlug(max) == [type |-> "string", pattern |-> TRUE, minLength |-> 1, maxLength |-> max]
Title(max) == [type |-> "string", minLength |-> 1, maxLength |-> max]
Between(low, high) == [type |-> "integer", minimum |-> low, maximum |-> high]
Flag == [type |-> "boolean"]
Some(items) == [type |-> "array", minItems |-> 1, items |-> items]
Distinct(items) == [type |-> "array", minItems |-> 1, uniqueItems |-> TRUE, items |-> items]
Closed(properties, required) ==
  [type |-> "object", properties |-> properties, required |-> required]

\* problem.schema.json.
LanguageSchema == [enum |-> {"rust", "py", "cpp"}]
ServicesSchema ==
  Closed([bitcoind |-> [const |-> Bool(TRUE)], lnd |-> Flag, electrs |-> Flag], {})
LimitsSchema == Closed([wall_sec |-> Between(5, 300), memory_mb |-> Between(128, 2048)], {})
ProblemSchema ==
  Closed([schema_version |-> [const |-> Number(1)],
          id |-> NameSlug(64), title |-> Title(120), category |-> Slug(64),
          difficulty |-> [enum |-> {"easy", "medium", "hard"}],
          languages |-> Distinct(LanguageSchema), fixture |-> NameSlug(64),
          services |-> ServicesSchema, limits |-> LimitsSchema],
         {"schema_version", "id", "title", "category", "difficulty",
          "languages", "fixture"})

\* config.schema.json.
FeaturesSchema ==
  Closed([lightning |-> Flag, indexer |-> Flag, objectstore |-> Flag, observability |-> Flag], {})
CategorySchema ==
  Closed([id |-> Slug(64), title |-> Title(120),
          description |-> [type |-> "string", maxLength |-> 500]], {"id", "title"})
TrackSchema ==
  Closed([id |-> Slug(64), title |-> Title(120), problems |-> Distinct(Slug(64))],
         {"id", "title", "problems"})
ConfigSchema ==
  Closed([schema_version |-> [const |-> Number(1)], title |-> Title(120),
          features |-> FeaturesSchema,
          categories |-> Some(CategorySchema), tracks |-> Some(TrackSchema)],
         {"schema_version", "title", "categories", "tracks"})

\* Keyword k of schema s, which is about v itself, is broken.
Breaks(k, s, v) ==
  CASE k = "type"        -> IF s.type = "integer" THEN ~Whole(v) ELSE v.is # s.type
    [] k = "const"       -> ~Same(s.const, v)
    [] k = "enum"        -> ~(v.is = "string" /\ v.text \in s.enum)
    [] k = "minimum"     -> IsNumber(v) /\ v.n < s.minimum
    [] k = "maximum"     -> IsNumber(v) /\ (v.n > s.maximum \/ (v.n = s.maximum /\ ~Whole(v)))
    [] k = "pattern"     -> v.is = "string" /\ v.text \notin Slugs
    [] k = "minLength"   -> v.is = "string" /\ Length[v.text] < s.minLength
    [] k = "maxLength"   -> v.is = "string" /\ Length[v.text] > s.maxLength
    [] k = "minItems"    -> v.is = "array" /\ Len(v.items) < s.minItems
    [] k = "uniqueItems" -> v.is = "array" /\ ~IsInjective(v.items)
    [] OTHER             -> FALSE

\* What an object at `at` breaks: every missing key is a violation of its own,
\* the unknown keys are one.
Misfits(s, v, at) ==
       {[pointer |-> at, rule |-> "required", keys |-> {k}] : k \in s.required \ Keys(v)}
  \cup {[pointer |-> at, rule |-> "additionalProperties", keys |-> extra] :
           extra \in {Keys(v) \ DOMAIN s.properties} \ {{}}}

\* What is wrong with a node, its parts apart.
Broken(x) ==
       {[pointer |-> x.at, rule |-> k, keys |-> {}] : k \in {k \in DOMAIN x.by : Breaks(k, x.by, x.value)}}
  \cup (IF "properties" \in DOMAIN x.by /\ x.value.is = "object"
        THEN Misfits(x.by, x.value, x.at) ELSE {})

\* Validator::iter_errors: every violation of v.
Violations(s, v) == UNION {Broken(x) : x \in Nodes(Node(s, v, << >>))}

\* Mutant: the validator stops at the first violation.
ValidateFirst(s, v) ==
  LET all == Violations(s, v)
  IN  IF all = {} THEN {} ELSE {CHOOSE x \in all : TRUE}

\* validate: sorted and without duplicates, a set here.
Validate(s, v) == Violations(s, v)

-----------------------------------------------------------------------------
(* The types.  A field with #[serde(default)] has what it defaults to; an  *)
(* Option is a field that may be NONE.                                     *)

U32 == [kind |-> "u32"]
Str == [kind |-> "string"]
Boolean == [kind |-> "bool"]
Enum(variants) == [kind |-> "enum", variants |-> variants]
Vec(item) == [kind |-> "vec", items |-> item]
Struct(fields) ==
  [kind |-> "struct", properties |-> [f \in DOMAIN fields |-> fields[f].type],
   defaults |-> [f \in {f \in DOMAIN fields : "default" \in DOMAIN fields[f]} |->
                   fields[f].default]]
Field(type) == [type |-> type]
Defaulted(type, value) == [type |-> type, default |-> value]

DEFAULT_WALL_SEC == 30
DEFAULT_MEMORY_MB == 512

Services ==
  Struct([bitcoind |-> Defaulted(Boolean, TRUE),
          lnd |-> Defaulted(Boolean, FALSE), electrs |-> Defaulted(Boolean, FALSE)])

\* Mutant: Default is derived, and bool::default is false.
ServicesDerived == [bitcoind |-> FALSE, lnd |-> FALSE, electrs |-> FALSE]

\* impl Default for Services.
ServicesDefault == [bitcoind |-> TRUE, lnd |-> FALSE, electrs |-> FALSE]

Limits ==
  Struct([wall_sec |-> Defaulted(U32, DEFAULT_WALL_SEC),
          memory_mb |-> Defaulted(U32, DEFAULT_MEMORY_MB)])

\* impl Default for Limits.
LimitsDefault == [wall_sec |-> DEFAULT_WALL_SEC, memory_mb |-> DEFAULT_MEMORY_MB]

\* Mutant: a language the schema knows and the enum does not.
LanguagesTwo == {"rust", "py"}

Languages == {"rust", "py", "cpp"}

Problem ==
  Struct([schema_version |-> Field(U32), id |-> Field(Str), title |-> Field(Str),
          category |-> Field(Str),
          difficulty |-> Field(Enum({"easy", "medium", "hard"})),
          languages |-> Field(Vec(Enum(Languages))), fixture |-> Field(Str),
          services |-> Defaulted(Services, ServicesDefault),
          limits |-> Defaulted(Limits, LimitsDefault)])

Features ==
  Struct([f \in {"lightning", "indexer", "objectstore", "observability"} |->
            Defaulted(Boolean, FALSE)])

\* impl Default for Features.
FeaturesDefault == [f \in DOMAIN Features.properties |-> FALSE]

Category ==
  Struct([id |-> Field(Str), title |-> Field(Str),
          description |-> Defaulted(Str, NONE)])

Track ==
  Struct([id |-> Field(Str), title |-> Field(Str), problems |-> Field(Vec(Str))])

Config ==
  Struct([schema_version |-> Field(U32), title |-> Field(Str),
          features |-> Defaulted(Features, FeaturesDefault),
          categories |-> Field(Vec(Category)), tracks |-> Field(Vec(Track))])

\* v is what T begins with; deny_unknown_fields holds everywhere.
Takes(T, v) ==
  CASE T.kind = "u32"    -> v.is = "integer" /\ v.n >= 0
    [] T.kind = "string" -> v.is = "string"
    [] T.kind = "bool"   -> v.is = "boolean"
    [] T.kind = "enum"   -> v.is = "string" /\ v.text \in T.variants
    [] T.kind = "vec"    -> v.is = "array"
    [] T.kind = "struct" -> /\ v.is = "object" /\ Keys(v) \subseteq DOMAIN T.properties
                            /\ DOMAIN T.properties \ Keys(v) \subseteq DOMAIN T.defaults

\* serde_json::from_value succeeds ...
Accepts(T, v) == \A x \in Nodes(Node(T, v, << >>)) : Takes(x.by, x.value)

\* ... and what it makes of v, Part being what it makes of the parts.
TypedBy(Part(_, _), T, v) ==
  CASE T.kind = "u32"    -> v.n
    [] T.kind = "string" -> v.text
    [] T.kind = "bool"   -> v.b
    [] T.kind = "enum"   -> v.text
    [] T.kind = "vec"    -> [i \in DOMAIN v.items |-> Part(T.items, v.items[i])]
    [] T.kind = "struct" ->
         [f \in DOMAIN T.properties |-> IF f \in Keys(v) THEN Part(T.properties[f], v.of[f])
                                                          ELSE T.defaults[f]]
NoPart(T, v) == NONE
Typed0(T, v) == TypedBy(NoPart, T, v)
Typed1(T, v) == TypedBy(Typed0, T, v)
Typed2(T, v) == TypedBy(Typed1, T, v)
Typed3(T, v) == TypedBy(Typed2, T, v)
Typed(T, v) == TypedBy(Typed3, T, v)

-----------------------------------------------------------------------------
(* load.                                                                   *)

\* The two files.
Manifest(file) == CASE file = "problem" -> [schema |-> ProblemSchema, type |-> Problem]
                    [] file = "config"  -> [schema |-> ConfigSchema, type |-> Config]

\* What may be in a manifest's place that is no JSON value.
Unparsed == [is |-> "not JSON"]
Missing == [is |-> "missing"]

Failure(error, violations) == [error |-> error, violations |-> violations]
Loaded(x) == [error |-> NONE, value |-> x]

\* load_config and load_problem_from.
Load(file, document) ==
  LET m == Manifest(file)
      broken == Validate(m.schema, document)
  IN  IF document = Missing THEN Failure("Source", {})
      ELSE IF document = Unparsed THEN Failure("Json", {})
      ELSE IF broken # {} THEN Failure("Schema", broken)
      ELSE IF ~Accepts(m.type, document) THEN Failure("Model", {})
      ELSE Loaded(Typed(m.type, document))

\* The problems as the tracks mention them, one track after the other.
Mentions(config) ==
  FlattenSeq([i \in DOMAIN config.tracks |-> config.tracks[i].problems])

\* Mutant: only neighbours are compared, as Vec::dedup does.
ReferencedNeighbours(config) ==
  FoldLeft(LAMBDA seen, id : IF seen # << >> /\ Last(seen) = id THEN seen
                             ELSE Append(seen, id), << >>, Mentions(config))

\* Config::referenced_problems.
ReferencedProblems(config) ==
  LET all == Mentions(config)
      seen[n \in 0..Len(all)] ==
        IF n = 0 THEN << >>
        ELSE LET before == seen[n - 1] IN
             IF Contains(before, all[n]) THEN before ELSE Append(before, all[n])
  IN  seen[Len(all)]
=============================================================================
