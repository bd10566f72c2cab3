-------------------------- MODULE AuthoringProofs --------------------------
(***************************************************************************)
(* Theorems about Authoring, for any JSON values, edits and files: the     *)
(* schemas and the types agree, one report names all there is to repair,   *)
(* an absent block means an empty one, and what the tracks mention is      *)
(* listed once and in order.                                               *)
(***************************************************************************)
EXTENDS Authoring, TreeProofs

-----------------------------------------------------------------------------
(* Nodes.                                                                  *)

\* The fields of a node.
LEMMA Fields ==
  \A by, v, at : /\ Node(by, v, at).by = by /\ Node(by, v, at).value = v
                 /\ Node(by, v, at).at = at
BY DEF Node

\* What is a part: something under a key that is described, or an item.
LEMMA IsPart ==
  ASSUME NEW x, NEW y
  PROVE  y \in Parts(x) <=>
           \/ /\ "properties" \in DOMAIN x.by
              /\ \E k \in Keys(x.value) \cap DOMAIN x.by.properties :
                   y = Node(x.by.properties[k], x.value.of[k], Append(x.at, k))
           \/ /\ "items" \in DOMAIN x.by /\ x.value.is = "array"
              /\ \E i \in DOMAIN x.value.items :
                   y = Node(x.by.items, x.value.items[i], Append(x.at, i))
BY DEF Parts

\* What is below a set of nodes is below one of them.
LEMMA DownIs ==
  ASSUME NEW X, NEW y
  PROVE  y \in Down(X) <=> \E x \in X : y \in Parts(x)
BY DEF Down

\* The levels below a set of nodes ...
Down2(X) == Down(Down(X))
Down3(X) == Down(Down2(X))
Down4(X) == Down(Down3(X))

\* ... are the nodes.
LEMMA NodesAre ==
  ASSUME NEW x
  PROVE  Nodes(x) = {x} \cup Down({x}) \cup Down2({x}) \cup Down3({x}) \cup Down4({x})
BY DEF Nodes, Down2, Down3, Down4

-----------------------------------------------------------------------------
(* JSON.                                                                   *)

\* v is a member of a set that holds the parts of its members.
IsJson(v) == \E S : v \in S /\ AllJson(S)

\* What JSON is made of.
LEMMA JsonIs ==
  ASSUME NEW v, IsJson(v)
  PROVE  /\ IsNumber(v) => v.n \in Int
         /\ v.is = "array" => /\ Len(v.items) \in Nat /\ DOMAIN v.items = 1..Len(v.items)
                              /\ \A i \in DOMAIN v.items : IsJson(v.items[i])
         /\ \A k \in Keys(v) : IsJson(v.of[k])
<1>1. PICK S : v \in S /\ AllJson(S)
  BY DEF IsJson
<1>2. \A w \in S : IsJson(w)
  BY <1>1 DEF IsJson
<1>3. /\ IsNumber(v) => v.n \in Int
      /\ v.is = "array" => v.items \in Seq(S)
      /\ \A k \in Keys(v) : v.of[k] \in S
  BY <1>1 DEF AllJson
<1>4. ASSUME v.is = "array"
      PROVE  /\ Len(v.items) \in Nat /\ DOMAIN v.items = 1..Len(v.items)
             /\ \A i \in DOMAIN v.items : v.items[i] \in S
  <2>1. PICK q \in Seq(S) : q = v.items
    BY <1>3, <1>4
  <2>2. Len(q) \in Nat /\ DOMAIN q = 1..Len(q) /\ \A i \in DOMAIN q : q[i] \in S
    OBVIOUS
  <2> QED
    BY <2>1, <2>2
<1> QED
  BY <1>2, <1>3, <1>4

\* An object of JSON values is one.
LEMMA JsonObject ==
  ASSUME NEW f, \A k \in DOMAIN f : IsJson(f[k])
  PROVE  IsJson(Obj(f)) /\ Keys(Obj(f)) = DOMAIN f /\ Obj(f).of = f /\ Obj(f).is = "object"
<1>1. Obj(f).is = "object" /\ Obj(f).of = f /\ Keys(Obj(f)) = DOMAIN f
  BY DEF Obj, Keys
<1> DEFINE Ts == [k \in DOMAIN f |-> CHOOSE S : f[k] \in S /\ AllJson(S)]
           S == {Obj(f)} \cup UNION {Ts[k] : k \in DOMAIN f}
<1>2. \A k \in DOMAIN f : f[k] \in Ts[k] /\ AllJson(Ts[k])
  BY DEF IsJson
<1> HIDE DEF Ts
<1>3. ~IsNumber(Obj(f)) /\ Obj(f).is # "array"
  BY <1>1 DEF IsNumber
<1>4. \A k \in Keys(Obj(f)) : Obj(f).of[k] \in S
  BY <1>1, <1>2
<1>5. ASSUME NEW k \in DOMAIN f, NEW v \in Ts[k]
      PROVE  /\ IsNumber(v) => v.n \in Int
             /\ v.is = "array" => v.items \in Seq(S)
             /\ \A j \in Keys(v) : v.of[j] \in S
  <2>1. /\ IsNumber(v) => v.n \in Int
        /\ v.is = "array" => v.items \in Seq(Ts[k])
        /\ \A j \in Keys(v) : v.of[j] \in Ts[k]
    BY <1>2, <1>5 DEF AllJson
  <2>2. Ts[k] \subseteq S
    OBVIOUS
  <2> HIDE DEF S
  <2>3. Seq(Ts[k]) \subseteq Seq(S)
    BY <2>2
  <2> QED
    BY <2>1, <2>2, <2>3
<1>6. AllJson(S)
  BY <1>3, <1>4, <1>5 DEF AllJson
<1>7. Obj(f) \in S
  OBVIOUS
<1> QED
  BY <1>1, <1>6, <1>7 DEF IsJson

\* A set of nodes of JSON values, and what is below it.
JsonNodes(X) == \A x \in X : IsJson(x.value)

\* Parts of JSON are JSON.
LEMMA JsonDown ==
  ASSUME NEW X, JsonNodes(X)
  PROVE  JsonNodes(Down(X))
<1>1. SUFFICES ASSUME NEW x \in X, NEW y \in Parts(x) PROVE IsJson(y.value)
  BY DownIs DEF JsonNodes
<1>2. IsJson(x.value)
  BY DEF JsonNodes
<1> QED
  BY <1>1, <1>2, IsPart, JsonIs, Fields

\* All nodes of a JSON value are.
LEMMA JsonBelow ==
  ASSUME NEW x, IsJson(x.value)
  PROVE  JsonNodes(Nodes(x))
<1>1. JsonNodes({x})
  BY DEF JsonNodes
<1>2. JsonNodes(Down({x}))
  BY <1>1, JsonDown
<1>3. JsonNodes(Down2({x}))
  BY <1>2, JsonDown DEF Down2
<1>4. JsonNodes(Down3({x}))
  BY <1>3, JsonDown DEF Down3
<1>5. JsonNodes(Down4({x}))
  BY <1>4, JsonDown DEF Down4
<1> QED
  BY <1>1, <1>2, <1>3, <1>4, <1>5, NodesAre DEF JsonNodes

-----------------------------------------------------------------------------
(* What a schema lets pass, a type takes.                                  *)

\* A value that s has nothing against, its parts apart.
Sound(s, v) ==
  /\ \A k \in DOMAIN s : ~Breaks(k, s, v)
  /\ "properties" \in DOMAIN s /\ v.is = "object" =>
       s.required \subseteq Keys(v) /\ Keys(v) \subseteq DOMAIN s.properties

\* ... is one of which nothing is reported.
LEMMA SoundIs ==
  ASSUME NEW x
  PROVE  Broken(x) = {} <=> Sound(x.by, x.value)
<1> DEFINE s == x.by
           v == x.value
           own == {[pointer |-> x.at, rule |-> k, keys |-> {}] :
                     k \in {k \in DOMAIN s : Breaks(k, s, v)}}
<1>1. own = {} <=> \A k \in DOMAIN s : ~Breaks(k, s, v)
  OBVIOUS
<1>2. Misfits(s, v, x.at) = {} <=> s.required \subseteq Keys(v) /\ Keys(v) \subseteq DOMAIN s.properties
  <2>1. s.required \ Keys(v) = {} <=>
          {[pointer |-> x.at, rule |-> "required", keys |-> {k}] : k \in s.required \ Keys(v)} = {}
    OBVIOUS
  <2>2. {Keys(v) \ DOMAIN s.properties} \ {{}} = {} <=>
          {[pointer |-> x.at, rule |-> "additionalProperties", keys |-> extra] :
             extra \in {Keys(v) \ DOMAIN s.properties} \ {{}}} = {}
    <3>1. PICK E : E = {Keys(v) \ DOMAIN s.properties} \ {{}}
      OBVIOUS
    <3>2. E = {} <=> {[pointer |-> x.at, rule |-> "additionalProperties", keys |-> extra] :
                        extra \in E} = {}
      BY ZenonT(30)
    <3> QED
      BY <3>1, <3>2
  <2>3. {Keys(v) \ DOMAIN s.properties} \ {{}} = {} <=> Keys(v) \ DOMAIN s.properties = {}
    OBVIOUS
  <2> QED
    BY <2>1, <2>2, <2>3 DEF Misfits
<1> QED
  BY <1>1, <1>2 DEF Broken, Sound

\* Numbers are integers, and written without a fraction.
Exact(v) == (IsNumber(v) => v.n \in Int) /\ v.is # "float"

\* T takes what s has nothing against.
Compatible(s, T) == \A v : Exact(v) /\ Sound(s, v) => Takes(T, v)

\* A boolean.
LEMMA FlagsAreBooleans == Compatible(Flag, Boolean) /\ Compatible([const |-> Bool(TRUE)], Boolean)
<1>1. Compatible(Flag, Boolean)
  BY DEF Compatible, Sound, Breaks, Flag, Boolean, Takes
<1>2. Compatible([const |-> Bool(TRUE)], Boolean)
  BY DEF Compatible, Sound, Breaks, Bool, Boolean, Takes, Same, Whole
<1> QED
  BY <1>1, <1>2

\* A string.
LEMMA TextsAreStrings ==
  ASSUME NEW s, "type" \in DOMAIN s, s.type = "string"
  PROVE  Compatible(s, Str)
BY DEF Compatible, Sound, Breaks, Str, Takes

\* A number.
LEMMA NumbersAreU32 ==
  /\ \A low \in Nat : \A high : Compatible(Between(low, high), U32)
  /\ Compatible([const |-> Number(1)], U32)
<1>1. ASSUME NEW low \in Nat, NEW high PROVE Compatible(Between(low, high), U32)
  <2>1. SUFFICES ASSUME NEW v, Exact(v), Sound(Between(low, high), v)
                 PROVE  v.is = "integer" /\ v.n >= 0
    BY DEF Compatible, Takes, U32
  <2>2. ~Breaks("type", Between(low, high), v) /\ ~Breaks("minimum", Between(low, high), v)
    BY <2>1 DEF Sound, Between
  <2>3. Whole(v) /\ ~(IsNumber(v) /\ v.n < low)
    BY <2>2 DEF Breaks, Between
  <2> QED
    BY <2>1, <2>3 DEF Exact, Whole, IsNumber
<1>2. Compatible([const |-> Number(1)], U32)
  <2>1. SUFFICES ASSUME NEW v, Exact(v), Sound([const |-> Number(1)], v)
                 PROVE  v.is = "integer" /\ v.n >= 0
    BY DEF Compatible, Takes, U32
  <2>2. Same(Number(1), v)
    BY <2>1 DEF Sound, Breaks
  <2> QED
    BY <2>1, <2>2 DEF Same, Number, Num, Whole, Exact
<1> QED
  BY <1>1, <1>2

\* A choice.
LEMMA ChoicesAreEnums ==
  ASSUME NEW choices, NEW variants, choices \subseteq variants
  PROVE  Compatible([enum |-> choices], Enum(variants))
BY DEF Compatible, Sound, Breaks, Enum, Takes

\* A list.
LEMMA ListsAreVecs ==
  ASSUME NEW s, "type" \in DOMAIN s, s.type = "array", NEW item
  PROVE  Compatible(s, Vec(item))
BY DEF Compatible, Sound, Breaks, Vec, Takes

\* An object: what is not required has a default.
LEMMA ObjectsAreStructs ==
  ASSUME NEW properties, NEW required, NEW T, T.kind = "struct",
         DOMAIN properties = DOMAIN T.properties,
         DOMAIN T.properties \ required \subseteq DOMAIN T.defaults
  PROVE  Compatible(Closed(properties, required), T)
<1>1. SUFFICES ASSUME NEW v, Sound(Closed(properties, required), v) PROVE Takes(T, v)
  BY DEF Compatible
<1>2. ~Breaks("type", Closed(properties, required), v)
  BY <1>1 DEF Sound, Closed
<1>3. v.is = "object"
  BY <1>2 DEF Breaks, Closed
<1>4. required \subseteq Keys(v) /\ Keys(v) \subseteq DOMAIN properties
  BY <1>1, <1>3 DEF Sound, Closed
<1> QED
  BY <1>3, <1>4 DEF Takes

\* Each schema with the type of the same values, where there are parts ...
Blocks ==
  {<<ProblemSchema, Problem>>, <<ConfigSchema, Config>>, <<ServicesSchema, Services>>,
   <<LimitsSchema, Limits>>, <<FeaturesSchema, Features>>,
   <<CategorySchema, Category>>, <<TrackSchema, Track>>}
Lists ==
  {<<Distinct(LanguageSchema), Vec(Enum(Languages))>>,
   <<Some(CategorySchema), Vec(Category)>>,
   <<Some(TrackSchema), Vec(Track)>>, <<Distinct(Slug(64)), Vec(Str)>>}

\* ... and where there are none.
Leaf(s, T) == Compatible(s, T) /\ "properties" \notin DOMAIN T /\ "items" \notin DOMAIN T

Twins(s, T) == <<s, T>> \in Blocks \/ <<s, T>> \in Lists \/ Leaf(s, T)

\* The type takes what the schema has nothing against, and where both have a
\* part, these are twins again.
Alike(s, T) ==
  /\ Compatible(s, T)
  /\ "properties" \in DOMAIN T =>
       /\ "properties" \in DOMAIN s
       /\ \A k \in DOMAIN T.properties \cap DOMAIN s.properties :
            Twins(s.properties[k], T.properties[k])
  /\ "items" \in DOMAIN T => "items" \in DOMAIN s /\ Twins(s.items, T.items)

\* The leaves.
LEMMA TheLeaves ==
  /\ Leaf([const |-> Number(1)], U32)
  /\ Leaf(Between(5, 300), U32) /\ Leaf(Between(128, 2048), U32)
  /\ Leaf(NameSlug(64), Str) /\ Leaf(Slug(64), Str) /\ Leaf(Title(120), Str)
  /\ Leaf([type |-> "string", maxLength |-> 500], Str)
  /\ Leaf([enum |-> {"easy", "medium", "hard"}], Enum({"easy", "medium", "hard"}))
  /\ Leaf(LanguageSchema, Enum(Languages))
  /\ Leaf([const |-> Bool(TRUE)], Boolean) /\ Leaf(Flag, Boolean)
<1>1. /\ "properties" \notin DOMAIN U32 /\ "items" \notin DOMAIN U32
      /\ "properties" \notin DOMAIN Str /\ "items" \notin DOMAIN Str
      /\ "properties" \notin DOMAIN Boolean /\ "items" \notin DOMAIN Boolean
      /\ \A X : "properties" \notin DOMAIN Enum(X) /\ "items" \notin DOMAIN Enum(X)
  BY DEF U32, Str, Boolean, Enum
<1>2. Compatible(NameSlug(64), Str)
  BY TextsAreStrings DEF NameSlug
<1>3. Compatible(Slug(64), Str)
  BY TextsAreStrings DEF Slug
<1>4. Compatible(Title(120), Str)
  BY TextsAreStrings DEF Title
<1>5. Compatible([type |-> "string", maxLength |-> 500], Str)
  BY TextsAreStrings
<1>6. /\ Compatible([const |-> Number(1)], U32)
      /\ Compatible(Between(5, 300), U32) /\ Compatible(Between(128, 2048), U32)
  BY NumbersAreU32
<1>7. /\ Compatible([enum |-> {"easy", "medium", "hard"}], Enum({"easy", "medium", "hard"}))
      /\ Compatible(LanguageSchema, Enum(Languages))
  BY ChoicesAreEnums DEF LanguageSchema, Languages
<1> QED
  BY <1>1, <1>2, <1>3, <1>4, <1>5, <1>6, <1>7, FlagsAreBooleans DEF Leaf

\* Lists.
LEMMA ListsAreAlike == \A s, T : <<s, T>> \in Lists => Alike(s, T)
<1>1. ASSUME NEW item, NEW T, Twins(item, T)
      PROVE  Alike(Distinct(item), Vec(T)) /\ Alike(Some(item), Vec(T))
  <2>1. Compatible(Distinct(item), Vec(T)) /\ Compatible(Some(item), Vec(T))
    BY ListsAreVecs DEF Distinct, Some
  <2>2. /\ "properties" \notin DOMAIN Vec(T) /\ Vec(T).items = T
        /\ "items" \in DOMAIN Distinct(item) /\ Distinct(item).items = item
        /\ "items" \in DOMAIN Some(item) /\ Some(item).items = item
    BY DEF Vec, Distinct, Some
  <2> QED
    BY <1>1, <2>1, <2>2 DEF Alike
<1>2. /\ Twins(LanguageSchema, Enum(Languages)) /\ Twins(CategorySchema, Category)
      /\ Twins(TrackSchema, Track) /\ Twins(Slug(64), Str)
  BY TheLeaves DEF Twins, Blocks
<1> QED
  BY <1>1, <1>2 DEF Lists

\* What a struct is made of.
LEMMA StructIs ==
  ASSUME NEW fields
  PROVE  /\ Struct(fields).kind = "struct" /\ "items" \notin DOMAIN Struct(fields)
         /\ "properties" \in DOMAIN Struct(fields)
         /\ DOMAIN Struct(fields).properties = DOMAIN fields
         /\ \A f \in DOMAIN fields : Struct(fields).properties[f] = fields[f].type
         /\ DOMAIN Struct(fields).defaults = {f \in DOMAIN fields : "default" \in DOMAIN fields[f]}
         /\ \A f \in DOMAIN Struct(fields).defaults :
              Struct(fields).defaults[f] = fields[f].default
BY DEF Struct

\* ... and a field.
LEMMA FieldIs ==
  \A T, v : /\ Field(T).type = T /\ "default" \notin DOMAIN Field(T)
           /\ Defaulted(T, v).type = T /\ Defaulted(T, v).default = v
           /\ "default" \in DOMAIN Defaulted(T, v)
BY DEF Field, Defaulted

\* problem.json.
LEMMA ProblemIsAlike == Alike(ProblemSchema, Problem)
<1>1. PICK fields : Problem = Struct(fields) /\ fields = [schema_version |-> Field(U32), id |-> Field(Str), title |-> Field(Str),
                        category |-> Field(Str),
                        difficulty |-> Field(Enum({"easy", "medium", "hard"})),
                        languages |-> Field(Vec(Enum(Languages))), fixture |-> Field(Str),
                        services |-> Defaulted(Services, ServicesDefault),
                        limits |-> Defaulted(Limits, LimitsDefault)]
  BY DEF Problem
<1>2. DOMAIN fields = {"schema_version", "id", "title", "category", "difficulty", "languages", "fixture", "services", "limits"}
  BY <1>1
<1>3. /\ Problem.kind = "struct" /\ "items" \notin DOMAIN Problem /\ "properties" \in DOMAIN Problem
      /\ DOMAIN Problem.properties = DOMAIN fields
      /\ \A f \in DOMAIN fields : Problem.properties[f] = fields[f].type
      /\ DOMAIN Problem.defaults = {f \in DOMAIN fields : "default" \in DOMAIN fields[f]}
  <2>1. Problem = Struct(fields)
    BY <1>1, Zenon
  <2> QED
    BY <2>1, StructIs
<1>4. DOMAIN Problem.defaults = {"services", "limits"}
  <2>1. ASSUME NEW f \in DOMAIN fields PROVE "default" \in DOMAIN fields[f] <=> f \in {"services", "limits"}
    BY <1>1, <1>2, <2>1 DEF Field, Defaulted
  <2>2. {"services", "limits"} \subseteq DOMAIN fields
    BY <1>2
  <2> QED
    BY <1>3, <2>1, <2>2
<1>5. PICK properties, required :
        ProblemSchema = Closed(properties, required) /\ DOMAIN properties = DOMAIN fields
        /\ required = DOMAIN fields \ {"services", "limits"}
  BY <1>2 DEF ProblemSchema
<1>6. "properties" \in DOMAIN ProblemSchema /\ ProblemSchema.properties = properties
  BY <1>5 DEF Closed
<1>7. Compatible(ProblemSchema, Problem)
  BY <1>3, <1>4, <1>5, ObjectsAreStructs
<1>8. ASSUME NEW k \in DOMAIN fields PROVE Twins(ProblemSchema.properties[k], Problem.properties[k])
  <2>1. Problem.properties[k] = fields[k].type
    BY <1>3
  <2>2. CASE k = "schema_version"
    <3>1. ProblemSchema.properties[k] = [const |-> Number(1)]
      BY <2>2 DEF ProblemSchema, Closed
    <3>2. fields[k].type = U32
      BY <1>1, <2>2 DEF Field, Defaulted
    <3> QED
      BY <2>1, <3>1, <3>2, TheLeaves DEF Twins
  <2>3. CASE k \in {"id", "fixture"}
    <3>1. ProblemSchema.properties[k] = NameSlug(64)
      BY <2>3 DEF ProblemSchema, Closed
    <3>2. fields[k].type = Str
      BY <1>1, <2>3 DEF Field, Defaulted
    <3> QED
      BY <2>1, <3>1, <3>2, TheLeaves DEF Twins
  <2>4. CASE k = "title"
    <3>1. ProblemSchema.properties[k] = Title(120)
      BY <2>4 DEF ProblemSchema, Closed
    <3>2. fields[k].type = Str
      BY <1>1, <2>4 DEF Field, Defaulted
    <3> QED
      BY <2>1, <3>1, <3>2, TheLeaves DEF Twins
  <2>5. CASE k = "category"
    <3>1. ProblemSchema.properties[k] = Slug(64)
      BY <2>5 DEF ProblemSchema, Closed
    <3>2. fields[k].type = Str
      BY <1>1, <2>5 DEF Field, Defaulted
    <3> QED
      BY <2>1, <3>1, <3>2, TheLeaves DEF Twins
  <2>6. CASE k = "difficulty"
    <3>1. ProblemSchema.properties[k] = [enum |-> {"easy", "medium", "hard"}]
      BY <2>6 DEF ProblemSchema, Closed
    <3>2. fields[k].type = Enum({"easy", "medium", "hard"})
      BY <1>1, <2>6 DEF Field, Defaulted
    <3> QED
      BY <2>1, <3>1, <3>2, TheLeaves DEF Twins
  <2>7. CASE k = "languages"
    <3>1. ProblemSchema.properties[k] = Distinct(LanguageSchema)
      BY <2>7 DEF ProblemSchema, Closed
    <3>2. fields[k].type = Vec(Enum(Languages))
      BY <1>1, <2>7 DEF Field, Defaulted
    <3> QED
      BY <2>1, <3>1, <3>2, TheLeaves DEF Twins, Lists
  <2>8. CASE k = "services"
    <3>1. ProblemSchema.properties[k] = ServicesSchema
      BY <2>8 DEF ProblemSchema, Closed
    <3>2. fields[k].type = Services
      BY <1>1, <2>8 DEF Field, Defaulted
    <3> QED
      BY <2>1, <3>1, <3>2, TheLeaves DEF Twins, Blocks
  <2>9. CASE k = "limits"
    <3>1. ProblemSchema.properties[k] = LimitsSchema
      BY <2>9 DEF ProblemSchema, Closed
    <3>2. fields[k].type = Limits
      BY <1>1, <2>9 DEF Field, Defaulted
    <3> QED
      BY <2>1, <3>1, <3>2, TheLeaves DEF Twins, Blocks
  <2> QED
    BY <1>2, <2>2, <2>3, <2>4, <2>5, <2>6, <2>7, <2>8, <2>9
<1> QED
  BY <1>3, <1>5, <1>6, <1>7, <1>8 DEF Alike

\* config.json.
LEMMA ConfigIsAlike == Alike(ConfigSchema, Config)
<1>1. PICK fields : Config = Struct(fields) /\ fields = [schema_version |-> Field(U32), title |-> Field(Str),
                        features |-> Defaulted(Features, FeaturesDefault),
                        categories |-> Field(Vec(Category)), tracks |-> Field(Vec(Track))]
  BY DEF Config
<1>2. DOMAIN fields = {"schema_version", "title", "features", "categories", "tracks"}
  BY <1>1
<1>3. /\ Config.kind = "struct" /\ "items" \notin DOMAIN Config /\ "properties" \in DOMAIN Config
      /\ DOMAIN Config.properties = DOMAIN fields
      /\ \A f \in DOMAIN fields : Config.properties[f] = fields[f].type
      /\ DOMAIN Config.defaults = {f \in DOMAIN fields : "default" \in DOMAIN fields[f]}
  <2>1. Config = Struct(fields)
    BY <1>1, Zenon
  <2> QED
    BY <2>1, StructIs
<1>4. DOMAIN Config.defaults = {"features"}
  <2>1. ASSUME NEW f \in DOMAIN fields PROVE "default" \in DOMAIN fields[f] <=> f \in {"features"}
    BY <1>1, <1>2, <2>1 DEF Field, Defaulted
  <2>2. {"features"} \subseteq DOMAIN fields
    BY <1>2
  <2> QED
    BY <1>3, <2>1, <2>2
<1>5. PICK properties, required :
        ConfigSchema = Closed(properties, required) /\ DOMAIN properties = DOMAIN fields
        /\ required = DOMAIN fields \ {"features"}
  BY <1>2 DEF ConfigSchema
<1>6. "properties" \in DOMAIN ConfigSchema /\ ConfigSchema.properties = properties
  BY <1>5 DEF Closed
<1>7. Compatible(ConfigSchema, Config)
  BY <1>3, <1>4, <1>5, ObjectsAreStructs
<1>8. ASSUME NEW k \in DOMAIN fields PROVE Twins(ConfigSchema.properties[k], Config.properties[k])
  <2>1. Config.properties[k] = fields[k].type
    BY <1>3
  <2>2. CASE k = "schema_version"
    <3>1. ConfigSchema.properties[k] = [const |-> Number(1)]
      BY <2>2 DEF ConfigSchema, Closed
    <3>2. fields[k].type = U32
      BY <1>1, <2>2 DEF Field, Defaulted
    <3> QED
      BY <2>1, <3>1, <3>2, TheLeaves DEF Twins
  <2>3. CASE k = "title"
    <3>1. ConfigSchema.properties[k] = Title(120)
      BY <2>3 DEF ConfigSchema, Closed
    <3>2. fields[k].type = Str
      BY <1>1, <2>3 DEF Field, Defaulted
    <3> QED
      BY <2>1, <3>1, <3>2, TheLeaves DEF Twins
  <2>4. CASE k = "features"
    <3>1. ConfigSchema.properties[k] = FeaturesSchema
      BY <2>4 DEF ConfigSchema, Closed
    <3>2. fields[k].type = Features
      BY <1>1, <2>4 DEF Field, Defaulted
    <3> QED
      BY <2>1, <3>1, <3>2, TheLeaves DEF Twins, Blocks
  <2>5. CASE k = "categories"
    <3>1. ConfigSchema.properties[k] = Some(CategorySchema)
      BY <2>5 DEF ConfigSchema, Closed
    <3>2. fields[k].type = Vec(Category)
      BY <1>1, <2>5 DEF Field, Defaulted
    <3> QED
      BY <2>1, <3>1, <3>2, TheLeaves DEF Twins, Lists
  <2>6. CASE k = "tracks"
    <3>1. ConfigSchema.properties[k] = Some(TrackSchema)
      BY <2>6 DEF ConfigSchema, Closed
    <3>2. fields[k].type = Vec(Track)
      BY <1>1, <2>6 DEF Field, Defaulted
    <3> QED
      BY <2>1, <3>1, <3>2, TheLeaves DEF Twins, Lists
  <2> QED
    BY <1>2, <2>2, <2>3, <2>4, <2>5, <2>6
<1> QED
  BY <1>3, <1>5, <1>6, <1>7, <1>8 DEF Alike

\* The services of a problem.
LEMMA ServicesIsAlike == Alike(ServicesSchema, Services)
<1>1. PICK fields : Services = Struct(fields) /\ fields = [bitcoind |-> Defaulted(Boolean, TRUE),
                                   lnd |-> Defaulted(Boolean, FALSE),
                                   electrs |-> Defaulted(Boolean, FALSE)]
  BY DEF Services
<1>2. DOMAIN fields = {"bitcoind", "lnd", "electrs"}
  BY <1>1
<1>3. /\ Services.kind = "struct" /\ "items" \notin DOMAIN Services /\ "properties" \in DOMAIN Services
      /\ DOMAIN Services.properties = DOMAIN fields
      /\ \A f \in DOMAIN fields : Services.properties[f] = fields[f].type
      /\ DOMAIN Services.defaults = {f \in DOMAIN fields : "default" \in DOMAIN fields[f]}
  <2>1. Services = Struct(fields)
    BY <1>1, Zenon
  <2> QED
    BY <2>1, StructIs
<1>4. DOMAIN Services.defaults = {"bitcoind", "lnd", "electrs"}
  <2>1. ASSUME NEW f \in DOMAIN fields PROVE "default" \in DOMAIN fields[f] <=> f \in {"bitcoind", "lnd", "electrs"}
    BY <1>1, <1>2, <2>1 DEF Field, Defaulted
  <2>2. {"bitcoind", "lnd", "electrs"} \subseteq DOMAIN fields
    BY <1>2
  <2> QED
    BY <1>3, <2>1, <2>2
<1>5. PICK properties, required :
        ServicesSchema = Closed(properties, required) /\ DOMAIN properties = DOMAIN fields
        /\ required = DOMAIN fields \ {"bitcoind", "lnd", "electrs"}
  BY <1>2 DEF ServicesSchema
<1>6. "properties" \in DOMAIN ServicesSchema /\ ServicesSchema.properties = properties
  BY <1>5 DEF Closed
<1>7. Compatible(ServicesSchema, Services)
  BY <1>3, <1>4, <1>5, ObjectsAreStructs
<1>8. ASSUME NEW k \in DOMAIN fields PROVE Twins(ServicesSchema.properties[k], Services.properties[k])
  <2>1. Services.properties[k] = fields[k].type
    BY <1>3
  <2>2. CASE k = "bitcoind"
    <3>1. ServicesSchema.properties[k] = [const |-> Bool(TRUE)]
      BY <2>2 DEF ServicesSchema, Closed
    <3>2. fields[k].type = Boolean
      BY <1>1, <2>2 DEF Field, Defaulted
    <3> QED
      BY <2>1, <3>1, <3>2, TheLeaves DEF Twins
  <2>3. CASE k \in {"lnd", "electrs"}
    <3>1. ServicesSchema.properties[k] = Flag
      BY <2>3 DEF ServicesSchema, Closed
    <3>2. fields[k].type = Boolean
      BY <1>1, <2>3 DEF Field, Defaulted
    <3> QED
      BY <2>1, <3>1, <3>2, TheLeaves DEF Twins
  <2> QED
    BY <1>2, <2>2, <2>3
<1> QED
  BY <1>3, <1>5, <1>6, <1>7, <1>8 DEF Alike

\* The limits of a problem.
LEMMA LimitsIsAlike == Alike(LimitsSchema, Limits)
<1>1. PICK fields : Limits = Struct(fields) /\ fields = [wall_sec |-> Defaulted(U32, DEFAULT_WALL_SEC),
                                   memory_mb |-> Defaulted(U32, DEFAULT_MEMORY_MB)]
  BY DEF Limits
<1>2. DOMAIN fields = {"wall_sec", "memory_mb"}
  BY <1>1
<1>3. /\ Limits.kind = "struct" /\ "items" \notin DOMAIN Limits /\ "properties" \in DOMAIN Limits
      /\ DOMAIN Limits.properties = DOMAIN fields
      /\ \A f \in DOMAIN fields : Limits.properties[f] = fields[f].type
      /\ DOMAIN Limits.defaults = {f \in DOMAIN fields : "default" \in DOMAIN fields[f]}
  <2>1. Limits = Struct(fields)
    BY <1>1, Zenon
  <2> QED
    BY <2>1, StructIs
<1>4. DOMAIN Limits.defaults = {"wall_sec", "memory_mb"}
  <2>1. ASSUME NEW f \in DOMAIN fields PROVE "default" \in DOMAIN fields[f] <=> f \in {"wall_sec", "memory_mb"}
    BY <1>1, <1>2, <2>1 DEF Field, Defaulted
  <2>2. {"wall_sec", "memory_mb"} \subseteq DOMAIN fields
    BY <1>2
  <2> QED
    BY <1>3, <2>1, <2>2
<1>5. PICK properties, required :
        LimitsSchema = Closed(properties, required) /\ DOMAIN properties = DOMAIN fields
        /\ required = DOMAIN fields \ {"wall_sec", "memory_mb"}
  BY <1>2 DEF LimitsSchema
<1>6. "properties" \in DOMAIN LimitsSchema /\ LimitsSchema.properties = properties
  BY <1>5 DEF Closed
<1>7. Compatible(LimitsSchema, Limits)
  BY <1>3, <1>4, <1>5, ObjectsAreStructs
<1>8. ASSUME NEW k \in DOMAIN fields PROVE Twins(LimitsSchema.properties[k], Limits.properties[k])
  <2>1. Limits.properties[k] = fields[k].type
    BY <1>3
  <2>2. CASE k = "wall_sec"
    <3>1. LimitsSchema.properties[k] = Between(5, 300)
      BY <2>2 DEF LimitsSchema, Closed
    <3>2. fields[k].type = U32
      BY <1>1, <2>2 DEF Field, Defaulted
    <3> QED
      BY <2>1, <3>1, <3>2, TheLeaves DEF Twins
  <2>3. CASE k = "memory_mb"
    <3>1. LimitsSchema.properties[k] = Between(128, 2048)
      BY <2>3 DEF LimitsSchema, Closed
    <3>2. fields[k].type = U32
      BY <1>1, <2>3 DEF Field, Defaulted
    <3> QED
      BY <2>1, <3>1, <3>2, TheLeaves DEF Twins
  <2> QED
    BY <1>2, <2>2, <2>3
<1> QED
  BY <1>3, <1>5, <1>6, <1>7, <1>8 DEF Alike

\* The features of an instance.
LEMMA FeaturesIsAlike == Alike(FeaturesSchema, Features)
<1>1. PICK fields : Features = Struct(fields) /\ fields = [f \in {"lightning", "indexer", "objectstore", "observability"} |->
                                   Defaulted(Boolean, FALSE)]
  BY DEF Features
<1>2. DOMAIN fields = {"lightning", "indexer", "objectstore", "observability"}
  BY <1>1
<1>3. /\ Features.kind = "struct" /\ "items" \notin DOMAIN Features /\ "properties" \in DOMAIN Features
      /\ DOMAIN Features.properties = DOMAIN fields
      /\ \A f \in DOMAIN fields : Features.properties[f] = fields[f].type
      /\ DOMAIN Features.defaults = {f \in DOMAIN fields : "default" \in DOMAIN fields[f]}
  <2>1. Features = Struct(fields)
    BY <1>1, Zenon
  <2> QED
    BY <2>1, StructIs
<1>4. DOMAIN Features.defaults = {"lightning", "indexer", "objectstore", "observability"}
  <2>1. ASSUME NEW f \in DOMAIN fields PROVE "default" \in DOMAIN fields[f] <=> f \in {"lightning", "indexer", "objectstore", "observability"}
    BY <1>1, <1>2, <2>1 DEF Field, Defaulted
  <2>2. {"lightning", "indexer", "objectstore", "observability"} \subseteq DOMAIN fields
    BY <1>2
  <2> QED
    BY <1>3, <2>1, <2>2
<1>5. PICK properties, required :
        FeaturesSchema = Closed(properties, required) /\ DOMAIN properties = DOMAIN fields
        /\ required = DOMAIN fields \ {"lightning", "indexer", "objectstore", "observability"}
  BY <1>2 DEF FeaturesSchema
<1>6. "properties" \in DOMAIN FeaturesSchema /\ FeaturesSchema.properties = properties
  BY <1>5 DEF Closed
<1>7. Compatible(FeaturesSchema, Features)
  BY <1>3, <1>4, <1>5, ObjectsAreStructs
<1>8. ASSUME NEW k \in DOMAIN fields PROVE Twins(FeaturesSchema.properties[k], Features.properties[k])
  <2>1. Features.properties[k] = fields[k].type
    BY <1>3
  <2>2. CASE k \in {"lightning", "indexer", "objectstore", "observability"}
    <3>1. FeaturesSchema.properties[k] = Flag
      BY <2>2 DEF FeaturesSchema, Closed
    <3>2. fields[k].type = Boolean
      BY <1>1, <2>2 DEF Field, Defaulted
    <3> QED
      BY <2>1, <3>1, <3>2, TheLeaves DEF Twins
  <2> QED
    BY <1>2, <2>2
<1> QED
  BY <1>3, <1>5, <1>6, <1>7, <1>8 DEF Alike

\* A category.
LEMMA CategoryIsAlike == Alike(CategorySchema, Category)
<1>1. PICK fields : Category = Struct(fields) /\ fields = [id |-> Field(Str), title |-> Field(Str),
                                   description |-> Defaulted(Str, NONE)]
  BY DEF Category
<1>2. DOMAIN fields = {"id", "title", "description"}
  BY <1>1
<1>3. /\ Category.kind = "struct" /\ "items" \notin DOMAIN Category /\ "properties" \in DOMAIN Category
      /\ DOMAIN Category.properties = DOMAIN fields
      /\ \A f \in DOMAIN fields : Category.properties[f] = fields[f].type
      /\ DOMAIN Category.defaults = {f \in DOMAIN fields : "default" \in DOMAIN fields[f]}
  <2>1. Category = Struct(fields)
    BY <1>1, Zenon
  <2> QED
    BY <2>1, StructIs
<1>4. DOMAIN Category.defaults = {"description"}
  <2>1. ASSUME NEW f \in DOMAIN fields PROVE "default" \in DOMAIN fields[f] <=> f \in {"description"}
    BY <1>1, <1>2, <2>1 DEF Field, Defaulted
  <2>2. {"description"} \subseteq DOMAIN fields
    BY <1>2
  <2> QED
    BY <1>3, <2>1, <2>2
<1>5. PICK properties, required :
        CategorySchema = Closed(properties, required) /\ DOMAIN properties = DOMAIN fields
        /\ required = DOMAIN fields \ {"description"}
  BY <1>2 DEF CategorySchema
<1>6. "properties" \in DOMAIN CategorySchema /\ CategorySchema.properties = properties
  BY <1>5 DEF Closed
<1>7. Compatible(CategorySchema, Category)
  BY <1>3, <1>4, <1>5, ObjectsAreStructs
<1>8. ASSUME NEW k \in DOMAIN fields PROVE Twins(CategorySchema.properties[k], Category.properties[k])
  <2>1. Category.properties[k] = fields[k].type
    BY <1>3
  <2>2. CASE k = "id"
    <3>1. CategorySchema.properties[k] = Slug(64)
      BY <2>2 DEF CategorySchema, Closed
    <3>2. fields[k].type = Str
      BY <1>1, <2>2 DEF Field, Defaulted
    <3> QED
      BY <2>1, <3>1, <3>2, TheLeaves DEF Twins
  <2>3. CASE k = "title"
    <3>1. CategorySchema.properties[k] = Title(120)
      BY <2>3 DEF CategorySchema, Closed
    <3>2. fields[k].type = Str
      BY <1>1, <2>3 DEF Field, Defaulted
    <3> QED
      BY <2>1, <3>1, <3>2, TheLeaves DEF Twins
  <2>4. CASE k = "description"
    <3>1. CategorySchema.properties[k] = [type |-> "string", maxLength |-> 500]
      BY <2>4 DEF CategorySchema, Closed
    <3>2. fields[k].type = Str
      BY <1>1, <2>4 DEF Field, Defaulted
    <3> QED
      BY <2>1, <3>1, <3>2, TheLeaves DEF Twins
  <2> QED
    BY <1>2, <2>2, <2>3, <2>4
<1> QED
  BY <1>3, <1>5, <1>6, <1>7, <1>8 DEF Alike

\* A track.
LEMMA TrackIsAlike == Alike(TrackSchema, Track)
<1>1. PICK fields : Track = Struct(fields) /\ fields = [id |-> Field(Str), title |-> Field(Str),
                                   problems |-> Field(Vec(Str))]
  BY DEF Track
<1>2. DOMAIN fields = {"id", "title", "problems"}
  BY <1>1
<1>3. /\ Track.kind = "struct" /\ "items" \notin DOMAIN Track /\ "properties" \in DOMAIN Track
      /\ DOMAIN Track.properties = DOMAIN fields
      /\ \A f \in DOMAIN fields : Track.properties[f] = fields[f].type
      /\ DOMAIN Track.defaults = {f \in DOMAIN fields : "default" \in DOMAIN fields[f]}
  <2>1. Track = Struct(fields)
    BY <1>1, Zenon
  <2> QED
    BY <2>1, StructIs
<1>4. DOMAIN Track.defaults = {}
  <2>1. ASSUME NEW f \in DOMAIN fields PROVE "default" \notin DOMAIN fields[f]
    BY <1>1, <1>2, <2>1 DEF Field, Defaulted
  <2> QED
    BY <1>3, <2>1
<1>5. PICK properties, required :
        TrackSchema = Closed(properties, required) /\ DOMAIN properties = DOMAIN fields
        /\ required = DOMAIN fields
  BY <1>2 DEF TrackSchema
<1>6. "properties" \in DOMAIN TrackSchema /\ TrackSchema.properties = properties
  BY <1>5 DEF Closed
<1>7. Compatible(TrackSchema, Track)
  BY <1>3, <1>4, <1>5, ObjectsAreStructs
<1>8. ASSUME NEW k \in DOMAIN fields PROVE Twins(TrackSchema.properties[k], Track.properties[k])
  <2>1. Track.properties[k] = fields[k].type
    BY <1>3
  <2>2. CASE k = "id"
    <3>1. TrackSchema.properties[k] = Slug(64)
      BY <2>2 DEF TrackSchema, Closed
    <3>2. fields[k].type = Str
      BY <1>1, <2>2 DEF Field, Defaulted
    <3> QED
      BY <2>1, <3>1, <3>2, TheLeaves DEF Twins
  <2>3. CASE k = "title"
    <3>1. TrackSchema.properties[k] = Title(120)
      BY <2>3 DEF TrackSchema, Closed
    <3>2. fields[k].type = Str
      BY <1>1, <2>3 DEF Field, Defaulted
    <3> QED
      BY <2>1, <3>1, <3>2, TheLeaves DEF Twins
  <2>4. CASE k = "problems"
    <3>1. TrackSchema.properties[k] = Distinct(Slug(64))
      BY <2>4 DEF TrackSchema, Closed
    <3>2. fields[k].type = Vec(Str)
      BY <1>1, <2>4 DEF Field, Defaulted
    <3> QED
      BY <2>1, <3>1, <3>2, TheLeaves DEF Twins, Lists
  <2> QED
    BY <1>2, <2>2, <2>3, <2>4
<1> QED
  BY <1>3, <1>5, <1>6, <1>7, <1>8 DEF Alike

\* All twins are alike.
LEMMA TwinsAreAlike == ASSUME NEW s, NEW T, Twins(s, T) PROVE Alike(s, T)
<1>1. ASSUME <<s, T>> \in Blocks PROVE Alike(s, T)
  BY <1>1, ProblemIsAlike, ConfigIsAlike, ServicesIsAlike, LimitsIsAlike, FeaturesIsAlike,
     CategoryIsAlike, TrackIsAlike DEF Blocks
<1>2. ASSUME Leaf(s, T) PROVE Alike(s, T)
  BY <1>2 DEF Leaf, Alike
<1> QED
  BY <1>1, <1>2, ListsAreAlike DEF Twins

\* X holds a twin of every node of Y, of the same value.
Mirrors(X, Y) == \A y \in Y : \E x \in X : Twins(x.by, y.by) /\ x.value = y.value

\* ... and so it is one level down, where there are only known keys.
LEMMA MirrorsDown ==
  ASSUME NEW X, NEW Y, Mirrors(X, Y), \A x \in X : Sound(x.by, x.value)
  PROVE  Mirrors(Down(X), Down(Y))
<1>1. SUFFICES ASSUME NEW y \in Y, NEW z \in Parts(y)
               PROVE  \E w \in Down(X) : Twins(w.by, z.by) /\ w.value = z.value
  BY DownIs DEF Mirrors
<1>2. PICK x \in X : Twins(x.by, y.by) /\ x.value = y.value
  BY DEF Mirrors
<1>3. Alike(x.by, y.by) /\ Sound(x.by, x.value)
  BY <1>2, TwinsAreAlike
<1>4. \A w \in Parts(x) : w \in Down(X)
  BY DownIs
<1>5. ASSUME "properties" \in DOMAIN y.by,
             NEW k \in Keys(y.value) \cap DOMAIN y.by.properties,
             z = Node(y.by.properties[k], y.value.of[k], Append(y.at, k))
      PROVE  \E w \in Down(X) : Twins(w.by, z.by) /\ w.value = z.value
  <2>1. "properties" \in DOMAIN x.by /\ k \in Keys(x.value) /\ x.value.is = "object"
    BY <1>2, <1>3, <1>5 DEF Alike, Keys
  <2>2. k \in DOMAIN x.by.properties
    BY <1>3, <2>1 DEF Sound
  <2>3. PICK w : w = Node(x.by.properties[k], x.value.of[k], Append(x.at, k))
    OBVIOUS
  <2>4. w \in Down(X)
    BY <1>4, <2>1, <2>2, <2>3, IsPart
  <2>5. Twins(x.by.properties[k], y.by.properties[k])
    BY <1>3, <1>5, <2>2 DEF Alike
  <2> QED
    BY <1>2, <1>5, <2>3, <2>4, <2>5, Fields
<1>6. ASSUME "items" \in DOMAIN y.by, y.value.is = "array", NEW i \in DOMAIN y.value.items,
             z = Node(y.by.items, y.value.items[i], Append(y.at, i))
      PROVE  \E w \in Down(X) : Twins(w.by, z.by) /\ w.value = z.value
  <2>1. "items" \in DOMAIN x.by /\ Twins(x.by.items, y.by.items)
    BY <1>3, <1>6 DEF Alike
  <2>2. PICK w : w = Node(x.by.items, x.value.items[i], Append(x.at, i))
    OBVIOUS
  <2>3. w \in Down(X)
    BY <1>2, <1>4, <1>6, <2>1, <2>2, IsPart
  <2> QED
    BY <1>2, <1>6, <2>1, <2>2, <2>3, Fields
<1> QED
  BY <1>1, <1>5, <1>6, IsPart

\* Every node of x is sound.
Clean(X) == \A x \in X : Sound(x.by, x.value)

\* ... which is to say that nothing is reported.
LEMMA CleanIs ==
  ASSUME NEW s, NEW v
  PROVE  Violations(s, v) = {} <=> Clean(Nodes(Node(s, v, << >>)))
BY SoundIs DEF Violations, Clean

\* What a schema lets pass, without a fraction, its type takes.
LEMMA SchemaTypes ==
  ASSUME NEW s, NEW T, Twins(s, T), NEW v, IsJson(v), Violations(s, v) = {},
         \A x \in Nodes(Node(s, v, << >>)) : x.value.is # "float"
  PROVE  Accepts(T, v)
<1>1. PICK root : root = Node(s, v, << >>)
  OBVIOUS
<1>2. PICK top : top = Node(T, v, << >>)
  OBVIOUS
<1>3. Clean(Nodes(root))
  BY <1>1, CleanIs
<1>4. \A x \in Nodes(root) : Exact(x.value)
  BY <1>1, JsonBelow, JsonIs, Fields DEF JsonNodes, Exact
<1>5. Mirrors({root}, {top})
  BY <1>1, <1>2, Fields DEF Mirrors
<1>6. Mirrors(Down({root}), Down({top}))
  BY <1>3, <1>5, MirrorsDown, NodesAre DEF Clean
<1>7. Mirrors(Down2({root}), Down2({top}))
  BY <1>3, <1>6, MirrorsDown, NodesAre DEF Clean, Down2
<1>8. Mirrors(Down3({root}), Down3({top}))
  BY <1>3, <1>7, MirrorsDown, NodesAre DEF Clean, Down3
<1>9. Mirrors(Down4({root}), Down4({top}))
  BY <1>3, <1>8, MirrorsDown, NodesAre DEF Clean, Down4
<1>10. Mirrors(Nodes(root), Nodes(top))
  BY <1>5, <1>6, <1>7, <1>8, <1>9, NodesAre DEF Mirrors
<1>11. ASSUME NEW y \in Nodes(top) PROVE Takes(y.by, y.value)
  <2>1. PICK x \in Nodes(root) : Twins(x.by, y.by) /\ x.value = y.value
    BY <1>10 DEF Mirrors
  <2>2. Compatible(x.by, y.by)
    BY <2>1, TwinsAreAlike DEF Alike
  <2> QED
    BY <1>3, <1>4, <2>1, <2>2 DEF Compatible, Clean
<1> QED
  BY <1>2, <1>11 DEF Accepts

-----------------------------------------------------------------------------
(* Edits keep documents JSON.                                              *)

\* An object with x under the key k.
LEMMA JsonWith ==
  ASSUME NEW v, IsJson(v), NEW k, NEW x, IsJson(x)
  PROVE  /\ IsJson(With(v, k, x)) /\ With(v, k, x).is = "object"
         /\ Keys(With(v, k, x)) = Keys(v) \cup {k}
         /\ \A j \in Keys(v) \cup {k} : With(v, k, x).of[j] = IF j = k THEN x ELSE v.of[j]
<1>1. PICK f : f = [j \in Keys(v) \cup {k} |-> IF j = k THEN x ELSE v.of[j]]
  OBVIOUS
<1>2. \A j \in DOMAIN f : IsJson(f[j])
  BY <1>1, JsonIs
<1>3. With(v, k, x) = Obj(f)
  BY <1>1 DEF With
<1> QED
  BY <1>1, <1>2, <1>3, JsonObject

\* An object without the key k.
LEMMA JsonDropped ==
  ASSUME NEW v, IsJson(v), NEW k
  PROVE  IsJson(Dropped(v, k))
<1>1. PICK f : f = [j \in Keys(v) \ {k} |-> v.of[j]]
  OBVIOUS
<1>2. \A j \in DOMAIN f : IsJson(f[j])
  BY <1>1, JsonIs
<1>3. Dropped(v, k) = Obj(f)
  BY <1>1 DEF Dropped
<1> QED
  BY <1>2, <1>3, JsonObject

\* A document with x at `at`, or without what is there.
LEMMA JsonEdited ==
  ASSUME NEW v, IsJson(v), NEW x, IsJson(x), NEW at, Len(at) \in 1..2, Fits(v, at)
  PROVE  IsJson(Put(v, at, x)) /\ IsJson(Cut(v, at))
<1>1. CASE Len(at) = 1
  BY <1>1, JsonWith, JsonDropped DEF Put, Cut
<1>2. CASE Len(at) = 2
  <2>1. IsJson(v.of[at[1]])
    BY <1>2, JsonIs DEF Fits
  <2>2. IsJson(With(v.of[at[1]], at[2], x)) /\ IsJson(Dropped(v.of[at[1]], at[2]))
    BY <2>1, JsonWith, JsonDropped
  <2> QED
    BY <1>2, <2>2, JsonWith DEF Put, Cut
<1> QED
  BY <1>1, <1>2

-----------------------------------------------------------------------------
(* Sound to some depth, whatever the pointers.                             *)

\* v is sound, and its parts are what P asks of them.
FineBy(P(_, _), s, v) ==
  /\ Sound(s, v)
  /\ "properties" \in DOMAIN s =>
       \A k \in Keys(v) \cap DOMAIN s.properties : P(s.properties[k], v.of[k])
  /\ "items" \in DOMAIN s /\ v.is = "array" =>
       \A i \in DOMAIN v.items : P(s.items, v.items[i])

\* Sound so many levels down.
Fine1(s, v) == FineBy(Sound, s, v)
Fine2(s, v) == FineBy(Fine1, s, v)
Fine3(s, v) == FineBy(Fine2, s, v)
Fine4(s, v) == FineBy(Fine3, s, v)

\* Level by level, for a set of nodes.
LEMMA FineDown ==
  ASSUME NEW X
  PROVE  /\ Clean(X) /\ Clean(Down(X)) <=> \A x \in X : Fine1(x.by, x.value)
         /\ Clean(X) /\ (\A y \in Down(X) : Fine1(y.by, y.value)) <=> \A x \in X : Fine2(x.by, x.value)
         /\ Clean(X) /\ (\A y \in Down(X) : Fine2(y.by, y.value)) <=> \A x \in X : Fine3(x.by, x.value)
         /\ Clean(X) /\ (\A y \in Down(X) : Fine3(y.by, y.value)) <=> \A x \in X : Fine4(x.by, x.value)
<1>1. ASSUME NEW x
      PROVE  /\ "properties" \in DOMAIN x.by =>
                  \A k \in Keys(x.value) \cap DOMAIN x.by.properties :
                    \E y \in Parts(x) : y.by = x.by.properties[k] /\ y.value = x.value.of[k]
             /\ "items" \in DOMAIN x.by /\ x.value.is = "array" =>
                  \A i \in DOMAIN x.value.items :
                    \E y \in Parts(x) : y.by = x.by.items /\ y.value = x.value.items[i]
             /\ \A y \in Parts(x) :
                  \/ /\ "properties" \in DOMAIN x.by
                     /\ \E k \in Keys(x.value) \cap DOMAIN x.by.properties :
                          y.by = x.by.properties[k] /\ y.value = x.value.of[k]
                  \/ /\ "items" \in DOMAIN x.by /\ x.value.is = "array"
                     /\ \E i \in DOMAIN x.value.items :
                          y.by = x.by.items /\ y.value = x.value.items[i]
  <2>1. ASSUME "properties" \in DOMAIN x.by, NEW k \in Keys(x.value) \cap DOMAIN x.by.properties
        PROVE  \E y \in Parts(x) : y.by = x.by.properties[k] /\ y.value = x.value.of[k]
    <3>1. Node(x.by.properties[k], x.value.of[k], Append(x.at, k)) \in Parts(x)
      BY <2>1, IsPart
    <3> QED
      BY <3>1, Fields
  <2>2. ASSUME "items" \in DOMAIN x.by, x.value.is = "array", NEW i \in DOMAIN x.value.items
        PROVE  \E y \in Parts(x) : y.by = x.by.items /\ y.value = x.value.items[i]
    <3>1. Node(x.by.items, x.value.items[i], Append(x.at, i)) \in Parts(x)
      BY <2>2, IsPart
    <3> QED
      BY <3>1, Fields
  <2>3. ASSUME NEW y \in Parts(x)
        PROVE  \/ /\ "properties" \in DOMAIN x.by
                  /\ \E k \in Keys(x.value) \cap DOMAIN x.by.properties :
                       y.by = x.by.properties[k] /\ y.value = x.value.of[k]
               \/ /\ "items" \in DOMAIN x.by /\ x.value.is = "array"
                  /\ \E i \in DOMAIN x.value.items :
                       y.by = x.by.items /\ y.value = x.value.items[i]
    BY IsPart, Fields
  <2> QED
    BY <2>1, <2>2, <2>3
<1>2. ASSUME NEW x \in X
      PROVE  /\ (\A y \in Parts(x) : Sound(y.by, y.value)) /\ Sound(x.by, x.value) <=> Fine1(x.by, x.value)
             /\ (\A y \in Parts(x) : Fine1(y.by, y.value)) /\ Sound(x.by, x.value) <=> Fine2(x.by, x.value)
             /\ (\A y \in Parts(x) : Fine2(y.by, y.value)) /\ Sound(x.by, x.value) <=> Fine3(x.by, x.value)
             /\ (\A y \in Parts(x) : Fine3(y.by, y.value)) /\ Sound(x.by, x.value) <=> Fine4(x.by, x.value)
  <2>1. (\A y \in Parts(x) : Sound(y.by, y.value)) /\ Sound(x.by, x.value) <=> Fine1(x.by, x.value)
    BY <1>1 DEF Fine1, FineBy
  <2>2. (\A y \in Parts(x) : Fine1(y.by, y.value)) /\ Sound(x.by, x.value) <=> Fine2(x.by, x.value)
    BY <1>1 DEF Fine2, FineBy
  <2>3. (\A y \in Parts(x) : Fine2(y.by, y.value)) /\ Sound(x.by, x.value) <=> Fine3(x.by, x.value)
    BY <1>1 DEF Fine3, FineBy
  <2>4. (\A y \in Parts(x) : Fine3(y.by, y.value)) /\ Sound(x.by, x.value) <=> Fine4(x.by, x.value)
    BY <1>1 DEF Fine4, FineBy
  <2> QED
    BY <2>1, <2>2, <2>3, <2>4
<1> QED
  BY <1>2, DownIs DEF Clean

\* A node is clean all the way down.
LEMMA CleanIsFine ==
  ASSUME NEW x
  PROVE  Clean(Nodes(x)) <=> Fine4(x.by, x.value)
<1>1. Clean(Nodes(x)) <=> /\ Clean({x}) /\ Clean(Down({x})) /\ Clean(Down2({x}))
                          /\ Clean(Down3({x})) /\ Clean(Down4({x}))
  BY NodesAre DEF Clean
<1>2. Clean(Down3({x})) /\ Clean(Down4({x})) <=> \A y \in Down3({x}) : Fine1(y.by, y.value)
  BY FineDown DEF Down4
<1>3. Clean(Down2({x})) /\ (\A y \in Down3({x}) : Fine1(y.by, y.value))
        <=> \A y \in Down2({x}) : Fine2(y.by, y.value)
  BY FineDown DEF Down3
<1>4. Clean(Down({x})) /\ (\A y \in Down2({x}) : Fine2(y.by, y.value))
        <=> \A y \in Down({x}) : Fine3(y.by, y.value)
  BY FineDown DEF Down2
<1>5. Clean({x}) /\ (\A y \in Down({x}) : Fine3(y.by, y.value))
        <=> \A y \in {x} : Fine4(y.by, y.value)
  BY FineDown
<1> QED
  BY <1>1, <1>2, <1>3, <1>4, <1>5


-----------------------------------------------------------------------------
(* Pointers.                                                               *)

\* A pointer of n keys and indices.
IsPointer(p, n) == \E K : p \in Seq(K) /\ Len(p) = n

\* One key more.
LEMMA LongerPointer ==
  ASSUME NEW p, NEW n \in Nat, IsPointer(p, n), NEW k
  PROVE  /\ IsPointer(Append(p, k), n + 1)
         /\ \A q, m : m \in Nat /\ IsPointer(q, m) /\ IsPrefix(q, p) => IsPrefix(q, Append(p, k))
<1>1. PICK K : p \in Seq(K) /\ Len(p) = n
  BY DEF IsPointer
<1>2. PICK L : L = K \cup {k}
  OBVIOUS
<1>3. p \in Seq(L) /\ k \in L
  BY <1>1, <1>2
<1>4. Append(p, k) \in Seq(L) /\ Len(Append(p, k)) = n + 1
  BY <1>1, <1>3
<1>5. ASSUME NEW q, NEW m \in Nat, IsPointer(q, m), IsPrefix(q, p)
      PROVE  IsPrefix(q, Append(p, k))
  <2>1. Len(q) = m /\ m <= n
    BY <1>1, <1>5 DEF IsPointer, IsPrefix
  <2>2. SubSeq(Append(p, k), 1, m) = SubSeq(p, 1, m)
    BY <1>1, <1>3, <1>4, <2>1
  <2> QED
    BY <1>4, <1>5, <2>1, <2>2 DEF IsPrefix
<1> QED
  BY <1>4, <1>5 DEF IsPointer

\* The pointers one level down, and what they begin with.
LEMMA PointersDown ==
  ASSUME NEW X, NEW n \in Nat, \A x \in X : IsPointer(x.at, n)
  PROVE  /\ \A y \in Down(X) : IsPointer(y.at, n + 1)
         /\ \A q, m : m \in Nat /\ IsPointer(q, m) /\ (\A x \in X : IsPrefix(q, x.at)) =>
              \A y \in Down(X) : IsPrefix(q, y.at)
<1>1. ASSUME NEW y \in Down(X) PROVE \E x \in X : \E k : y.at = Append(x.at, k)
  <2>1. PICK x \in X : y \in Parts(x)
    BY DownIs
  <2>2. \/ \E k : y = Node(x.by.properties[k], x.value.of[k], Append(x.at, k))
        \/ \E i : y = Node(x.by.items, x.value.items[i], Append(x.at, i))
    BY <2>1, IsPart
  <2>3. ASSUME NEW k, y = Node(x.by.properties[k], x.value.of[k], Append(x.at, k))
        PROVE  y.at = Append(x.at, k)
    BY <2>3 DEF Node
  <2>4. ASSUME NEW k, y = Node(x.by.items, x.value.items[k], Append(x.at, k))
        PROVE  y.at = Append(x.at, k)
    BY <2>4 DEF Node
  <2> QED
    BY <2>2, <2>3, <2>4, Zenon
<1> QED
  BY <1>1, LongerPointer

\* Down and the levels above grow with the set.
LEMMA DownGrows ==
  ASSUME NEW X, NEW Y, X \subseteq Y
  PROVE  Down(X) \subseteq Down(Y)
BY DownIs

\* The levels have pointers of their own.
LEMMA Levels ==
  ASSUME NEW root, root.at = << >>
  PROVE  /\ IsPointer(root.at, 0) /\ \A y \in Down({root}) : IsPointer(y.at, 1)
         /\ \A y \in Down2({root}) : IsPointer(y.at, 2)
         /\ \A y \in Down3({root}) : IsPointer(y.at, 3)
         /\ \A y \in Down4({root}) : IsPointer(y.at, 4)
<1>1. \A y \in {root} : IsPointer(y.at, 0)
  <2>1. << >> \in Seq({}) /\ Len(<< >>) = 0
    OBVIOUS
  <2> QED
    BY <2>1 DEF IsPointer
<1>2. \A y \in Down({root}) : IsPointer(y.at, 1)
  <2>1. \A y \in Down({root}) : IsPointer(y.at, 0 + 1)
    BY <1>1, PointersDown
  <2> QED
    BY <2>1
<1>3. \A y \in Down2({root}) : IsPointer(y.at, 2)
  <2>1. \A y \in Down2({root}) : IsPointer(y.at, 1 + 1)
    BY <1>2, PointersDown DEF Down2
  <2> QED
    BY <2>1
<1>4. \A y \in Down3({root}) : IsPointer(y.at, 3)
  <2>1. \A y \in Down3({root}) : IsPointer(y.at, 2 + 1)
    BY <1>3, PointersDown DEF Down3
  <2> QED
    BY <2>1
<1>5. \A y \in Down4({root}) : IsPointer(y.at, 4)
  <2>1. \A y \in Down4({root}) : IsPointer(y.at, 3 + 1)
    BY <1>4, PointersDown DEF Down4
  <2> QED
    BY <2>1
<1> QED
  BY <1>1, <1>2, <1>3, <1>4, <1>5

\* Two nodes of the first two levels with one pointer are one.
LEMMA OnePointer ==
  ASSUME NEW root, root.at = << >>, NEW x \in {root} \cup Down({root}),
         NEW y \in Nodes(root), x.at = y.at
  PROVE  x = y
<1>1. \A p, m, n : IsPointer(p, m) /\ IsPointer(p, n) => m = n
  BY DEF IsPointer
<1>2. /\ x = root => y = root
      /\ x \in Down({root}) => y \in Down({root})
  <2>1. /\ IsPointer(root.at, 0) /\ \A z \in Down({root}) : IsPointer(z.at, 1)
        /\ \A z \in Down2({root}) : IsPointer(z.at, 2)
        /\ \A z \in Down3({root}) : IsPointer(z.at, 3)
        /\ \A z \in Down4({root}) : IsPointer(z.at, 4)
    BY Levels
  <2>2. /\ x = root => IsPointer(y.at, 0)
        /\ x \in Down({root}) => IsPointer(y.at, 1)
    BY <2>1
  <2>3. /\ ~(IsPointer(y.at, 0) /\ IsPointer(y.at, 1)) /\ ~(IsPointer(y.at, 0) /\ IsPointer(y.at, 2))
        /\ ~(IsPointer(y.at, 0) /\ IsPointer(y.at, 3)) /\ ~(IsPointer(y.at, 0) /\ IsPointer(y.at, 4))
        /\ ~(IsPointer(y.at, 1) /\ IsPointer(y.at, 2)) /\ ~(IsPointer(y.at, 1) /\ IsPointer(y.at, 3))
        /\ ~(IsPointer(y.at, 1) /\ IsPointer(y.at, 4))
    BY <1>1
  <2>4. /\ IsPointer(y.at, 0) => /\ y \notin Down({root}) /\ y \notin Down2({root})
                                 /\ y \notin Down3({root}) /\ y \notin Down4({root})
        /\ IsPointer(y.at, 1) => /\ y # root /\ y \notin Down2({root})
                                 /\ y \notin Down3({root}) /\ y \notin Down4({root})
    BY <2>1, <2>3
  <2> QED
    BY <2>2, <2>4, NodesAre
<1>3. ASSUME x \in Down({root}), y \in Down({root}) PROVE x = y
  <2>1. x \in Parts(root) /\ y \in Parts(root)
    BY <1>3, DownIs
  <2>2. \A j, k : Append(<< >>, j) = Append(<< >>, k) => j = k
    BY DEF Append
  <2>3. Keys(root.value) # {} => root.value.is # "array"
    BY DEF Keys
  <2>4. \A z \in Parts(root) :
          \/ /\ root.value.is # "array"
             /\ \E k : z = Node(root.by.properties[k], root.value.of[k], Append(root.at, k))
          \/ /\ root.value.is = "array"
             /\ \E i : z = Node(root.by.items, root.value.items[i], Append(root.at, i))
    BY <2>3, IsPart
  <2>5. CASE root.value.is # "array"
    <3>1. PICK j : x = Node(root.by.properties[j], root.value.of[j], Append(root.at, j))
      BY <2>1, <2>4, <2>5
    <3>2. PICK k : y = Node(root.by.properties[k], root.value.of[k], Append(root.at, k))
      BY <2>1, <2>4, <2>5
    <3>3. x.at = Append(root.at, j) /\ y.at = Append(root.at, k)
      BY <3>1, <3>2, Fields
    <3>4. j = k
      BY <2>2, <3>3
    <3> QED
      BY <3>1, <3>2, <3>4
  <2>6. CASE root.value.is = "array"
    <3>1. PICK j : x = Node(root.by.items, root.value.items[j], Append(root.at, j))
      BY <2>1, <2>4, <2>6
    <3>2. PICK k : y = Node(root.by.items, root.value.items[k], Append(root.at, k))
      BY <2>1, <2>4, <2>6
    <3>3. x.at = Append(root.at, j) /\ y.at = Append(root.at, k)
      BY <3>1, <3>2, Fields
    <3>4. j = k
      BY <2>2, <3>3
    <3> QED
      BY <3>1, <3>2, <3>4
  <2> QED
    BY <2>5, <2>6
<1> QED
  BY <1>2, <1>3

\* All that is wrong below the root.
Wrong(root) == UNION {Broken(x) : x \in Nodes(root)}

\* ... at its first two levels is found by its pointer.
LEMMA BrokenHere ==
  ASSUME NEW root, root.at = << >>, NEW x \in {root} \cup Down({root})
  PROVE  {r \in Wrong(root) : r.pointer = x.at} = Broken(x)
<1>1. ASSUME NEW y, NEW r \in Broken(y) PROVE r.pointer = y.at
  BY DEF Broken, Misfits
<1>2. x \in Nodes(root)
  BY NodesAre
<1>3. ASSUME NEW y \in Nodes(root), NEW r \in Broken(y), r.pointer = x.at PROVE r \in Broken(x)
  <2>1. x = y
    BY <1>1, <1>3, OnePointer
  <2> QED
    BY <1>3, <2>1
<1>4. \A r \in Broken(x) : r \in Wrong(root) /\ r.pointer = x.at
  BY <1>1, <1>2 DEF Wrong
<1>5. \A r \in Wrong(root) : r.pointer = x.at => r \in Broken(x)
  BY <1>3 DEF Wrong
<1> QED
  BY <1>4, <1>5

\* Where no pointer leads, nothing is wrong.
LEMMA NothingBelow ==
  ASSUME NEW root, NEW p, ~\E r \in Wrong(root) : IsPrefix(p, r.pointer),
         NEW y \in Nodes(root), IsPrefix(p, y.at)
  PROVE  Sound(y.by, y.value)
<1>1. ASSUME NEW r \in Broken(y) PROVE r.pointer = y.at
  BY DEF Broken, Misfits
<1>2. Broken(y) = {}
  BY <1>1 DEF Wrong
<1> QED
  BY <1>2, SoundIs


-----------------------------------------------------------------------------
(* Repairs.                                                                *)

\* A schema that an object can meet says what its keys are.
Shaped(s) ==
  \/ \E properties, required :
       s = Closed(properties, required) /\ required \subseteq DOMAIN properties
  \/ /\ "properties" \notin DOMAIN s
     /\ \A v : v.is = "object" => \E k \in DOMAIN s \ {"required"} : Breaks(k, s, v)

\* An entry is put right when anything in it is wrong.
LEMMA EntryRepaired ==
  ASSUME NEW root, root.at = << >>, NEW x, NEW good
  PROVE  LET w == RepairedEntry(x.value, good, x.at, Wrong(root)) IN
         /\ w \in {x.value, good}
         /\ x \in Down({root}) /\ Fine3(x.by, good) => Fine3(x.by, w)
         /\ x \in Down2({root}) /\ Fine2(x.by, good) => Fine2(x.by, w)
<1> DEFINE w == RepairedEntry(x.value, good, x.at, Wrong(root))
<1>1. CASE \E r \in Wrong(root) : IsPrefix(x.at, r.pointer)
  BY <1>1 DEF RepairedEntry
<1>2. CASE ~\E r \in Wrong(root) : IsPrefix(x.at, r.pointer)
  <2>1. w = x.value
    BY <1>2 DEF RepairedEntry
  <2>2. ASSUME NEW n \in Nat, IsPointer(x.at, n)
        PROVE  /\ \A y \in {x} \cup Down({x}) \cup Down2({x}) \cup Down3({x}) : IsPrefix(x.at, y.at)
    <3>1. \A y \in {x} : IsPointer(y.at, n) /\ IsPrefix(x.at, y.at)
      <4>1. IsPrefix(x.at, x.at)
        BY <2>2 DEF IsPointer, IsPrefix
      <4> QED
        BY <2>2, <4>1
    <3>2. \A y \in Down({x}) : IsPointer(y.at, n + 1) /\ IsPrefix(x.at, y.at)
      BY <2>2, <3>1, PointersDown
    <3>3. \A y \in Down2({x}) : IsPointer(y.at, (n + 1) + 1) /\ IsPrefix(x.at, y.at)
      <4>1. n + 1 \in Nat
        OBVIOUS
      <4> QED
        BY <2>2, <3>2, <4>1, PointersDown DEF Down2
    <3>4. \A y \in Down3({x}) : IsPrefix(x.at, y.at)
      <4>1. (n + 1) + 1 \in Nat
        OBVIOUS
      <4> QED
        BY <2>2, <3>3, <4>1, PointersDown DEF Down3
    <3> QED
      BY <3>1, <3>2, <3>3, <3>4
  <2>3. ASSUME x \in Down({root}) PROVE Fine3(x.by, x.value)
    <3>1. \A y \in {x} \cup Down({x}) \cup Down2({x}) \cup Down3({x}) : y \in Nodes(root)
      <4>1. {x} \subseteq Down({root})
        BY <2>3
      <4>2. Down({x}) \subseteq Down2({root})
        BY <4>1, DownGrows DEF Down2
      <4>3. Down2({x}) \subseteq Down3({root})
        BY <4>2, DownGrows DEF Down2, Down3
      <4>4. Down3({x}) \subseteq Down4({root})
        BY <4>3, DownGrows DEF Down3, Down4
      <4> QED
        BY <4>1, <4>2, <4>3, <4>4, NodesAre
    <3>2. IsPointer(x.at, 1)
      BY <2>3, Levels
    <3>3. \A y \in {x} \cup Down({x}) \cup Down2({x}) \cup Down3({x}) : Sound(y.by, y.value)
      BY <1>2, <2>2, <3>1, <3>2, NothingBelow
    <3>4. \A y \in Down2({x}) : Fine1(y.by, y.value)
      <4>1. Clean(Down2({x})) /\ Clean(Down(Down2({x})))
        BY <3>3 DEF Clean, Down3
      <4> QED
        BY <4>1, FineDown
    <3>5. \A y \in Down({x}) : Fine2(y.by, y.value)
      <4>1. Clean(Down({x})) /\ \A y \in Down(Down({x})) : Fine1(y.by, y.value)
        BY <3>3, <3>4 DEF Clean, Down2
      <4> QED
        BY <4>1, FineDown
    <3>6. \A y \in {x} : Fine3(y.by, y.value)
      <4>1. Clean({x})
        BY <3>3 DEF Clean
      <4> QED
        BY <3>5, <4>1, FineDown
    <3> QED
      BY <3>6
  <2>4. ASSUME x \in Down2({root}) PROVE Fine2(x.by, x.value)
    <3>1. \A y \in {x} \cup Down({x}) \cup Down2({x}) : y \in Nodes(root)
      <4>1. {x} \subseteq Down2({root})
        BY <2>4
      <4>2. Down({x}) \subseteq Down3({root})
        BY <4>1, DownGrows DEF Down3
      <4>3. Down2({x}) \subseteq Down4({root})
        BY <4>2, DownGrows DEF Down2, Down4
      <4> QED
        BY <4>1, <4>2, <4>3, NodesAre
    <3>2. IsPointer(x.at, 2)
      BY <2>4, Levels
    <3>3. \A y \in {x} \cup Down({x}) \cup Down2({x}) : Sound(y.by, y.value)
      BY <1>2, <2>2, <3>1, <3>2, NothingBelow
    <3>4. \A y \in Down({x}) : Fine1(y.by, y.value)
      <4>1. Clean(Down({x})) /\ Clean(Down(Down({x})))
        BY <3>3 DEF Clean, Down2
      <4> QED
        BY <4>1, FineDown
    <3>5. \A y \in {x} : Fine2(y.by, y.value)
      <4>1. Clean({x})
        BY <3>3 DEF Clean
      <4> QED
        BY <3>4, <4>1, FineDown
    <3> QED
      BY <3>5
  <2> QED
    BY <2>1, <2>3, <2>4
<1> QED
  BY <1>1, <1>2

\* The keys that a rule names in what an object breaks.
Named(broken, rule) == UNION {r.keys : r \in {r \in broken : r.rule = rule}}

\* With these added and taken away, an object has the keys it should have.
LEMMA Reshaped ==
  ASSUME NEW x, NEW properties, NEW required, x.by = Closed(properties, required),
         required \subseteq DOMAIN properties, x.value.is = "object"
  PROVE  /\ Named(Broken(x), "required") = required \ Keys(x.value)
         /\ Named(Broken(x), "additionalProperties") = Keys(x.value) \ DOMAIN properties
<1>1. /\ DOMAIN x.by = {"type", "properties", "required"} /\ x.by.properties = properties
      /\ x.by.required = required /\ x.by.type = "object"
  BY DEF Closed
<1>2. \A k \in DOMAIN x.by : ~Breaks(k, x.by, x.value)
  BY <1>1 DEF Breaks
<1>3. Broken(x) = Misfits(x.by, x.value, x.at)
  BY <1>1, <1>2 DEF Broken
<1>4. \A r \in Broken(x) :
        \/ \E k \in required \ Keys(x.value) : r = [pointer |-> x.at, rule |-> "required", keys |-> {k}]
        \/ r = [pointer |-> x.at, rule |-> "additionalProperties", keys |-> Keys(x.value) \ DOMAIN properties]
  BY <1>1, <1>3 DEF Misfits
<1>5. /\ \A k \in required \ Keys(x.value) :
           [pointer |-> x.at, rule |-> "required", keys |-> {k}] \in Broken(x)
      /\ Keys(x.value) \ DOMAIN properties # {} =>
           [pointer |-> x.at, rule |-> "additionalProperties", keys |-> Keys(x.value) \ DOMAIN properties] \in Broken(x)
  BY <1>1, <1>3 DEF Misfits
<1>6. Named(Broken(x), "required") = required \ Keys(x.value)
  <2>1. ASSUME NEW k \in Named(Broken(x), "required") PROVE k \in required \ Keys(x.value)
    <3>1. PICK r \in Broken(x) : r.rule = "required" /\ k \in r.keys
      BY <2>1 DEF Named
    <3>2. \E j \in required \ Keys(x.value) : r.keys = {j}
      BY <1>4, <3>1
    <3> QED
      BY <3>1, <3>2
  <2>2. ASSUME NEW k \in required \ Keys(x.value) PROVE k \in Named(Broken(x), "required")
    <3>1. PICK r \in Broken(x) : r = [pointer |-> x.at, rule |-> "required", keys |-> {k}]
      BY <1>5
    <3>2. r.rule = "required" /\ k \in r.keys
      BY <3>1
    <3> QED
      BY <3>2 DEF Named
  <2> QED
    BY <2>1, <2>2
<1>7. Named(Broken(x), "additionalProperties") = Keys(x.value) \ DOMAIN properties
  <2>1. ASSUME NEW k \in Named(Broken(x), "additionalProperties") PROVE k \in Keys(x.value) \ DOMAIN properties
    <3>1. PICK r \in Broken(x) : r.rule = "additionalProperties" /\ k \in r.keys
      BY <2>1 DEF Named
    <3>2. r.keys = Keys(x.value) \ DOMAIN properties
      BY <1>4, <3>1
    <3> QED
      BY <3>1, <3>2
  <2>2. ASSUME NEW k \in Keys(x.value) \ DOMAIN properties PROVE k \in Named(Broken(x), "additionalProperties")
    <3>1. PICK r \in Broken(x) : r = [pointer |-> x.at, rule |-> "additionalProperties",
                                      keys |-> Keys(x.value) \ DOMAIN properties]
      BY <1>5
    <3>2. r.rule = "additionalProperties" /\ k \in r.keys
      BY <3>1
    <3> QED
      BY <3>2 DEF Named
  <2> QED
    BY <2>1, <2>2
<1> QED
  BY <1>6, <1>7


\* A block is put right entry by entry.
LEMMA BlockRepaired ==
  ASSUME NEW root, root.at = << >>, NEW x \in Down({root}), Shaped(x.by), IsJson(x.value),
         NEW good, IsJson(good), Fine3(x.by, good),
         "properties" \in DOMAIN x.by => DOMAIN x.by.properties \subseteq Keys(good)
  PROVE  LET w == RepairedBlock(x.value, good, x.at, Wrong(root)) IN IsJson(w) /\ Fine3(x.by, w)
<1> SUFFICES ASSUME NEW w, w = RepairedBlock(x.value, good, x.at, Wrong(root))
             PROVE  IsJson(w) /\ Fine3(x.by, w)
  OBVIOUS
<1> DEFINE v == x.value
           Reshape == \E r \in Broken(x) : r.rule \notin {"required", "additionalProperties"}
<1>1. {r \in Wrong(root) : r.pointer = x.at} = Broken(x)
  BY BrokenHere
<1>2. w = IF Reshape THEN good
          ELSE IF v.is # "object" THEN RepairedEntry(v, good, x.at, Wrong(root))
          ELSE Obj([k \in (Keys(v) \ Named(Broken(x), "additionalProperties"))
                          \cup Named(Broken(x), "required") |->
                      IF k \in Keys(v)
                      THEN RepairedEntry(v.of[k], good.of[k], Append(x.at, k), Wrong(root))
                      ELSE good.of[k]])
  BY <1>1 DEF RepairedBlock, RepairedBy, Named
<1>3. CASE Reshape
  BY <1>2, <1>3
<1>4. CASE ~Reshape /\ v.is # "object"
  BY <1>2, <1>4, EntryRepaired
<1>5. CASE ~Reshape /\ v.is = "object"
  <2>1. ASSUME NEW k \in DOMAIN x.by \ {"required"}, Breaks(k, x.by, v) PROVE FALSE
    <3>1. k # "additionalProperties"
      BY <2>1 DEF Breaks
    <3>2. PICK r : r = [pointer |-> x.at, rule |-> k, keys |-> {}]
      OBVIOUS
    <3>3. r \in Broken(x) /\ r.rule = k
      BY <2>1, <3>2 DEF Broken
    <3> QED
      BY <1>5, <2>1, <3>1, <3>3
  <2>2. PICK properties, required :
          x.by = Closed(properties, required) /\ required \subseteq DOMAIN properties
    BY <1>5, <2>1 DEF Shaped
  <2>3. /\ "properties" \in DOMAIN x.by /\ x.by.properties = properties
        /\ x.by.required = required /\ "items" \notin DOMAIN x.by
        /\ DOMAIN x.by = {"type", "properties", "required"} /\ x.by.type = "object"
    BY <2>2 DEF Closed
  <2>4. PICK f : f = [k \in (Keys(v) \cap DOMAIN properties) \cup (required \ Keys(v)) |->
                        IF k \in Keys(v)
                        THEN RepairedEntry(v.of[k], good.of[k], Append(x.at, k), Wrong(root))
                        ELSE good.of[k]]
    OBVIOUS
  <2>5. w = Obj(f)
    <3>1. (Keys(v) \ Named(Broken(x), "additionalProperties")) \cup Named(Broken(x), "required")
            = (Keys(v) \cap DOMAIN properties) \cup (required \ Keys(v))
      BY <1>5, <2>2, Reshaped
    <3> QED
      BY <1>2, <1>5, <2>4, <3>1
  <2>6. ASSUME NEW k \in DOMAIN f
        PROVE  k \in DOMAIN properties /\ IsJson(f[k]) /\ Fine2(properties[k], f[k])
    <3>1. k \in DOMAIN properties /\ k \in Keys(good)
      BY <2>2, <2>3, <2>4
    <3>2. IsJson(good.of[k]) /\ Fine2(properties[k], good.of[k])
      BY <2>3, <3>1, JsonIs DEF Fine3, FineBy
    <3>3. CASE k \in Keys(v)
      <4>1. PICK y : y = Node(properties[k], v.of[k], Append(x.at, k))
        OBVIOUS
      <4>2. y.by = properties[k] /\ y.value = v.of[k] /\ y.at = Append(x.at, k)
        BY <4>1 DEF Node
      <4>3. y \in Down2({root})
        BY <2>3, <3>1, <3>3, <4>1, IsPart, DownIs DEF Down2
      <4>4. f[k] = RepairedEntry(y.value, good.of[k], y.at, Wrong(root))
        BY <2>4, <3>3, <4>2
      <4>5. IsJson(y.value)
        BY <3>3, <4>2, JsonIs
      <4>6. PICK g : g = good.of[k]
        OBVIOUS
      <4>7. Fine2(y.by, g)
        BY <3>2, <4>2, <4>6
      <4>8. /\ RepairedEntry(y.value, g, y.at, Wrong(root)) \in {y.value, g}
            /\ Fine2(y.by, RepairedEntry(y.value, g, y.at, Wrong(root)))
        BY <4>3, <4>7, EntryRepaired
      <4>9. f[k] \in {y.value, g} /\ Fine2(y.by, f[k])
        BY <4>4, <4>6, <4>8
      <4> QED
        BY <3>1, <3>2, <4>2, <4>5, <4>6, <4>9
    <3>4. CASE k \notin Keys(v)
      BY <2>4, <3>1, <3>2, <3>4
    <3> QED
      BY <3>3, <3>4
  <2>7. IsJson(w) /\ Keys(w) = DOMAIN f /\ w.of = f /\ w.is = "object"
    BY <2>5, <2>6, JsonObject
  <2>8. Sound(x.by, w)
    <3>1. \A k \in DOMAIN x.by : ~Breaks(k, x.by, w)
      BY <2>3, <2>7 DEF Breaks
    <3>2. required \subseteq Keys(w) /\ Keys(w) \subseteq DOMAIN properties
      BY <2>2, <2>4, <2>7
    <3> QED
      BY <2>3, <3>1, <3>2 DEF Sound
  <2>9. Fine3(x.by, w)
    BY <2>3, <2>6, <2>7, <2>8 DEF Fine3, FineBy
  <2> QED
    BY <2>7, <2>9
<1> QED
  BY <1>3, <1>4, <1>5

\* ... and a document block by block.
LEMMA DocumentRepaired ==
  ASSUME NEW root, root.at = << >>, Shaped(root.by), "properties" \in DOMAIN root.by,
         \A k \in DOMAIN root.by.properties : Shaped(root.by.properties[k]), IsJson(root.value),
         NEW good, IsJson(good), Fine4(root.by, good),
         DOMAIN root.by.properties \subseteq Keys(good),
         \A k \in DOMAIN root.by.properties :
           "properties" \in DOMAIN root.by.properties[k] =>
             DOMAIN root.by.properties[k].properties \subseteq Keys(good.of[k])
  PROVE  LET w == Repaired(root.value, good, Wrong(root)) IN IsJson(w) /\ Fine4(root.by, w)
<1> SUFFICES ASSUME NEW w, w = Repaired(root.value, good, Wrong(root))
             PROVE  IsJson(w) /\ Fine4(root.by, w)
  OBVIOUS
<1> DEFINE v == root.value
           Reshape == \E r \in Broken(root) : r.rule \notin {"required", "additionalProperties"}
<1>1. {r \in Wrong(root) : r.pointer = root.at} = Broken(root)
  BY BrokenHere
<1>2. w = IF Reshape THEN good
          ELSE IF v.is # "object" THEN RepairedEntry(v, good, root.at, Wrong(root))
          ELSE Obj([k \in (Keys(v) \ Named(Broken(root), "additionalProperties"))
                          \cup Named(Broken(root), "required") |->
                      IF k \in Keys(v)
                      THEN RepairedBlock(v.of[k], good.of[k], Append(root.at, k), Wrong(root))
                      ELSE good.of[k]])
  BY <1>1 DEF Repaired, RepairedBy, Named
<1>3. CASE Reshape
  BY <1>2, <1>3
<1>4. CASE ~Reshape /\ v.is # "object"
  <2>1. PICK properties, required : root.by = Closed(properties, required)
    BY DEF Shaped
  <2>2. "type" \in DOMAIN root.by /\ Breaks("type", root.by, v)
    BY <1>4, <2>1 DEF Breaks, Closed
  <2>3. PICK r : r = [pointer |-> root.at, rule |-> "type", keys |-> {}]
    OBVIOUS
  <2>4. r \in Broken(root) /\ r.rule = "type"
    BY <2>2, <2>3 DEF Broken
  <2> QED
    BY <1>4, <2>4
<1>5. CASE ~Reshape /\ v.is = "object"
  <2>1. ASSUME NEW k \in DOMAIN root.by \ {"required"}, Breaks(k, root.by, v) PROVE FALSE
    <3>1. k # "additionalProperties"
      BY <2>1 DEF Breaks
    <3>2. PICK r : r = [pointer |-> root.at, rule |-> k, keys |-> {}]
      OBVIOUS
    <3>3. r \in Broken(root) /\ r.rule = k
      BY <2>1, <3>2 DEF Broken
    <3> QED
      BY <1>5, <2>1, <3>1, <3>3
  <2>2. PICK properties, required :
          root.by = Closed(properties, required) /\ required \subseteq DOMAIN properties
    BY <1>5, <2>1 DEF Shaped
  <2>3. /\ "properties" \in DOMAIN root.by /\ root.by.properties = properties
        /\ root.by.required = required /\ "items" \notin DOMAIN root.by
        /\ DOMAIN root.by = {"type", "properties", "required"} /\ root.by.type = "object"
    BY <2>2 DEF Closed
  <2>4. PICK f : f = [k \in (Keys(v) \cap DOMAIN properties) \cup (required \ Keys(v)) |->
                        IF k \in Keys(v)
                        THEN RepairedBlock(v.of[k], good.of[k], Append(root.at, k), Wrong(root))
                        ELSE good.of[k]]
    OBVIOUS
  <2>5. w = Obj(f)
    <3>1. (Keys(v) \ Named(Broken(root), "additionalProperties")) \cup Named(Broken(root), "required")
            = (Keys(v) \cap DOMAIN properties) \cup (required \ Keys(v))
      BY <1>5, <2>2, Reshaped
    <3> QED
      BY <1>2, <1>5, <2>4, <3>1
  <2>6. ASSUME NEW k \in DOMAIN f
        PROVE  k \in DOMAIN properties /\ IsJson(f[k]) /\ Fine3(properties[k], f[k])
    <3>1. k \in DOMAIN properties /\ k \in Keys(good)
      BY <2>2, <2>3, <2>4
    <3>2. IsJson(good.of[k]) /\ Fine3(properties[k], good.of[k])
      BY <2>3, <3>1, JsonIs DEF Fine4, FineBy
    <3>3. CASE k \in Keys(v)
      <4>1. PICK y : y = Node(properties[k], v.of[k], Append(root.at, k))
        OBVIOUS
      <4>2. y.by = properties[k] /\ y.value = v.of[k] /\ y.at = Append(root.at, k)
        BY <4>1 DEF Node
      <4>3. y \in Down({root})
        BY <2>3, <3>1, <3>3, <4>1, IsPart, DownIs
      <4>4. f[k] = RepairedBlock(y.value, good.of[k], y.at, Wrong(root))
        BY <2>4, <3>3, <4>2
      <4>5. IsJson(y.value)
        BY <3>3, <4>2, JsonIs
      <4>6. IsJson(f[k]) /\ Fine3(y.by, f[k])
        BY <3>1, <3>2, <2>3, <4>2, <4>3, <4>4, <4>5, BlockRepaired
      <4> QED
        BY <3>1, <4>2, <4>6
    <3>4. CASE k \notin Keys(v)
      BY <2>4, <3>1, <3>2, <3>4
    <3> QED
      BY <3>3, <3>4
  <2>7. IsJson(w) /\ Keys(w) = DOMAIN f /\ w.of = f /\ w.is = "object"
    BY <2>5, <2>6, JsonObject
  <2>8. Sound(root.by, w)
    <3>1. \A k \in DOMAIN root.by : ~Breaks(k, root.by, w)
      BY <2>3, <2>7 DEF Breaks
    <3>2. required \subseteq Keys(w) /\ Keys(w) \subseteq DOMAIN properties
      BY <2>2, <2>4, <2>7
    <3> QED
      BY <2>3, <3>1, <3>2 DEF Sound
  <2>9. Fine4(root.by, w)
    BY <2>3, <2>6, <2>7, <2>8 DEF Fine4, FineBy
  <2> QED
    BY <2>7, <2>9
<1> QED
  BY <1>3, <1>4, <1>5


\* What has no keys breaks on an object.
LEMMA OthersAreShaped ==
  ASSUME NEW s, "properties" \notin DOMAIN s,
         \/ "type" \in DOMAIN s /\ s.type \in {"string", "array"}
         \/ "enum" \in DOMAIN s
         \/ "const" \in DOMAIN s /\ s.const = Number(1)
  PROVE  Shaped(s)
<1>1. SUFFICES ASSUME NEW v, v.is = "object"
               PROVE  \E k \in DOMAIN s \ {"required"} : Breaks(k, s, v)
  BY DEF Shaped
<1>2. CASE "type" \in DOMAIN s /\ s.type \in {"string", "array"}
  BY <1>1, <1>2 DEF Breaks
<1>3. CASE "enum" \in DOMAIN s
  BY <1>1, <1>3 DEF Breaks
<1>4. CASE "const" \in DOMAIN s /\ s.const = Number(1)
  <2>1. Number(1).is = "integer"
    BY DEF Number, Num
  <2>2. ~Same(s.const, v)
    BY <1>1, <1>4, <2>1 DEF Same, Whole
  <2>3. Breaks("const", s, v)
    BY <2>2 DEF Breaks
  <2> QED
    BY <1>4, <2>3
<1> QED
  BY <1>2, <1>3, <1>4

\* The two schemas, and those of their keys.
LEMMA SchemasAreShaped ==
  \A s \in {ProblemSchema, ConfigSchema} :
    /\ Shaped(s) /\ "properties" \in DOMAIN s
    /\ \A k \in DOMAIN s.properties : Shaped(s.properties[k])
<1>1. ASSUME NEW properties, NEW required, required \subseteq DOMAIN properties
      PROVE  /\ Shaped(Closed(properties, required))
             /\ "properties" \in DOMAIN Closed(properties, required)
             /\ Closed(properties, required).properties = properties
  BY <1>1 DEF Shaped, Closed
<1>2. Shaped([const |-> Number(1)])
  BY OthersAreShaped
<1>3. Shaped(NameSlug(64)) /\ Shaped(Title(120)) /\ Shaped(Slug(64))
  BY OthersAreShaped DEF NameSlug, Title, Slug
<1>4. Shaped([enum |-> {"easy", "medium", "hard"}])
  BY OthersAreShaped
<1>5. /\ Shaped(Distinct(LanguageSchema)) /\ Shaped(Some(CategorySchema))
      /\ Shaped(Some(TrackSchema))
  <2>1. ASSUME NEW item PROVE Shaped(Distinct(item)) /\ Shaped(Some(item))
    BY OthersAreShaped DEF Distinct, Some
  <2> QED
    BY <2>1
<1>6. Shaped(ServicesSchema) /\ Shaped(LimitsSchema) /\ Shaped(FeaturesSchema)
  BY <1>1 DEF ServicesSchema, LimitsSchema, FeaturesSchema
<1>7. ASSUME NEW s, s = ProblemSchema
      PROVE  /\ Shaped(s) /\ "properties" \in DOMAIN s
             /\ \A k \in DOMAIN s.properties : Shaped(s.properties[k])
  <2>1. PICK properties :
          properties = [schema_version |-> [const |-> Number(1)],
                        id |-> NameSlug(64), title |-> Title(120), category |-> Slug(64),
                        difficulty |-> [enum |-> {"easy", "medium", "hard"}],
                        languages |-> Distinct(LanguageSchema), fixture |-> NameSlug(64),
                        services |-> ServicesSchema, limits |-> LimitsSchema]
    OBVIOUS
  <2>2. PICK required : required = {"schema_version", "id", "title", "category", "difficulty",
                                    "languages", "fixture"}
    OBVIOUS
  <2>3. s = Closed(properties, required)
    BY <1>7, <2>1, <2>2, Zenon DEF ProblemSchema
  <2>4. /\ required \subseteq DOMAIN properties
        /\ \A k \in DOMAIN properties : Shaped(properties[k])
    BY <1>2, <1>3, <1>4, <1>5, <1>6, <2>1, <2>2
  <2> QED
    BY <1>1, <2>3, <2>4
<1>8. ASSUME NEW s, s = ConfigSchema
      PROVE  /\ Shaped(s) /\ "properties" \in DOMAIN s
             /\ \A k \in DOMAIN s.properties : Shaped(s.properties[k])
  <2>1. PICK properties :
          properties = [schema_version |-> [const |-> Number(1)], title |-> Title(120),
                        features |-> FeaturesSchema,
                        categories |-> Some(CategorySchema), tracks |-> Some(TrackSchema)]
    OBVIOUS
  <2>2. PICK required : required = {"schema_version", "title", "categories", "tracks"}
    OBVIOUS
  <2>3. s = Closed(properties, required)
    BY <1>8, <2>1, <2>2, Zenon DEF ConfigSchema
  <2>4. /\ required \subseteq DOMAIN properties
        /\ \A k \in DOMAIN properties : Shaped(properties[k])
    BY <1>2, <1>3, <1>5, <1>6, <2>1, <2>2
  <2> QED
    BY <1>1, <2>3, <2>4
<1> QED
  BY <1>7, <1>8

\* What the two files are.
LEMMA TheManifests ==
  \A f \in {"problem", "config"} :
    /\ Manifest(f).schema \in {ProblemSchema, ConfigSchema}
    /\ Twins(Manifest(f).schema, Manifest(f).type)
BY DEF Manifest, Twins, Blocks

\* A document of which nothing is reported is an object.
LEMMA SoundIsObject ==
  ASSUME NEW f \in {"problem", "config"}, NEW v, Violations(Manifest(f).schema, v) = {}
  PROVE  v.is = "object" /\ v # Missing /\ v # Unparsed
<1>1. Sound(Manifest(f).schema, v)
  <2>1. Node(Manifest(f).schema, v, << >>) \in Nodes(Node(Manifest(f).schema, v, << >>))
    BY NodesAre
  <2> QED
    BY <2>1, CleanIs, Fields DEF Clean
<1>2. "type" \in DOMAIN Manifest(f).schema /\ Manifest(f).schema.type = "object"
  <2>1. "type" \in DOMAIN ProblemSchema /\ ProblemSchema.type = "object"
    BY DEF ProblemSchema, Closed
  <2>2. "type" \in DOMAIN ConfigSchema /\ ConfigSchema.type = "object"
    BY DEF ConfigSchema, Closed
  <2> QED
    BY <2>1, <2>2, TheManifests
<1>3. ~Breaks("type", Manifest(f).schema, v)
  BY <1>1, <1>2 DEF Sound
<1>4. v.is = "object"
  BY <1>2, <1>3 DEF Breaks
<1>5. Missing.is = "missing" /\ Unparsed.is = "not JSON"
  BY DEF Missing, Unparsed
<1> QED
  BY <1>4, <1>5

\* What a load answers.
LEMMA LoadIs ==
  ASSUME NEW f \in {"problem", "config"}, NEW v
  PROVE  \A broken : broken = Violations(Manifest(f).schema, v) =>
         /\ Load(f, v).error = "Schema" =>
              Load(f, v).violations = broken /\ v # Missing /\ v # Unparsed
         /\ Load(f, v).error = "Model" => broken = {} /\ ~Accepts(Manifest(f).type, v)
         /\ broken = {} /\ Accepts(Manifest(f).type, v) =>
              Load(f, v) = Loaded(Typed(Manifest(f).type, v))
         /\ Load(f, v).error = NONE => broken = {} /\ Accepts(Manifest(f).type, v)
<1> TAKE broken
<1> HAVE broken = Violations(Manifest(f).schema, v)
<1>1. /\ Failure("Source", {}).error = "Source" /\ Failure("Json", {}).error = "Json"
      /\ Failure("Schema", broken).error = "Schema" /\ Failure("Schema", broken).violations = broken
      /\ Failure("Model", {}).error = "Model"
      /\ Loaded(Typed(Manifest(f).type, v)).error = NONE
  BY DEF Failure, Loaded
<1>2. NONE \notin {"Source", "Json", "Schema", "Model"}
  BY AuthoringAssumption
<1>3. broken = {} => v # Missing /\ v # Unparsed
  BY SoundIsObject
<1>4. Load(f, v) = IF v = Missing THEN Failure("Source", {})
                   ELSE IF v = Unparsed THEN Failure("Json", {})
                   ELSE IF broken # {} THEN Failure("Schema", broken)
                   ELSE IF ~Accepts(Manifest(f).type, v) THEN Failure("Model", {})
                   ELSE Loaded(Typed(Manifest(f).type, v))
  BY DEF Load, Validate
<1> QED
  BY <1>1, <1>2, <1>3, <1>4

-----------------------------------------------------------------------------
(* The invariant.                                                          *)

\* The document is JSON; what was answered is what it would be answered again;
\* and what is repaired is right.
AuthoringInv ==
  /\ file \in Files
  /\ IsJson(document)
  /\ report # NONE => report = Load(file, document)
  /\ repaired => Validate(Manifest(file).schema, document) = {}

\* What the constants say.
LEMMA Givens ==
  ASSUME NEW f \in Files
  PROVE  /\ f \in {"problem", "config"} /\ IsJson(Good[f])
         /\ \A x \in Values[f] : IsJson(x)
         /\ \A at \in Pointers[f] : Len(at) \in 1..2
         /\ Violations(Manifest(f).schema, Good[f]) = {}
         /\ \A x \in Nodes(Node(Manifest(f).schema, Good[f], << >>)) :
              "properties" \in DOMAIN x.by => DOMAIN x.by.properties \subseteq Keys(x.value)
<1>1. \A v \in Json : IsJson(v)
  BY JsonAssumption DEF IsJson
<1> QED
  BY <1>1, AuthoringAssumption DEF Validate

\* At the start it holds.
LEMMA AuthoringInit == Init => AuthoringInv
BY Givens DEF Init, AuthoringInv, Validate

\* An edit keeps it.
LEMMA EditKeeps ==
  ASSUME AuthoringInv, NEW at \in Pointers[file], Edit(at)
  PROVE  AuthoringInv'
<1>1. /\ file \in Files /\ IsJson(document) /\ Fits(document, at) /\ ~repaired
      /\ file' = file /\ repaired' = repaired /\ report' = NONE
  BY DEF AuthoringInv, Edit
<1>2. Len(at) \in 1..2 /\ \A x \in Values[file] : IsJson(x)
  BY <1>1, Givens
<1>3. CASE \E x \in Values[file] : document' = Put(document, at, x)
  BY <1>1, <1>2, <1>3, JsonEdited DEF AuthoringInv
<1>4. CASE document' = Cut(document, at)
  BY <1>1, <1>2, <1>4, JsonEdited DEF AuthoringInv
<1> QED
  BY <1>3, <1>4 DEF Edit

\* So does the loss of the file.
LEMMA SpoilKeeps == AuthoringInv /\ Spoil => AuthoringInv'
<1>1. SUFFICES ASSUME AuthoringInv, Spoil PROVE AuthoringInv'
  OBVIOUS
<1>2. \A v \in {Missing, Unparsed} : IsJson(v)
  <2>1. AllJson({Missing, Unparsed})
    <3>1. Missing.is = "missing" /\ Unparsed.is = "not JSON"
      BY DEF Missing, Unparsed
    <3> QED
      BY <3>1 DEF AllJson, IsNumber, Keys
  <2> QED
    BY <2>1 DEF IsJson
<1> QED
  BY <1>1, <1>2 DEF AuthoringInv, Spoil

\* And a load.
LEMMA LoadKeeps == AuthoringInv /\ LoadIt => AuthoringInv'
BY DEF AuthoringInv, LoadIt

\* What is repaired is JSON, and nothing is reported of it.
LEMMA RepairIsRight ==
  ASSUME NEW f \in Files, NEW v, IsJson(v)
  PROVE  LET w == Repaired(v, Good[f], Violations(Manifest(f).schema, v)) IN
         IsJson(w) /\ Violations(Manifest(f).schema, w) = {}
<1>1. PICK s : s = Manifest(f).schema
  OBVIOUS
<1>2. PICK good : good = Good[f]
  OBVIOUS
<1>3. PICK root : root = Node(s, v, << >>)
  OBVIOUS
<1>4. root.by = s /\ root.value = v /\ root.at = << >>
  BY <1>3 DEF Node
<1>5. Wrong(root) = Violations(s, v)
  BY <1>3 DEF Wrong, Violations
<1>6. /\ f \in {"problem", "config"} /\ IsJson(good) /\ Violations(s, good) = {}
      /\ \A x \in Nodes(Node(s, good, << >>)) :
           "properties" \in DOMAIN x.by => DOMAIN x.by.properties \subseteq Keys(x.value)
  BY <1>1, <1>2, Givens
<1>7. /\ Shaped(s) /\ "properties" \in DOMAIN s
      /\ \A k \in DOMAIN s.properties : Shaped(s.properties[k])
  BY <1>1, <1>6, TheManifests, SchemasAreShaped
<1>8. PICK top : top = Node(s, good, << >>)
  OBVIOUS
<1>9. top.by = s /\ top.value = good /\ top.at = << >>
  BY <1>8 DEF Node
<1>10. Fine4(s, good)
  BY <1>6, <1>8, <1>9, CleanIs, CleanIsFine
<1>11. DOMAIN s.properties \subseteq Keys(good)
  BY <1>6, <1>7, <1>8, <1>9, NodesAre
<1>12. ASSUME NEW k \in DOMAIN s.properties, "properties" \in DOMAIN s.properties[k]
       PROVE  DOMAIN s.properties[k].properties \subseteq Keys(good.of[k])
  <2>1. PICK y : y = Node(s.properties[k], good.of[k], Append(top.at, k))
    OBVIOUS
  <2>2. y.by = s.properties[k] /\ y.value = good.of[k]
    BY <2>1 DEF Node
  <2>3. y \in Nodes(top)
    BY <1>7, <1>9, <1>11, <2>1, IsPart, DownIs, NodesAre
  <2> QED
    BY <1>6, <1>8, <1>12, <2>2, <2>3
<1>13. PICK w : w = Repaired(v, good, Violations(s, v))
  OBVIOUS
<1>14. IsJson(w) /\ Fine4(s, w)
  BY <1>4, <1>5, <1>6, <1>7, <1>10, <1>11, <1>12, <1>13, DocumentRepaired
<1>15. Violations(s, w) = {}
  <2>1. PICK x : x = Node(s, w, << >>)
    OBVIOUS
  <2>2. x.by = s /\ x.value = w
    BY <2>1 DEF Node
  <2> QED
    BY <1>14, <2>1, <2>2, CleanIs, CleanIsFine
<1> QED
  BY <1>1, <1>2, <1>13, <1>14, <1>15

\* A repair keeps the invariant.
LEMMA RepairKeeps == AuthoringInv /\ Repair => AuthoringInv'
<1>1. SUFFICES ASSUME AuthoringInv, Repair PROVE AuthoringInv'
  OBVIOUS
<1>2. /\ file \in Files /\ IsJson(document) /\ report = Load(file, document)
      /\ report.error = "Schema" /\ file' = file /\ report' = NONE
      /\ document' = Repaired(document, Good[file], report.violations)
  BY <1>1 DEF AuthoringInv, Repair
<1>3. report.violations = Violations(Manifest(file).schema, document)
  BY <1>2, Givens, LoadIs
<1>4. IsJson(document') /\ Violations(Manifest(file).schema, document') = {}
  BY <1>2, <1>3, RepairIsRight
<1> QED
  BY <1>2, <1>4 DEF AuthoringInv, Validate

\* Invariant: the document is JSON, the last answer holds of it, and a repaired
\* document has no violations.
THEOREM AuthoringIsInvariant == Spec => []AuthoringInv
<1>1. AuthoringInv /\ [Next]_vars => AuthoringInv'
  <2>1. AuthoringInv /\ Next => AuthoringInv'
    BY EditKeeps, SpoilKeeps, LoadKeeps, RepairKeeps DEF Next
  <2>2. AuthoringInv /\ UNCHANGED vars => AuthoringInv'
    BY DEF AuthoringInv, vars
  <2> QED
    BY <2>1, <2>2
<1> QED
  BY <1>1, AuthoringInit, PTL DEF Spec

\* SchemaImpliesTypes: whatever the schema lets pass the types take, unless a
\* whole number is written with a fraction (lib.rs:75-77).
THEOREM SchemasAgreeWithTypes == Spec => []SchemaImpliesTypes
<1>1. AuthoringInv => SchemaImpliesTypes
  <2>1. SUFFICES ASSUME AuthoringInv, report # NONE, Plain, report.error = "Model" PROVE FALSE
    BY DEF SchemaImpliesTypes
  <2>2. file \in {"problem", "config"} /\ report = Load(file, document) /\ IsJson(document)
    BY <2>1, Givens DEF AuthoringInv
  <2>3. /\ Violations(Manifest(file).schema, document) = {}
        /\ ~Accepts(Manifest(file).type, document)
    BY <2>1, <2>2, LoadIs
  <2> QED
    BY <2>1, <2>2, <2>3, SchemaTypes, TheManifests DEF Plain
<1> QED
  BY <1>1, AuthoringIsInvariant, PTL

\* OneRoundOfFixes: once everything a load reported is put right the next load
\* answers with the manifest (schema.rs:50-53).
THEOREM OneRoundIsEnough == Spec => []OneRoundOfFixes
<1>1. AuthoringInv => OneRoundOfFixes
  <2>1. SUFFICES ASSUME AuthoringInv, repaired, report # NONE, Plain PROVE IsLoaded
    BY DEF OneRoundOfFixes
  <2>2. /\ file \in {"problem", "config"} /\ report = Load(file, document) /\ IsJson(document)
        /\ Violations(Manifest(file).schema, document) = {}
    BY <2>1, Givens DEF AuthoringInv, Validate
  <2>3. Accepts(Manifest(file).type, document)
    BY <2>1, <2>2, SchemaTypes, TheManifests DEF Plain
  <2>4. report = Loaded(Typed(Manifest(file).type, document))
    BY <2>2, <2>3, LoadIs
  <2> QED
    BY <2>1, <2>4 DEF IsLoaded, Loaded
<1> QED
  BY <1>1, AuthoringIsInvariant, PTL


-----------------------------------------------------------------------------
(* Blocks that are left out.                                               *)

\* What of a struct no one wrote is what its fields default to.
Unwritten(T) == [f \in DOMAIN T.properties |-> T.defaults[f]]

\* s and T: a block may be left out, and empty; what a struct T gets for it is
\* what an empty one would be.
MayBeOmitted(s, T, k) ==
  /\ k \in DOMAIN s.properties /\ \E properties : s.properties[k] = Closed(properties, {})
  /\ T.properties[k].kind = "struct" /\ "items" \notin DOMAIN T.properties[k]
  /\ DOMAIN T.properties[k].defaults = DOMAIN T.properties[k].properties
  /\ T.defaults[k] = Unwritten(T.properties[k])

\* A struct all of whose fields have a default.
LEMMA UnwrittenIs ==
  ASSUME NEW fields, \A f \in DOMAIN fields : "default" \in DOMAIN fields[f]
  PROVE  /\ Unwritten(Struct(fields)) = [f \in DOMAIN fields |-> fields[f].default]
         /\ DOMAIN Struct(fields).defaults = DOMAIN Struct(fields).properties
<1>1. DOMAIN Struct(fields).properties = DOMAIN fields
  BY StructIs
<1>2. DOMAIN Struct(fields).defaults = DOMAIN fields
  BY StructIs
<1>3. \A f \in DOMAIN fields : Struct(fields).defaults[f] = fields[f].default
  BY <1>2, StructIs
<1> QED
  BY <1>1, <1>2, <1>3 DEF Unwritten

\* The services, the limits and the features: the code that defaults a field and
\* the code that defaults the whole agree.
LEMMA TwoDefaults ==
  /\ Unwritten(Services) = ServicesDefault /\ Unwritten(Limits) = LimitsDefault
  /\ Unwritten(Features) = FeaturesDefault
  /\ \A T \in {Services, Limits, Features} :
       /\ T.kind = "struct" /\ "items" \notin DOMAIN T
       /\ DOMAIN T.defaults = DOMAIN T.properties
<1>1. PICK services :
        /\ Services = Struct(services)
        /\ services = [bitcoind |-> Defaulted(Boolean, TRUE), lnd |-> Defaulted(Boolean, FALSE),
                       electrs |-> Defaulted(Boolean, FALSE)]
  BY DEF Services
<1>2. /\ DOMAIN services = {"bitcoind", "lnd", "electrs"}
      /\ \A f \in DOMAIN services : "default" \in DOMAIN services[f]
      /\ [f \in DOMAIN services |-> services[f].default] = ServicesDefault
  <2>1. services = [bitcoind |-> [type |-> Boolean, default |-> TRUE],
                    lnd |-> [type |-> Boolean, default |-> FALSE],
                    electrs |-> [type |-> Boolean, default |-> FALSE]]
    BY <1>1 DEF Defaulted
  <2>2. /\ DOMAIN services = {"bitcoind", "lnd", "electrs"}
        /\ \A f \in DOMAIN services : "default" \in DOMAIN services[f]
    BY <2>1
  <2>3. /\ services["bitcoind"].default = TRUE /\ services["lnd"].default = FALSE
        /\ services["electrs"].default = FALSE
    BY <2>1
  <2>4. /\ DOMAIN ServicesDefault = {"bitcoind", "lnd", "electrs"}
        /\ ServicesDefault["bitcoind"] = TRUE /\ ServicesDefault["lnd"] = FALSE
        /\ ServicesDefault["electrs"] = FALSE
    BY DEF ServicesDefault
  <2>5. [f \in DOMAIN services |-> services[f].default]
          = [f \in DOMAIN ServicesDefault |-> ServicesDefault[f]]
    BY <2>2, <2>3, <2>4
  <2>6. ServicesDefault = [f \in DOMAIN ServicesDefault |-> ServicesDefault[f]]
    BY DEF ServicesDefault
  <2> QED
    BY <2>2, <2>5, <2>6
<1>3. PICK limits :
        /\ Limits = Struct(limits)
        /\ limits = [wall_sec |-> Defaulted(U32, DEFAULT_WALL_SEC),
                     memory_mb |-> Defaulted(U32, DEFAULT_MEMORY_MB)]
  BY DEF Limits
<1>4. /\ \A f \in DOMAIN limits : "default" \in DOMAIN limits[f]
      /\ [f \in DOMAIN limits |-> limits[f].default] = LimitsDefault
  BY <1>3 DEF Defaulted, LimitsDefault
<1>5. PICK features :
        /\ Features = Struct(features)
        /\ features = [f \in {"lightning", "indexer", "objectstore", "observability"} |->
                         Defaulted(Boolean, FALSE)]
  BY DEF Features
<1>6. /\ \A f \in DOMAIN features : "default" \in DOMAIN features[f] /\ features[f].default = FALSE
      /\ [f \in DOMAIN features |-> features[f].default] = [f \in DOMAIN features |-> FALSE]
  BY <1>5 DEF Defaulted
<1>7. DOMAIN Features.properties = DOMAIN features
  <2>1. Features = Struct(features)
    BY <1>5, Zenon
  <2> QED
    BY <2>1, StructIs
<1>8. Unwritten(Services) = ServicesDefault /\ DOMAIN Services.defaults = DOMAIN Services.properties
  <2>1. Services = Struct(services)
    BY <1>1, Zenon
  <2> QED
    BY <1>2, <2>1, UnwrittenIs
<1>9. Unwritten(Limits) = LimitsDefault /\ DOMAIN Limits.defaults = DOMAIN Limits.properties
  <2>1. Limits = Struct(limits)
    BY <1>3, Zenon
  <2> QED
    BY <1>4, <2>1, UnwrittenIs
<1>10. Unwritten(Features) = FeaturesDefault /\ DOMAIN Features.defaults = DOMAIN Features.properties
  <2>1. Features = Struct(features)
    BY <1>5, Zenon
  <2>2. Unwritten(Features) = [f \in DOMAIN features |-> FALSE]
    BY <1>6, <2>1, UnwrittenIs
  <2> QED
    BY <1>6, <1>7, <2>1, <2>2, UnwrittenIs DEF FeaturesDefault
<1>11. \A T \in {Services, Limits, Features} : T.kind = "struct" /\ "items" \notin DOMAIN T
  BY StructIs DEF Services, Limits, Features
<1> QED
  BY <1>8, <1>9, <1>10, <1>11

\* No other type is a struct.
LEMMA KindsAre ==
  /\ U32.kind # "struct" /\ Str.kind # "struct" /\ Boolean.kind # "struct"
  /\ \A x : Enum(x).kind # "struct" /\ Vec(x).kind # "struct"
BY DEF U32, Str, Boolean, Enum, Vec

\* Whatever key of the two files holds a block may be left out.
LEMMA BlocksMayBeOmitted ==
  ASSUME NEW f \in {"problem", "config"}, NEW k \in DOMAIN Manifest(f).type.properties,
         Manifest(f).type.properties[k].kind = "struct"
  PROVE  MayBeOmitted(Manifest(f).schema, Manifest(f).type, k)
<1>1. ASSUME f = "problem" PROVE MayBeOmitted(Manifest(f).schema, Manifest(f).type, k)
  <2>1. Manifest(f).schema = ProblemSchema /\ Manifest(f).type = Problem
    BY <1>1 DEF Manifest
  <2>2. PICK fields : Problem = Struct(fields) /\ fields = [schema_version |-> Field(U32), id |-> Field(Str), title |-> Field(Str),
                          category |-> Field(Str),
                          difficulty |-> Field(Enum({"easy", "medium", "hard"})),
                          languages |-> Field(Vec(Enum(Languages))), fixture |-> Field(Str),
                          services |-> Defaulted(Services, ServicesDefault),
                          limits |-> Defaulted(Limits, LimitsDefault)]
    BY DEF Problem
  <2>3. Problem = Struct(fields)
    BY <2>2, Zenon
  <2>4. /\ DOMAIN Problem.properties = DOMAIN fields
        /\ \A g \in DOMAIN fields : Problem.properties[g] = fields[g].type
        /\ DOMAIN Problem.defaults = {g \in DOMAIN fields : "default" \in DOMAIN fields[g]}
        /\ \A g \in DOMAIN Problem.defaults : Problem.defaults[g] = fields[g].default
    BY <2>3, StructIs
  <2>5. /\ fields["services"].type = Services /\ fields["services"].default = ServicesDefault
        /\ "default" \in DOMAIN fields["services"]
        /\ fields["limits"].type = Limits /\ fields["limits"].default = LimitsDefault
        /\ "default" \in DOMAIN fields["limits"]
        /\ "services" \in DOMAIN fields /\ "limits" \in DOMAIN fields
    BY <2>2, FieldIs
  <2>6. k \in {"services", "limits"}
    <3>1. \A g \in DOMAIN fields \ {"services", "limits"} : fields[g].type.kind # "struct"
      BY <2>2, FieldIs, KindsAre
    <3> QED
      BY <2>1, <2>4, <3>1
  <2>7. /\ {"services", "limits"} \subseteq DOMAIN ProblemSchema.properties
        /\ ProblemSchema.properties["services"] = ServicesSchema
        /\ ProblemSchema.properties["limits"] = LimitsSchema
    BY DEF ProblemSchema, Closed
  <2>8. /\ \E properties : ServicesSchema = Closed(properties, {})
        /\ \E properties : LimitsSchema = Closed(properties, {})
    BY DEF ServicesSchema, LimitsSchema
  <2> QED
    BY <2>1, <2>4, <2>5, <2>6, <2>7, <2>8, TwoDefaults DEF MayBeOmitted
<1>2. ASSUME f = "config" PROVE MayBeOmitted(Manifest(f).schema, Manifest(f).type, k)
  <2>1. Manifest(f).schema = ConfigSchema /\ Manifest(f).type = Config
    BY <1>2 DEF Manifest
  <2>2. PICK fields : Config = Struct(fields) /\ fields = [schema_version |-> Field(U32), title |-> Field(Str),
                          features |-> Defaulted(Features, FeaturesDefault),
                          categories |-> Field(Vec(Category)), tracks |-> Field(Vec(Track))]
    BY DEF Config
  <2>3. Config = Struct(fields)
    BY <2>2, Zenon
  <2>4. /\ DOMAIN Config.properties = DOMAIN fields
        /\ \A g \in DOMAIN fields : Config.properties[g] = fields[g].type
        /\ DOMAIN Config.defaults = {g \in DOMAIN fields : "default" \in DOMAIN fields[g]}
        /\ \A g \in DOMAIN Config.defaults : Config.defaults[g] = fields[g].default
    BY <2>3, StructIs
  <2>5. /\ fields["features"].type = Features /\ fields["features"].default = FeaturesDefault
        /\ "default" \in DOMAIN fields["features"] /\ "features" \in DOMAIN fields
    BY <2>2, FieldIs
  <2>6. k = "features"
    <3>1. \A g \in DOMAIN fields \ {"features"} : fields[g].type.kind # "struct"
      BY <2>2, FieldIs, KindsAre
    <3> QED
      BY <2>1, <2>4, <3>1
  <2>7. /\ "features" \in DOMAIN ConfigSchema.properties
        /\ ConfigSchema.properties["features"] = FeaturesSchema
    BY DEF ConfigSchema, Closed
  <2>8. \E properties : FeaturesSchema = Closed(properties, {})
    BY DEF FeaturesSchema
  <2> QED
    BY <2>1, <2>4, <2>5, <2>6, <2>7, <2>8, TwoDefaults DEF MayBeOmitted
<1> QED
  BY <1>1, <1>2


\* With an empty block under a key there is one more node, which has no parts.
LEMMA NodesWith ==
  ASSUME NEW by, NEW v, IsJson(v), v.is = "object",
         "properties" \in DOMAIN by, "items" \notin DOMAIN by,
         NEW k \in DOMAIN by.properties, k \notin Keys(v),
         NEW e, IsJson(e), e.is = "object", Keys(e) = {}
  PROVE  \A y \in Nodes(Node(by, With(v, k, e), << >>)) :
           \/ y.by = by /\ y.value = With(v, k, e)
           \/ y.by = by.properties[k] /\ y.value = e
           \/ y \in Nodes(Node(by, v, << >>))
<1>1. PICK w : w = With(v, k, e)
  OBVIOUS
<1>2. PICK new : new = Node(by, w, << >>)
  OBVIOUS
<1>3. PICK old : old = Node(by, v, << >>)
  OBVIOUS
<1>4. PICK block : block = Node(by.properties[k], e, Append(<< >>, k))
  OBVIOUS
<1>5. /\ new.by = by /\ new.value = w /\ new.at = << >> /\ old.by = by /\ old.value = v
      /\ old.at = << >> /\ block.by = by.properties[k] /\ block.value = e
  BY <1>2, <1>3, <1>4 DEF Node
<1>6. /\ Keys(w) = Keys(v) \cup {k} /\ w.is = "object"
      /\ \A j \in Keys(v) \cup {k} : w.of[j] = IF j = k THEN e ELSE v.of[j]
  BY <1>1, JsonWith
<1>7. Down({new}) \subseteq Down({old}) \cup {block}
  <2>1. SUFFICES ASSUME NEW y \in Parts(new) PROVE y \in Parts(old) \cup {block}
    BY DownIs
  <2>2. PICK j \in Keys(w) \cap DOMAIN by.properties : y = Node(by.properties[j], w.of[j], Append(<< >>, j))
    <3>1. \E j \in Keys(new.value) \cap DOMAIN new.by.properties :
            y = Node(new.by.properties[j], new.value.of[j], Append(new.at, j))
      <4>1. "items" \notin DOMAIN new.by
        BY <1>5
      <4> QED
        BY <2>1, <4>1, IsPart
    <3> QED
      BY <1>5, <3>1
  <2>3. CASE j = k
    BY <1>4, <1>6, <2>2, <2>3
  <2>4. CASE j # k
    BY <1>5, <1>6, <2>2, <2>4, IsPart
  <2> QED
    BY <2>3, <2>4
<1>8. ASSUME NEW X, NEW Y, X \subseteq Y \cup {block} PROVE Down(X) \subseteq Down(Y)
  <2>1. Parts(block) = {}
    BY <1>5, IsPart
  <2> QED
    BY <1>8, <2>1, DownIs
<1>9. Down2({new}) \subseteq Down2({old})
  BY <1>7, <1>8 DEF Down2
<1>10. Down3({new}) \subseteq Down3({old})
  BY <1>9, DownGrows DEF Down3
<1>11. Down4({new}) \subseteq Down4({old})
  BY <1>10, DownGrows DEF Down4
<1>12. ASSUME NEW y \in Nodes(new) PROVE y = new \/ y = block \/ y \in Nodes(old)
  BY <1>7, <1>9, <1>10, <1>11, NodesAre
<1> QED
  BY <1>1, <1>2, <1>3, <1>5, <1>12

\* A block that may be left out means what an empty one means.
LEMMA EmptyIsOmitted ==
  ASSUME NEW f \in {"problem", "config"}, NEW k \in DOMAIN Manifest(f).type.properties,
         Manifest(f).type.properties[k].kind = "struct",
         NEW v, IsJson(v), k \notin Keys(v), Violations(Manifest(f).schema, v) = {},
         Accepts(Manifest(f).type, v)
  PROVE  Load(f, With(v, k, Obj([j \in {} |-> NONE]))) = Load(f, v)
<1>1. PICK s : s = Manifest(f).schema
  OBVIOUS
<1>2. PICK T : T = Manifest(f).type
  OBVIOUS
<1>3. PICK e : e = Obj([j \in {} |-> NONE])
  OBVIOUS
<1>4. IsJson(e) /\ e.is = "object" /\ Keys(e) = {}
  <2>1. PICK none : none = [j \in {} |-> NONE]
    OBVIOUS
  <2>2. DOMAIN none = {} /\ \A j \in DOMAIN none : IsJson(none[j])
    BY <2>1
  <2> QED
    BY <1>3, <2>1, <2>2, JsonObject
<1>5. PICK w : w = With(v, k, e)
  OBVIOUS
<1>6. v.is = "object"
  BY SoundIsObject
<1>7. /\ w.is = "object" /\ Keys(w) = Keys(v) \cup {k}
      /\ \A j \in Keys(v) : w.of[j] = v.of[j]
      /\ w.of[k] = e
  BY <1>4, <1>5, JsonWith
<1>8. /\ k \in DOMAIN s.properties /\ \E properties : s.properties[k] = Closed(properties, {})
      /\ T.properties[k].kind = "struct" /\ "items" \notin DOMAIN T.properties[k]
      /\ DOMAIN T.properties[k].defaults = DOMAIN T.properties[k].properties
      /\ T.defaults[k] = Unwritten(T.properties[k])
  BY <1>1, <1>2, BlocksMayBeOmitted DEF MayBeOmitted
<1>9. PICK properties, required : s = Closed(properties, required) /\ required \subseteq DOMAIN properties
  BY <1>1, TheManifests, SchemasAreShaped DEF Shaped
<1>10. /\ "properties" \in DOMAIN s /\ "items" \notin DOMAIN s /\ s.properties = properties
       /\ s.required = required /\ s.type = "object" /\ DOMAIN s = {"type", "properties", "required"}
  BY <1>9 DEF Closed
<1>11. T.kind = "struct" /\ "properties" \in DOMAIN T /\ "items" \notin DOMAIN T
  <2>1. T \in {Problem, Config}
    BY <1>2 DEF Manifest
  <2> QED
    BY <2>1, StructIs DEF Problem, Config
<1>12. Sound(s, v) /\ Takes(T, v)
  <2>1. Node(s, v, << >>) \in Nodes(Node(s, v, << >>)) /\ Node(T, v, << >>) \in Nodes(Node(T, v, << >>))
    BY NodesAre
  <2> QED
    BY <1>1, <1>2, <2>1, CleanIs, Fields DEF Clean, Accepts
<1>13. Sound(s, w)
  <2>1. required \subseteq Keys(v) /\ Keys(v) \subseteq DOMAIN properties
    BY <1>6, <1>10, <1>12 DEF Sound
  <2>2. \A j \in DOMAIN s : ~Breaks(j, s, w)
    BY <1>7, <1>10 DEF Breaks
  <2> QED
    BY <1>7, <1>8, <1>10, <2>1, <2>2 DEF Sound
<1>14. Sound(s.properties[k], e)
  <2>1. PICK inner : s.properties[k] = Closed(inner, {})
    BY <1>8
  <2>2. /\ DOMAIN s.properties[k] = {"type", "properties", "required"}
        /\ s.properties[k].type = "object" /\ s.properties[k].required = {}
    BY <2>1 DEF Closed
  <2> QED
    BY <1>4, <2>2 DEF Sound, Breaks
<1>15. Violations(s, w) = {}
  <2>1. \A x \in Nodes(Node(s, v, << >>)) : Sound(x.by, x.value)
    BY <1>1, CleanIs DEF Clean
  <2>2. \A y \in Nodes(Node(s, w, << >>)) :
           \/ y.by = s /\ y.value = w
           \/ y.by = s.properties[k] /\ y.value = e
           \/ y \in Nodes(Node(s, v, << >>))
    BY <1>4, <1>5, <1>6, <1>8, <1>10, NodesWith
  <2> QED
    BY <1>13, <1>14, <2>1, <2>2, CleanIs DEF Clean
<1>16. Takes(T, w)
  BY <1>2, <1>6, <1>7, <1>11, <1>12 DEF Takes
<1>17. Takes(T.properties[k], e)
  BY <1>4, <1>8 DEF Takes
<1>18. Accepts(T, w)
  <2>1. \A x \in Nodes(Node(T, v, << >>)) : Takes(x.by, x.value)
    BY <1>2 DEF Accepts
  <2>2. \A y \in Nodes(Node(T, w, << >>)) :
           \/ y.by = T /\ y.value = w
           \/ y.by = T.properties[k] /\ y.value = e
           \/ y \in Nodes(Node(T, v, << >>))
    BY <1>2, <1>4, <1>5, <1>6, <1>11, NodesWith
  <2> QED
    BY <1>16, <1>17, <2>1, <2>2 DEF Accepts
<1>19. Typed(T, w) = Typed(T, v)
  <2>1. Typed3(T.properties[k], e) = T.defaults[k]
    <3>1. PICK B : B = T.properties[k]
      OBVIOUS
    <3>2. Typed3(B, e) = [g \in DOMAIN B.properties |->
                            IF g \in Keys(e) THEN Typed2(B.properties[g], e.of[g]) ELSE B.defaults[g]]
      <4>1. B.kind = "struct"
        BY <1>8, <3>1
      <4> QED
        BY <4>1 DEF Typed3, TypedBy
    <3>3. Typed3(B, e) = [g \in DOMAIN B.properties |-> B.defaults[g]]
      BY <1>4, <3>2
    <3> QED
      BY <1>8, <3>1, <3>3 DEF Unwritten
  <2>2. \A g \in DOMAIN T.properties :
          (IF g \in Keys(w) THEN Typed3(T.properties[g], w.of[g]) ELSE T.defaults[g])
            = (IF g \in Keys(v) THEN Typed3(T.properties[g], v.of[g]) ELSE T.defaults[g])
    BY <1>7, <2>1
  <2>3. Typed(T, w) = [g \in DOMAIN T.properties |->
                        IF g \in Keys(w) THEN Typed3(T.properties[g], w.of[g]) ELSE T.defaults[g]]
    BY <1>11 DEF Typed, TypedBy
  <2>4. Typed(T, v) = [g \in DOMAIN T.properties |->
                        IF g \in Keys(v) THEN Typed3(T.properties[g], v.of[g]) ELSE T.defaults[g]]
    BY <1>11 DEF Typed, TypedBy
  <2> QED
    BY <2>2, <2>3, <2>4
<1> QED
  BY <1>1, <1>2, <1>3, <1>5, <1>15, <1>18, <1>19, LoadIs

\* OmittedIsEmpty: a manifest without a block loads as the same manifest with an
\* empty one (problem.rs:141-153, 184-191).
THEOREM OmittedMeansEmpty == Spec => []OmittedIsEmpty
<1>1. AuthoringInv => OmittedIsEmpty
  <2>1. SUFFICES ASSUME AuthoringInv, NEW k \in DOMAIN Manifest(file).type.properties,
                        IsLoaded, k \notin Keys(document),
                        Manifest(file).type.properties[k].kind = "struct"
                 PROVE  Load(file, With(document, k, Obj([j \in {} |-> NONE]))) = report
    BY DEF OmittedIsEmpty
  <2>2. file \in {"problem", "config"} /\ report = Load(file, document) /\ IsJson(document)
    BY <2>1, Givens DEF AuthoringInv, IsLoaded
  <2>3. /\ Violations(Manifest(file).schema, document) = {}
        /\ Accepts(Manifest(file).type, document)
    BY <2>1, <2>2, LoadIs DEF IsLoaded
  <2> QED
    BY <2>1, <2>2, <2>3, EmptyIsOmitted
<1> QED
  BY <1>1, AuthoringIsInvariant, PTL


-----------------------------------------------------------------------------
(* The problems the tracks name.                                           *)

\* referenced_problems goes through the mentions one by one.
LEMMA Referencing ==
  ASSUME NEW T, NEW config, Mentions(config) \in Seq(T)
  PROVE  \E f \in [0..Len(Mentions(config)) -> Seq(T)] :
           /\ f[0] = << >> /\ ReferencedProblems(config) = f[Len(Mentions(config))]
           /\ \A i \in 1..Len(Mentions(config)) :
                f[i] = IF Contains(f[i - 1], Mentions(config)[i]) THEN f[i - 1]
                       ELSE Append(f[i - 1], Mentions(config)[i])
<1>1. PICK all \in Seq(T) : all = Mentions(config)
  OBVIOUS
<1>2. PICK n \in Nat : n = Len(all)
  OBVIOUS
<1>3. \A i \in 1..n : all[i] \in T
  BY <1>2
<1> DEFINE F == [x \in (1..n) \X Seq(T) |->
                   IF Contains(x[2], all[x[1]]) THEN x[2] ELSE Append(x[2], all[x[1]])]
<1>4. F \in Steps(Seq(T), n)
  BY <1>3 DEF Steps
<1>5. \A i \in 1..n, s \in Seq(T) :
        F[<<i, s>>] = IF Contains(s, all[i]) THEN s ELSE Append(s, all[i])
  OBVIOUS
<1> HIDE DEF F
<1>6. PICK b \in Seq(T) : b = << >>
  BY EmptySeq
<1>7. PICK f \in [0..n -> Seq(T)] : f[0] = b /\ \A i \in 1..n : f[i] = F[<<i, f[i - 1]>>]
  <2>1. \E f \in [0..n -> Seq(T)] : IsRun(f, b, n, F)
    BY <1>4, Repeated
  <2> QED
    BY <2>1 DEF IsRun
<1>8. ASSUME NEW i \in 1..n
      PROVE  f[i] = IF Contains(f[i - 1], all[i]) THEN f[i - 1] ELSE Append(f[i - 1], all[i])
  <2>1. i - 1 \in 0..n
    OBVIOUS
  <2> QED
    BY <1>5, <1>7, <2>1
<1> DEFINE Def(h) == h = [m \in 0..n |->
                            IF m = 0 THEN << >>
                            ELSE IF Contains(h[m - 1], all[m]) THEN h[m - 1]
                                 ELSE Append(h[m - 1], all[m])]
<1>9. Def(f)
  <2>1. \A m \in 0..n : f[m] = IF m = 0 THEN << >>
                               ELSE IF Contains(f[m - 1], all[m]) THEN f[m - 1]
                                    ELSE Append(f[m - 1], all[m])
    <3>1. \A m \in 0..n : m = 0 \/ (m \in 1..n /\ m # 0)
      OBVIOUS
    <3> QED
      BY <1>6, <1>7, <1>8, <3>1
  <2>2. f = [m \in 0..n |-> f[m]]
    BY <1>7
  <2> QED
    BY <2>1, <2>2
<1>10. PICK h : Def(h) /\ ReferencedProblems(config) = h[n]
  <2>1. Def(CHOOSE h : Def(h))
    BY <1>9
  <2>2. ReferencedProblems(config) = (CHOOSE h : Def(h))[n]
    BY <1>1, <1>2 DEF ReferencedProblems
  <2> QED
    BY <2>1, <2>2
<1>11. /\ h[0] = << >>
       /\ \A i \in 1..n : h[i] = IF Contains(h[i - 1], all[i]) THEN h[i - 1] ELSE Append(h[i - 1], all[i])
  <2>1. \A m \in 0..n : h[m] = IF m = 0 THEN << >>
                               ELSE IF Contains(h[m - 1], all[m]) THEN h[m - 1]
                                    ELSE Append(h[m - 1], all[m])
    BY <1>10
  <2>2. 0 \in 0..n /\ \A i \in 1..n : i \in 0..n /\ i # 0
    OBVIOUS
  <2> QED
    BY <2>1, <2>2
<1>12. \A i \in 0..n : h[i] = f[i]
  <2> DEFINE Turns == {i \in Nat : i <= n => h[i] = f[i]}
  <2>1. 0 \in Turns
    BY <1>6, <1>7, <1>11
  <2>2. ASSUME NEW i \in Nat, i \in Turns PROVE i + 1 \in Turns
    <3>1. SUFFICES ASSUME i + 1 <= n PROVE h[i + 1] = f[i + 1]
      OBVIOUS
    <3>2. i + 1 \in 1..n /\ (i + 1) - 1 = i /\ h[i] = f[i]
      BY <2>2, <3>1
    <3> QED
      BY <1>8, <1>11, <3>2
  <2> HIDE DEF Turns
  <2>3. Nat \subseteq Turns
    BY <2>1, <2>2, Naturals
  <2> QED
    BY <2>3 DEF Turns
<1>13. ReferencedProblems(config) = f[n]
  BY <1>10, <1>12
<1>14. f \in [0..Len(Mentions(config)) -> Seq(T)] /\ f[0] = << >>
  BY <1>1, <1>2, <1>6, <1>7
<1> QED
  BY <1>1, <1>2, <1>8, <1>13, <1>14

\* m is where id is met first.
FirstAt(all, id, m) == m \in DOMAIN all /\ all[m] = id /\ \A j \in 1..(m - 1) : all[j] # id

\* refs are the first n of `all`, each once, and in the order of their first mentions.
Gathered(all, n, refs) ==
  /\ \A i \in 1..Len(refs) : \E m \in 1..n : FirstAt(all, refs[i], m)
  /\ \A m \in 1..n : \E i \in 1..Len(refs) : refs[i] = all[m]
  /\ \A i, j \in 1..Len(refs) : i < j =>
       \A m, k \in 1..Len(all) : FirstAt(all, refs[i], m) /\ FirstAt(all, refs[j], k) => m < k

\* There is one place where something is met first.
LEMMA OneFirst ==
  ASSUME NEW T, NEW all \in Seq(T), NEW id, NEW m, NEW k,
         FirstAt(all, id, m), FirstAt(all, id, k)
  PROVE  m = k
<1>1. m \in Nat /\ k \in Nat /\ m > 0 /\ k > 0
  BY DEF FirstAt
<1>2. ~(m < k) /\ ~(k < m)
  BY <1>1 DEF FirstAt
<1> QED
  BY <1>1, <1>2

\* One mention more.
LEMMA GatherOne ==
  ASSUME NEW T, NEW all \in Seq(T), NEW n \in Nat, n + 1 <= Len(all),
         NEW refs \in Seq(T), Gathered(all, n, refs), NEW more,
         more = IF Contains(refs, all[n + 1]) THEN refs ELSE Append(refs, all[n + 1])
  PROVE  Gathered(all, n + 1, more)
<1>1. n + 1 \in 1..Len(all) /\ n + 1 \in DOMAIN all /\ all[n + 1] \in T /\ Len(refs) \in Nat
  OBVIOUS
<1>2. CASE Contains(refs, all[n + 1])
  <2>1. more = refs
    BY <1>2
  <2>2. \E i \in 1..Len(refs) : refs[i] = all[n + 1]
    BY <1>2 DEF Contains
  <2>3. \A m \in 1..(n + 1) : \E i \in 1..Len(refs) : refs[i] = all[m]
    <3>1. \A m \in 1..(n + 1) : m \in 1..n \/ m = n + 1
      OBVIOUS
    <3> QED
      BY <2>2, <3>1 DEF Gathered
  <2>4. \A i \in 1..Len(refs) : \E m \in 1..(n + 1) : FirstAt(all, refs[i], m)
    <3>1. 1..n \subseteq 1..(n + 1)
      OBVIOUS
    <3> QED
      BY <3>1 DEF Gathered
  <2> QED
    BY <2>1, <2>3, <2>4 DEF Gathered
<1>3. CASE ~Contains(refs, all[n + 1])
  <2>1. more = Append(refs, all[n + 1])
    BY <1>3
  <2>2. PICK l \in Nat : l = Len(refs)
    BY <1>1
  <2>3. /\ Len(more) = l + 1 /\ more[l + 1] = all[n + 1]
        /\ \A i \in 1..l : more[i] = refs[i]
    BY <1>1, <2>1, <2>2, AppendProperties
  <2>4. \A i \in 1..l : refs[i] # all[n + 1]
    BY <1>3, <2>2 DEF Contains
  <2>5. FirstAt(all, all[n + 1], n + 1)
    <3>1. SUFFICES ASSUME NEW j \in 1..n, all[j] = all[n + 1] PROVE FALSE
      BY <1>1 DEF FirstAt
    <3>2. \E i \in 1..l : refs[i] = all[j]
      BY <2>2 DEF Gathered
    <3> QED
      BY <2>4, <3>1, <3>2
  <2>6. \A i \in 1..(l + 1) : i \in 1..l \/ i = l + 1
    OBVIOUS
  <2>7. /\ \A i \in 1..l : \E m \in 1..n : FirstAt(all, refs[i], m)
        /\ \A m \in 1..n : \E i \in 1..l : refs[i] = all[m]
    BY <2>2 DEF Gathered
  <2>8. \A i \in 1..(l + 1) : \E m \in 1..(n + 1) : FirstAt(all, more[i], m)
    <3>1. 1..n \subseteq 1..(n + 1) /\ n + 1 \in 1..(n + 1)
      OBVIOUS
    <3> QED
      BY <2>3, <2>5, <2>6, <2>7, <3>1
  <2>9. \A m \in 1..(n + 1) : \E i \in 1..(l + 1) : more[i] = all[m]
    <3>1. \A m \in 1..(n + 1) : m \in 1..n \/ m = n + 1
      OBVIOUS
    <3>2. 1..l \subseteq 1..(l + 1) /\ l + 1 \in 1..(l + 1)
      OBVIOUS
    <3> QED
      BY <2>3, <2>7, <3>1, <3>2
  <2>10. ASSUME NEW i \in 1..(l + 1), NEW j \in 1..(l + 1), i < j,
                NEW m \in 1..Len(all), NEW k \in 1..Len(all),
                FirstAt(all, more[i], m), FirstAt(all, more[j], k)
         PROVE  m < k
    <3>1. i \in 1..l /\ more[i] = refs[i]
      BY <2>3, <2>10
    <3>2. CASE j \in 1..l
      BY <2>2, <2>3, <2>10, <3>1, <3>2 DEF Gathered
    <3>3. CASE j = l + 1
      <4>1. k = n + 1
        BY <2>3, <2>5, <2>10, <3>3, OneFirst
      <4>2. PICK o \in 1..n : FirstAt(all, refs[i], o)
        BY <2>7, <3>1
      <4>3. m = o
        BY <2>10, <3>1, <4>2, OneFirst
      <4> QED
        BY <4>1, <4>2, <4>3
    <3> QED
      BY <2>6, <3>2, <3>3
  <2> QED
    BY <2>3, <2>8, <2>9, <2>10 DEF Gathered
<1> QED
  BY <1>2, <1>3

\* What referenced_problems makes of all mentions.
LEMMA AllGathered ==
  ASSUME NEW T, NEW config, Mentions(config) \in Seq(T)
  PROVE  /\ ReferencedProblems(config) \in Seq(T)
         /\ Gathered(Mentions(config), Len(Mentions(config)), ReferencedProblems(config))
<1>1. PICK all \in Seq(T) : all = Mentions(config)
  OBVIOUS
<1>2. PICK n \in Nat : n = Len(all)
  OBVIOUS
<1>3. PICK f \in [0..n -> Seq(T)] :
        /\ f[0] = << >> /\ ReferencedProblems(config) = f[n]
        /\ \A i \in 1..n :
             f[i] = IF Contains(f[i - 1], all[i]) THEN f[i - 1] ELSE Append(f[i - 1], all[i])
  <2>1. PICK f \in [0..Len(Mentions(config)) -> Seq(T)] :
          /\ f[0] = << >> /\ ReferencedProblems(config) = f[Len(Mentions(config))]
          /\ \A i \in 1..Len(Mentions(config)) :
               f[i] = IF Contains(f[i - 1], Mentions(config)[i]) THEN f[i - 1]
                      ELSE Append(f[i - 1], Mentions(config)[i])
    BY Referencing
  <2> QED
    BY <1>1, <1>2, <2>1
<1> DEFINE Turns == {i \in Nat : i <= n => Gathered(all, i, f[i])}
<1>4. 0 \in Turns
  <2>1. Gathered(all, 0, << >>)
    BY EmptySeq DEF Gathered
  <2> QED
    BY <1>3, <2>1
<1>5. ASSUME NEW i \in Nat, i \in Turns PROVE i + 1 \in Turns
  <2>1. SUFFICES ASSUME i + 1 <= n PROVE Gathered(all, i + 1, f[i + 1])
    OBVIOUS
  <2>2. i + 1 \in 1..n /\ (i + 1) - 1 = i /\ i \in 0..n /\ Gathered(all, i, f[i])
    BY <1>5, <2>1
  <2>3. f[i] \in Seq(T)
    BY <2>2
  <2>4. f[i + 1] = IF Contains(f[i], all[i + 1]) THEN f[i] ELSE Append(f[i], all[i + 1])
    BY <1>3, <2>2
  <2> QED
    BY <1>2, <2>1, <2>2, <2>3, <2>4, GatherOne
<1> HIDE DEF Turns
<1>6. n \in Turns
  BY <1>4, <1>5, Naturals
<1>7. Gathered(all, n, f[n]) /\ f[n] \in Seq(T)
  BY <1>6 DEF Turns
<1> QED
  BY <1>1, <1>2, <1>3, <1>7


\* What the fields of a configuration and of a track are.
LEMMA TracksAre ==
  /\ Config.kind = "struct" /\ "properties" \in DOMAIN Config
  /\ "tracks" \in DOMAIN Config.properties /\ Config.properties["tracks"] = Vec(Track)
  /\ "tracks" \notin DOMAIN Config.defaults
  /\ Track.kind = "struct" /\ "properties" \in DOMAIN Track
  /\ "problems" \in DOMAIN Track.properties /\ Track.properties["problems"] = Vec(Str)
  /\ "problems" \notin DOMAIN Track.defaults
  /\ \A T : Vec(T).kind = "vec" /\ Vec(T).items = T /\ "items" \in DOMAIN Vec(T)
<1>1. PICK fields : Config = Struct(fields) /\ fields = [schema_version |-> Field(U32), title |-> Field(Str),
                        features |-> Defaulted(Features, FeaturesDefault),
                        categories |-> Field(Vec(Category)), tracks |-> Field(Vec(Track))]
  BY DEF Config
<1>2. Config = Struct(fields)
  BY <1>1, Zenon
<1>3. /\ "tracks" \in DOMAIN fields /\ fields["tracks"].type = Vec(Track)
      /\ "default" \notin DOMAIN fields["tracks"]
  BY <1>1, FieldIs
<1>4. /\ Config.kind = "struct" /\ "properties" \in DOMAIN Config
      /\ "tracks" \in DOMAIN Config.properties /\ Config.properties["tracks"] = Vec(Track)
      /\ "tracks" \notin DOMAIN Config.defaults
  BY <1>2, <1>3, StructIs
<1>5. PICK of : Track = Struct(of) /\ of = [id |-> Field(Str), title |-> Field(Str),
                                            problems |-> Field(Vec(Str))]
  BY DEF Track
<1>6. Track = Struct(of)
  BY <1>5, Zenon
<1>7. /\ "problems" \in DOMAIN of /\ of["problems"].type = Vec(Str)
      /\ "default" \notin DOMAIN of["problems"]
  BY <1>5, FieldIs
<1>8. /\ Track.kind = "struct" /\ "properties" \in DOMAIN Track
      /\ "problems" \in DOMAIN Track.properties /\ Track.properties["problems"] = Vec(Str)
      /\ "problems" \notin DOMAIN Track.defaults
  BY <1>6, <1>7, StructIs
<1>9. \A T : Vec(T).kind = "vec" /\ Vec(T).items = T /\ "items" \in DOMAIN Vec(T)
  BY DEF Vec
<1> QED
  BY <1>4, <1>8, <1>9

\* The mentions of what a document loads into are a sequence.
LEMMA MentionsAre ==
  ASSUME NEW v, IsJson(v), Accepts(Config, v)
  PROVE  \E T : Mentions(Typed(Config, v)) \in Seq(T)
<1>1. PICK top : top = Node(Config, v, << >>)
  OBVIOUS
<1>2. top.by = Config /\ top.value = v /\ top.at = << >>
  BY <1>1 DEF Node
<1>3. \A x \in Nodes(top) : Takes(x.by, x.value)
  BY <1>1 DEF Accepts
<1>4. "tracks" \in Keys(v) /\ v.is = "object"
  <2>1. Takes(Config, v)
    BY <1>2, <1>3, NodesAre
  <2> QED
    BY <2>1, TracksAre DEF Takes
<1>5. PICK tracks : tracks = v.of["tracks"]
  OBVIOUS
<1>6. PICK list : list = Node(Vec(Track), tracks, Append(<< >>, "tracks"))
  OBVIOUS
<1>7. list.by = Vec(Track) /\ list.value = tracks
  BY <1>6 DEF Node
<1>8. list \in Down({top})
  BY <1>2, <1>4, <1>5, <1>6, IsPart, DownIs, TracksAre
<1>9. tracks.is = "array" /\ IsJson(tracks)
  <2>1. Takes(Vec(Track), tracks)
    BY <1>3, <1>7, <1>8, NodesAre
  <2> QED
    BY <1>4, <1>5, <2>1, TracksAre, JsonIs DEF Takes
<1>10. PICK n \in Nat : n = Len(tracks.items) /\ DOMAIN tracks.items = 1..n
  BY <1>9, JsonIs
<1>11. ASSUME NEW i \in 1..n
       PROVE  LET track == tracks.items[i]
                  problems == track.of["problems"] IN
              /\ "problems" \in Keys(track) /\ problems.is = "array" /\ IsJson(problems)
  <2>1. PICK track : track = tracks.items[i]
    OBVIOUS
  <2>2. PICK one : one = Node(Track, track, Append(list.at, i))
    OBVIOUS
  <2>3. one.by = Track /\ one.value = track
    BY <2>2 DEF Node
  <2>4. one \in Down2({top})
    <3>1. one \in Parts(list)
      <4>1. "items" \in DOMAIN list.by /\ list.by.items = Track /\ list.value.is = "array"
        BY <1>7, <1>9, TracksAre
      <4>2. i \in DOMAIN list.value.items /\ list.value.items[i] = track
        BY <1>7, <1>10, <2>1
      <4> QED
        BY <2>2, <4>1, <4>2, IsPart
    <3> QED
      BY <1>8, <3>1, DownIs DEF Down2
  <2>5. Takes(Track, track) /\ IsJson(track)
    BY <1>3, <1>9, <1>10, <2>1, <2>3, <2>4, NodesAre, JsonIs
  <2>6. "problems" \in Keys(track)
    BY <2>5, TracksAre DEF Takes
  <2>7. PICK problems : problems = track.of["problems"]
    OBVIOUS
  <2>8. PICK names : names = Node(Vec(Str), problems, Append(one.at, "problems"))
    OBVIOUS
  <2>9. names.by = Vec(Str) /\ names.value = problems
    BY <2>8 DEF Node
  <2>10. names \in Down3({top})
    <3>1. names \in Parts(one)
      BY <2>3, <2>6, <2>7, <2>8, IsPart, TracksAre
    <3> QED
      BY <2>4, <3>1, DownIs DEF Down3
  <2>11. Takes(Vec(Str), problems)
    BY <1>3, <2>9, <2>10, NodesAre
  <2>12. problems.is = "array"
    BY <2>11, TracksAre DEF Takes
  <2> QED
    BY <2>1, <2>5, <2>6, <2>7, <2>12, JsonIs
<1> DEFINE problems(i) == tracks.items[i].of["problems"].items
           T == UNION {{Typed0(Str, problems(i)[j]) : j \in DOMAIN problems(i)} : i \in 1..n}
           lists == [i \in 1..n |-> [j \in DOMAIN problems(i) |-> Typed0(Str, problems(i)[j])]]
<1>12. Typed(Config, v).tracks = Typed3(Vec(Track), tracks)
  <2>1. Typed(Config, v) = [f \in DOMAIN Config.properties |->
                              IF f \in Keys(v) THEN Typed3(Config.properties[f], v.of[f])
                              ELSE Config.defaults[f]]
    BY TracksAre DEF Typed, TypedBy
  <2> QED
    BY <1>4, <1>5, <2>1, TracksAre
<1>13. Typed3(Vec(Track), tracks) = [i \in 1..n |-> Typed2(Track, tracks.items[i])]
  <2>1. Typed3(Vec(Track), tracks)
          = [i \in DOMAIN tracks.items |-> Typed2(Vec(Track).items, tracks.items[i])]
    BY TracksAre DEF Typed3, TypedBy
  <2> QED
    BY <1>10, <2>1, TracksAre
<1>14. ASSUME NEW i \in 1..n
       PROVE  Typed2(Track, tracks.items[i]).problems
                = [j \in DOMAIN problems(i) |-> Typed0(Str, problems(i)[j])]
  <2>1. PICK track : track = tracks.items[i]
    OBVIOUS
  <2>2. "problems" \in Keys(track)
    BY <1>11, <2>1
  <2>3. Typed2(Track, track) = [f \in DOMAIN Track.properties |->
                                 IF f \in Keys(track) THEN Typed1(Track.properties[f], track.of[f])
                                 ELSE Track.defaults[f]]
    BY TracksAre DEF Typed2, TypedBy
  <2>4. Typed2(Track, track).problems = Typed1(Vec(Str), track.of["problems"])
    BY <2>2, <2>3, TracksAre
  <2>5. PICK names : names = track.of["problems"]
    OBVIOUS
  <2>6. Typed1(Vec(Str), names) = [j \in DOMAIN names.items |-> Typed0(Vec(Str).items, names.items[j])]
    BY TracksAre DEF Typed1, TypedBy
  <2>7. Vec(Str).items = Str
    BY TracksAre
  <2> QED
    BY <2>1, <2>4, <2>5, <2>6, <2>7
<1>15. Mentions(Typed(Config, v)) = FlattenSeq(lists)
  <2>1. PICK all : all = Typed(Config, v).tracks
    OBVIOUS
  <2>2. DOMAIN all = 1..n /\ \A i \in 1..n : all[i] = Typed2(Track, tracks.items[i])
    BY <1>12, <1>13, <2>1
  <2>3. \A i \in 1..n : all[i].problems = lists[i]
    BY <1>14, <2>2
  <2> HIDE DEF lists
  <2>4. lists = [i \in 1..n |-> lists[i]]
    BY DEF lists
  <2>5. [i \in DOMAIN all |-> all[i].problems] = lists
    BY <2>2, <2>3, <2>4
  <2>6. Mentions(Typed(Config, v)) = FlattenSeq([i \in DOMAIN all |-> all[i].problems])
    BY <2>1 DEF Mentions
  <2> QED
    BY <2>5, <2>6
<1>16. lists \in Seq(Seq(T))
  <2>1. ASSUME NEW i \in 1..n PROVE lists[i] \in Seq(T)
    <3>1. PICK m \in Nat : DOMAIN problems(i) = 1..m
      BY <1>11, JsonIs
    <3>2. lists[i] = [j \in 1..m |-> Typed0(Str, problems(i)[j])]
      BY <3>1
    <3>3. \A j \in 1..m : Typed0(Str, problems(i)[j]) \in T
      BY <3>1
    <3> HIDE DEF T, problems, lists
    <3>4. lists[i] \in [1..m -> T]
      BY <3>2, <3>3
    <3> QED
      BY <3>4, SeqDef
  <2>2. lists = [i \in 1..n |-> lists[i]]
    OBVIOUS
  <2> HIDE DEF lists, T
  <2>3. lists \in [1..n -> Seq(T)]
    BY <2>1, <2>2
  <2> QED
    BY <2>3, SeqDef
<1> HIDE DEF lists, T
<1>17. FlattenSeq(lists) \in Seq(T)
  <2>1. CASE lists = << >>
    BY <2>1, EmptySeq DEF FlattenSeq
  <2>2. CASE lists # << >>
    BY <1>16, <2>2, Flattened
  <2> QED
    BY <2>1, <2>2
<1> QED
  BY <1>15, <1>17

\* ReferencedOnce: every problem the tracks name is listed once, in the order in
\* which they first name them (config.rs:38-50).
THEOREM ReferencedInOrder == Spec => []ReferencedOnce
<1>1. AuthoringInv => ReferencedOnce
  <2>1. SUFFICES ASSUME AuthoringInv, IsLoaded, file = "config" PROVE ReferencedOnce
    BY DEF ReferencedOnce
  <2>2. report = Load("config", document) /\ IsJson(document)
    BY <2>1 DEF AuthoringInv, IsLoaded
  <2>3. Violations(ConfigSchema, document) = {} /\ Accepts(Config, document)
    <3>1. Manifest("config").schema = ConfigSchema /\ Manifest("config").type = Config
      BY DEF Manifest
    <3> QED
      BY <2>1, <2>2, <3>1, LoadIs DEF IsLoaded
  <2>4. report.value = Typed(Config, document)
    <3>1. Manifest("config").schema = ConfigSchema /\ Manifest("config").type = Config
      BY DEF Manifest
    <3>2. report = Loaded(Typed(Config, document))
      BY <2>2, <2>3, <3>1, LoadIs
    <3> QED
      BY <3>2 DEF Loaded
  <2>5. PICK T : Mentions(report.value) \in Seq(T)
    BY <2>2, <2>3, <2>4, MentionsAre
  <2>6. PICK all \in Seq(T) : all = Mentions(report.value)
    BY <2>5
  <2>7. PICK refs \in Seq(T) : refs = ReferencedProblems(report.value)
    BY <2>5, AllGathered
  <2>8. Gathered(all, Len(all), refs)
    BY <2>5, <2>6, <2>7, AllGathered
  <2> DEFINE first(id) == CHOOSE i \in DOMAIN all : all[i] = id /\ \A j \in 1..(i - 1) : all[j] # id
  <2>9. DOMAIN refs = 1..Len(refs) /\ DOMAIN all = 1..Len(all)
    OBVIOUS
  <2>10. \A i \in DOMAIN refs : \E m \in DOMAIN all : FirstAt(all, refs[i], m)
    BY <2>8, <2>9 DEF Gathered
  <2>11. ASSUME NEW i \in DOMAIN refs
         PROVE  first(refs[i]) \in DOMAIN all /\ FirstAt(all, refs[i], first(refs[i]))
    BY <2>10 DEF FirstAt
  <2> HIDE DEF first
  <2>12. ToSet(refs) = ToSet(all)
    <3>1. \A i \in DOMAIN refs : \E m \in DOMAIN all : all[m] = refs[i]
      BY <2>10 DEF FirstAt
    <3>2. \A m \in DOMAIN all : \E i \in DOMAIN refs : refs[i] = all[m]
      BY <2>8, <2>9 DEF Gathered
    <3> QED
      BY <3>1, <3>2 DEF ToSet
  <2>13. \A i, j \in DOMAIN refs : i < j => first(refs[i]) < first(refs[j])
    BY <2>8, <2>9, <2>11 DEF Gathered
  <2> QED
    BY <2>6, <2>7, <2>12, <2>13 DEF ReferencedOnce, first
<1> QED
  BY <1>1, AuthoringIsInvariant, PTL
=============================================================================
