---------------------------- MODULE MCAuthoring ----------------------------
(***************************************************************************)
(* Small instances of Authoring: a complete problem.json and a complete    *)
(* config.json, and values on both sides of what their schemas demand.     *)
(***************************************************************************)
EXTENDS Authoring

SomeSlugs == {"week-1", "week-2", "week-3", "easy", "rust", "py", "cpp"}
Lengths == [s \in SomeSlugs \cup {"", "Week 1", "go"} |->
              IF s = "" THEN 0 ELSE IF s = "go" THEN 501 ELSE 6]

GoodProblem ==
  Obj([schema_version |-> Number(1), id |-> Text("week-1"), title |-> Text("Week 1"),
       category |-> Text("week-1"), difficulty |-> Text("easy"),
       languages |-> Arr(<<Text("rust"), Text("py")>>), fixture |-> Text("week-1"),
       services |-> Obj([bitcoind |-> Bool(TRUE), lnd |-> Bool(FALSE),
                         electrs |-> Bool(FALSE)]),
       limits |-> Obj([wall_sec |-> Number(5), memory_mb |-> Number(512)])])

ProblemKeys == DOMAIN GoodProblem.of \cup {"unknown"}
ProblemPointers ==
  {<<k>> : k \in ProblemKeys}
  \cup {<<"services", k>> : k \in {"bitcoind", "lnd", "unknown"}}
  \cup {<<"limits", k>> : k \in {"wall_sec", "memory_mb", "unknown"}}

Nothing == [k \in {} |-> NONE]

Numbers == {Number(n) : n \in {-1, 1, 300, 301}} \cup {Num("float", 30), Num("fraction", 300)}
ProblemValues ==
  Numbers \cup {Text("week-1"), Text("Week 1"), Text(""), Bool(TRUE), Bool(FALSE),
   Obj(Nothing), Arr(<< >>), Arr(<<Text("py"), Text("cpp")>>),
   Arr(<<Text("go"), Text("py"), Text("py")>>)}

Track1(problems) ==
  Obj([id |-> Text("week-1"), title |-> Text("Week 1"), problems |-> Arr(problems)])
GoodConfig ==
  Obj([schema_version |-> Number(1), title |-> Text("Week 1"),
       features |-> Obj([f \in {"lightning", "indexer", "objectstore", "observability"} |->
                           Bool(f = "indexer")]),
       categories |-> Arr(<<Obj([id |-> Text("week-1"), title |-> Text("Week 1"),
                                 description |-> Text("")])>>),
       tracks |-> Arr(<<Track1(<<Text("week-1"), Text("week-2")>>)>>)])

ConfigPointers ==
  {<<k>> : k \in DOMAIN GoodConfig.of \cup {"unknown"}}
  \cup {<<"features", k>> : k \in {"lightning", "unknown"}}
ConfigValues ==
  {Number(1), Num("float", 1), Text("week-1"), Bool(TRUE), Obj(Nothing), Arr(<< >>),
   Arr(<<Obj([id |-> Text("week-2"), title |-> Text("Week 1")]), Obj(Nothing)>>),
   Arr(<<Obj([id |-> Text("week-2"), title |-> Text("Week 1")])>>),
   Arr(<<Track1(<<Text("week-2"), Text("week-1")>>),
         Track1(<<Text("week-3"), Text("week-2")>>), Track1(<<Text("week-1")>>)>>),
   Arr(<<Track1(<<Text("week-1"), Text("week-1")>>)>>)}

BothGood == [problem |-> GoodProblem, config |-> GoodConfig]
BothPointers == [problem |-> ProblemPointers, config |-> ConfigPointers]
BothValues == [problem |-> ProblemValues, config |-> ConfigValues]

RECURSIVE Inside(_)
Inside(v) ==
  {v} \cup UNION {Inside(v.of[k]) : k \in Keys(v)}
      \cup (IF v.is = "array" THEN UNION {Inside(v.items[i]) : i \in DOMAIN v.items} ELSE {})
Written == UNION {Inside(v) : v \in {GoodProblem, GoodConfig} \cup ProblemValues \cup ConfigValues}
=============================================================================
