------------------------------- MODULE MCRows -------------------------------
(***************************************************************************)
(* Two rows of every table, integers of two bits, two spellings of one id  *)
(* and of one instant, an instant RFC 3339 cannot say, and a text that     *)
(* parses as nothing.                                                      *)
(***************************************************************************)
EXTENDS Rows, TLC

CONSTANTS k1, k2, clocked, far

MCUlidText == k1 :> "01A" @@ k2 :> "01B"
MCUlidOf == "01A" :> k1 @@ "01a" :> k1 @@ "01B" :> k2
MCRfc3339 == clocked :> "12:00Z"
MCInstantOf == "12:00Z" :> clocked @@ "14:00+02:00" :> clocked

\* The values of a column: for an id of its own, the key.
Choices(t, k, c) ==
  IF c = "id" THEN {k} ELSE Values(Bound[t][c]) \cup Null(Bound[t][c])

\* One of them.
Typical(t, k, c) ==
  CASE Bound[t][c].kind = "str"     -> "easy"
    [] Bound[t][c].kind = "instant" -> clocked
    [] Bound[t][c].kind = "literal" -> Bound[t][c].value
    [] OTHER                        -> CHOOSE v \in Choices(t, k, c) : v # NULL

\* Rows that are typical but for one column at most.
MCInputs ==
  [t \in DOMAIN Bound |-> [k \in Keys |->
     LET typical == [c \in DOMAIN Bound[t] |-> Typical(t, k, c)]
     IN  UNION {{[typical EXCEPT ![c] = v] : v \in Choices(t, k, c)} : c \in DOMAIN Bound[t]}]]
=============================================================================
