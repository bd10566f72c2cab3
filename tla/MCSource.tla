------------------------------ MODULE MCSource ------------------------------
(***************************************************************************)
(* Small instances of SourceUpload: two names, one segment with a colon,   *)
(* one with a backslash, and the spellings of paths worth asking for.      *)
(***************************************************************************)
EXTENDS SourceUpload

Backslashes == [s \in {"a\\b"} |-> <<"a", "b">>]

\* Links lead to an entry of the root, into a directory, or out of the tree.
LinkTargets == {<<"a">>, <<"a", "b">>, Outside}

SomeModes == {{}, {"group"}}

\* Every short path of plain segments, one too deep, and the odd ones.
Paths ==
       UNION {[1..n -> {"a", "b"}] : n \in 1..2} \cup {<<"a", "b", "a">>}
  \cup {<<"">>, <<".">>, <<".", "">>, <<".", ".">>, <<".", "", "a">>,
        <<"", "a">>, <<"a", "">>, <<".", "a">>, <<"a", "", "b">>,
        <<"a", ".", "b">>, <<"..">>, <<"a", "..", "b">>, <<"a", "b", "..", "b">>,
        <<"..", "a">>, <<"c:">>, <<"a", "c:">>, <<"a\\b">>, <<"a", "b", "">>}
=============================================================================
