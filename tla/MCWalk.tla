------------------------------- MODULE MCWalk -------------------------------
(***************************************************************************)
(* A small directory for SourceWalk: files at two depths, and three links, *)
(* to the directory that holds it, to nothing, and out of the tree.        *)
(***************************************************************************)
EXTENDS SourceWalk, TLC

SmallTree ==
  (Root :> Dir) @@ (Outside :> File("outside", {})) @@ (<<"f">> :> File("f", {}))
  @@ (<<"d">> :> Dir) @@ (<<"d", "f">> :> File("df", {}))
  @@ (<<"d", "l">> :> Link(<<"d">>)) @@ (<<"l">> :> Link(Outside))
  @@ (<<"d", "d">> :> Link(<<"x">>))

Starts == {<<"">>, <<"d">>, <<".", "f">>, <<"x">>, <<"l">>}

\* A link that is made leads to the root.
NewLinks == {Root}

NoBackslash == [s \in {} |-> << >>]
=============================================================================
