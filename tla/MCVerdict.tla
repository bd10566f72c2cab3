------------------------------ MODULE MCVerdict ------------------------------
(***************************************************************************)
(* A small instance of VerdictOutput: two characters are forwarded whole,  *)
(* and u32 has two bits.                                                   *)
(***************************************************************************)
EXTENDS VerdictOutput

Plain(is) == [is |-> is]
Text(length, visible) ==
  [is |-> "string", text |-> [length |-> length, visible |-> visible]]

Odd == {Plain("absent"), Plain("null"), Plain("other")}

\* Blank ones of every length, ones that start late, one that is cut.
SomeTexts == Odd \cup {Text(0, 0), Text(2, 2), Text(4, 4), Text(2, 1),
                       Text(4, 0), Text(4, 2), Text(4, 3)}

SomeNumbers == Odd \cup {Plain("fraction")}
                   \cup {[is |-> "integer", n |-> n] : n \in {0, 1, 3, 4, 5}}

Object(ok, message, testcase, stray) ==
  [kind |-> "object", ok |-> ok, message |-> message,
   testcase |-> testcase, stray |-> stray]

\* Every message with no testcase, every testcase with a plain message, and
\* the lines that are no object.
EveryLine ==
  LET Oks == {"absent", "other", "true", "false"}
  IN  {Object(ok, m, Plain("absent"), s) : ok \in Oks, m \in SomeTexts, s \in BOOLEAN}
      \cup {Object(ok, Text(2, 0), n, s) : ok \in Oks, n \in SomeNumbers, s \in BOOLEAN}
      \cup {[kind |-> k] : k \in {"blank", "text", "scalar"}}
=============================================================================
