------------------------------ MODULE MCPlugin ------------------------------
EXTENDS Plugin

MCHolderOf == [c \in Callers |-> IF c = "b" THEN "b" ELSE "a"]

MCKind == [f \in {"p1", "p2", "s1"} |-> IF f = "s1" THEN "skills" ELSE "patterns"]
MCRequired == [k \in {"patterns", "skills", "guidance"} |-> IF k = "guidance" THEN 0 ELSE 1]

MCApplies == [m \in {"ts", "bend", "docs"} |->
  CASE m = "ts" -> {"a.ts", "b"} [] m = "bend" -> {"b"} [] OTHER -> {"c.md"}]
MCCheckOf == [m \in {"ts", "bend", "docs"} |->
  CASE m = "ts" -> "typecheck" [] m = "bend" -> "lint" [] OTHER -> "none"]

MCSessionOf == [c \in Calls |-> "s"]
MCCallsOf == [c \in Calls |->
  IF c = "c1"
  THEN {<<"write", "strict">>, <<"shell", "strict">>, <<"context", "plain">>,
        <<"write", "internal">>}
  ELSE {<<"write", "opted out">>}]

MCUnits == {"a", "b", "x", "n", "q", "e", "h", "l", "/", "*", "_"}
MCSourceTexts ==
  {<<>>, <<"a", "x", "b">>, <<"a", "b", "a">>, <<"b", "x", "/", "a">>,
   <<"/", "/", "x", "n", "x">>, <<"/", "*", "x", "*", "/", "x">>,
   <<"q", "/", "/", "q", "x">>, <<"/", "/", "h", "l", "n", "x">>}
MCReplacements ==
  {[old |-> <<"a">>, new |-> <<"x">>], [old |-> <<"a">>, new |-> <<"b", "b">>],
   [old |-> <<"b">>, new |-> <<>>], [old |-> <<"b">>, new |-> <<"x">>],
   [old |-> <<"x">>, new |-> <<"a">>], [old |-> <<>>, new |-> <<"x">>]}
MCProfileLists == {<<"m2", "m1">>, <<"m1", "m1">>}
MCPlace == [p \in Profiles |-> IF p = "m1" THEN 1 ELSE 2]
\* Two specifications have the same hash.
MCRevisionOf == [s \in Specs |-> IF s.models = <<"m1", "m1">> THEN <<"x">> ELSE <<s.problem, s.models>>]

MCLabelOf == [k \in TrialKeys |-> IF k = "k3" THEN "long" ELSE "short"]
MCCriteria == [c \in {"test", "review"} |-> IF c = "test" THEN "command" ELSE "judge"]
MCAsks ==
  {[a \in Attempts |-> <<"r1", "k3">>],
   [a \in Attempts |-> <<"r1", IF a = "a1" THEN "k1" ELSE "k2">>],
   [a \in Attempts |-> <<IF a = "a1" THEN "r1" ELSE "r2", "k1">>]}
=============================================================================
