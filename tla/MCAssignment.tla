---------------------------- MODULE MCAssignment ----------------------------
(* Two rules over two members: the first deals to a sales group in which b *)
(* gets two turns to a's one.                                              *)
EXTENDS Assignment, TLC

CONSTANTS a, b

Everyone == [condition |-> "all", strategy |-> "list", deal |-> <<a, b>>]
Some == [condition |-> "some", strategy |-> "group", deal |-> <<>>]

Settings ==
  { Everyone, Some,
    [condition |-> "some", strategy |-> "direct", deal |-> <<b>>],
    [condition |-> "broken", strategy |-> "nobody", deal |-> <<>>] }

Groups == {<<a, b, b>>, <<>>}

Starting == <<Some, Everyone>>

Symmetry == Permutations(Request)
=============================================================================
