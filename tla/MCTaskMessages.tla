---------------------------- MODULE MCTaskMessages ----------------------------
(* One or two messages of one task, and what the environment may do in each   *)
(* scenario.                                                                  *)
EXTENDS TaskMessages, TLC

Spending(some) == [k \in Kinds |-> IF k \in DOMAIN some THEN some[k] ELSE 0]

\* Two messages.
MCTwo == [messages |-> 2, most |->
    Spending([send |-> 2, stop |-> 1, turn |-> 1, deadline |-> 1])]

\* One message, sent again, and what can cross its path.
MCOne(others) == [messages |-> 1, most |->
    Spending([send |-> 2, stop |-> 1, crash |-> 1, deadline |-> 1] @@ others)]

MCScenarios == {MCOne([restart |-> 1, label |-> 1]), MCOne([abort |-> 1]), MCTwo}
================================================================================
