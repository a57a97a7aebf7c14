---------------------------- MODULE MCWhefsNames ----------------------------
(***************************************************************************)
(* Instances of WhefsNames for TLC.  The names are n1, n2, n3 and, too     *)
(* long for the container, long; none is the empty name.                   *)
(***************************************************************************)
EXTENDS WhefsNames

CONSTANTS n1, n2, n3, long, none

AllNames == {n1, n2, n3, long}

\* Each name has its own hash.
HashApart ==
  [n \in Name \cup {NoName} |-> CASE n = n1 -> 3 [] n = n2 -> 1 [] n = n3 -> 5
                                  [] n = long -> 4 [] n = NoName -> 2]

\* The names n1 and n2 have one hash, as "Ab" and "BA" do.
HashShared ==
  [n \in Name \cup {NoName} |-> CASE n = n1 -> 3 [] n = n2 -> 3 [] n = n3 -> 1
                                  [] n = long -> 4 [] n = NoName -> 2]

=============================================================================
