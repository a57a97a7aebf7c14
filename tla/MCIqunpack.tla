----------------------------- MODULE MCIqunpack -----------------------------
(***************************************************************************)
(* Instance of Iqunpack for TLC: bytes of eight values, and profiles with  *)
(* literals, copies that overlap themselves and a distance of two bytes.   *)
(***************************************************************************)
EXTENDS Iqunpack

TokenLists ==
  {<<>>, <<Lit(<<4>>)>>, <<Lit(<<5>>), Copy(1, 2), Lit(<<0, 7>>)>>,
   <<Lit(<<1, 2, 3>>), Copy(2, 5), Copy(6, 3)>>}

MCProfiles ==
  UNION {{[tokens |-> t, declared |-> n] :
            n \in {Len(Meaning(t)) + d : d \in {-1, 0, 1}} \cap Nat} : t \in TokenLists}

MCOutfiles == {<<>>, [k \in 1..12 |-> 9]}
=============================================================================
