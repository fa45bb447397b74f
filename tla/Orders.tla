------------------------------- MODULE Orders -------------------------------
(***************************************************************************)
(* A set that is sent member by member, in whatever order the hash table or*)
(* the server it comes from goes through it.                               *)
(***************************************************************************)
EXTENDS Naturals, FiniteSets

InSomeOrder(S) ==
    {f \in [1..Cardinality(S) -> S] : \A x \in S : \E i \in DOMAIN f : f[i] = x}
=============================================================================
