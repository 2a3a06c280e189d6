----------------------------- MODULE MCRouting -----------------------------
(***************************************************************************)
(* Small instances of Routing: the segments "a" and "ab", of which one is  *)
(* a prefix of the other.                                                  *)
(***************************************************************************)
EXTENDS Routing

SegmentsDef == {<<"a">>, <<"a", "b">>}
=============================================================================
