----------------------------- MODULE MCHandler -----------------------------
(***************************************************************************)
(* Small instances of Handler: the segments "a" and "ab", of which one is  *)
(* a prefix of the other.                                                  *)
(***************************************************************************)
EXTENDS Handler

SegmentsDef == {<<"a">>, <<"a", "b">>}
=============================================================================
