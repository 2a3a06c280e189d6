------------------------------ MODULE MCProber ------------------------------
(* A reload that adds an upstream: the first of the new generation is an    *)
(* upstream of the old one as well.                                         *)
EXTENDS Prober

UpstreamsDef == <<1, 2>>
=============================================================================
