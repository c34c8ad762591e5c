------------------------------- MODULE MCRing -------------------------------
(* TLC instance of Ring.                                                    *)
EXTENDS Ring
=============================================================================
