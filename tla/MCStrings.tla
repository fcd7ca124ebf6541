----------------------------- MODULE MCStrings ------------------------------
(* All memories of six bytes over the end of a string, a small letter and  *)
(* a capital.                                                              *)
EXTENDS Strings
=============================================================================
