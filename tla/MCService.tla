----------------------------- MODULE MCService -----------------------------
(***************************************************************************)
(* A small instance of Service: one request that saves at a time, two      *)
(* texts the loader accepts, of which the first has the card polled, and   *)
(* one it rejects.                                                         *)
(***************************************************************************)
EXTENDS Service

CONSTANTS old, new, bad, i1, i2

Inodes == {i1, i2}
=============================================================================
