---------------------------- MODULE MCPublisher -----------------------------
(* Publisher on a small instance: which values each constant takes. *)
EXTENDS Publisher

CONSTANTS r1, r2, c1, c2
=============================================================================
