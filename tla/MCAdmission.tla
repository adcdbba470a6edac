---------------------------- MODULE MCAdmission -----------------------------
(* Admission on a small instance: which requests come. *)
EXTENDS Admission

CONSTANTS i1, i2

MCRequest(ip, stamp, signature, body) ==
  [ip |-> ip, stamp |-> stamp, signature |-> signature, body |-> body]

\* Signed on a second and between two, and what each check refuses.
MCRequests ==
  {MCRequest(i1, 4, "right", "valid"), MCRequest(i1, 5, "right", "valid"),
   MCRequest(i1, 4, "right", "invalid"), MCRequest(i1, 4, "missing", "valid"),
   MCRequest(i1, 4, "right", "oversized"), MCRequest(i1, NotFinite, "right", "valid"),
   MCRequest(i2, 4, "wrong", "valid")}
=============================================================================
