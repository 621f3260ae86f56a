----------------------------- MODULE MCVencRing -----------------------------
(* Small instances of VencRing: two slots, packets of two lengths that fit  *)
(* and one that does not, a consumer buffer that truncates the longer one.  *)
EXTENDS VencRing

MCLens == {1, 2, 3}
MCDamageable == {2}
AllCalls == {"read", "wait_timeout", "wait_forever"}
=============================================================================
