----------------------------- MODULE MCFramePath ---------------------------
(* Parameter sets in two versions, one of them too large to be remembered;  *)
(* slices that are gathered, sent alone, and cut into three fragments.      *)
EXTENDS FramePath

N(t, l, i) == [type |-> t, len |-> l, id |-> i]

MCNals == { N("vps", 3, 1), N("pps", 3, 1), N("pps", 3, 2), N("pps", 9, 3),
            N("idr", 4, 0), N("idr", 22, 0), N("trail", 3, 0), N("trail", 9, 0),
            N("trail", 22, 0) }
============================================================================
