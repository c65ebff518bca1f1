----------------------------- MODULE MCSession -----------------------------
(* Session on schedules of two patients and a sales representative at      *)
(* least, and a fourth visitor: before and after 9, at one time and at the *)
(* very time a visit ends, in every order in the file.                     *)
EXTENDS Session

Arrival(k, t, d) == [type |-> k, time |-> t, duration |-> d]

Arrivals ==
    {Arrival("P", -1, 2), Arrival("P", 1, 1),
     Arrival("S", -1, 1), Arrival("S", 2, 1),
     Arrival("R", 1, 1), Arrival("R", 4, 1)}

SmallQuota == [P |-> 2, S |-> 1]

SmallFiles ==
    {f \in [1..4 -> Arrivals] : \A k \in Limited : Count(f, k) >= SmallQuota[k]}
=============================================================================
