---------------------------- MODULE MCZoneSync ----------------------------
(* A zone and its secondary, for TLC: an update that adds a record and     *)
(* takes it back, and one that adds it for good.                           *)
EXTENDS ZoneSync, TLC

Msg(ops, t) == [pre |-> {}, ops |-> ops, time |-> t]
Add(r) == [do |-> "add", rec |-> r]
Del(r) == [do |-> "del", rec |-> r]
MCOrder == <<"ns", "r1", "r2">>
MCMessages == ("a" :> Msg(<<Add("r1"), Del("r1"), Add("r2")>>, 0)) @@ ("b" :> Msg(<<Add("r1")>>, 1))
=============================================================================
