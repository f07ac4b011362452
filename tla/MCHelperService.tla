-------------------------- MODULE MCHelperService --------------------------
(* Two operations, of one run as the items of a run are or of two, and a      *)
(* remover, or one operation and two removers: two starts of the service, one *)
(* note of a cancellation to come.                                            *)
EXTENDS HelperService, TLC

CONSTANTS c1, c2, i1, i2, m1, m2

TwoConns    == {c1, c2}
TwoRemovers == {m1, m2}
SameRun   == (c1 :> i1) @@ (c2 :> i1)
OtherRun  == (c1 :> i1) @@ (c2 :> i2)
EveryPair == {SameRun, OtherRun}

(* A second operation or a second remover, not both. *)
ThreeAtMost == client[c2] = "idle" \/ remover[m2] = "idle"

MCSpec ==
  HelperInit /\ [][HelperNext /\ ThreeAtMost']_<<vars, RunOf>> /\ HelperFairness
============================================================================
