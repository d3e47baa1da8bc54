-------------------------------- MODULE MCTrp --------------------------------
(* Instances of Trp for TLC: how many segments each endpoint may send. *)
EXTENDS Trp, TLC

OneWay3 == A :> 3 @@ B :> 0
OneWay4 == A :> 4 @@ B :> 0
ThreeAndOne == A :> 3 @@ B :> 1
ThreeAndTwo == A :> 3 @@ B :> 2

==============================================================================
