-------------------------- MODULE MCNetworkControl --------------------------
(* Instances of NetworkControl for TLC.  VPC IDs are numbers, for their    *)
(* order; subnet IDs are numbers above 10.                                 *)
EXTENDS NetworkControl, TLC

(* Two subnets of VPC 1 that ask for the same block, one after the other.  *)
OneVPCOf == 11 :> 1 @@ 12 :> 1
OneBlock == 11 :> "a" @@ 12 :> "a"

(* One subnet, of VPC 1.                                                   *)
SingleVPCOf == 11 :> 1
SingleBlock == 11 :> "a"

=============================================================================
