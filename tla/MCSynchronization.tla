------------------------- MODULE MCSynchronization --------------------------
(***************************************************************************)
(* Two peers, for model checking:                                          *)
(*                                                                         *)
(*   g --- a1 --- a2               p1 will have a2                         *)
(*   |             \---- b3        p2 will have b1 and may switch to b3    *)
(*   |---- b1                                                              *)
(*   \---- m1                      mined by this node                      *)
(***************************************************************************)
EXTENDS Synchronization, TLC

CONSTANTS g, a1, a2, b1, b3, m1, p1, p2

MCBranch ==
    g :> <<g>> @@ a1 :> <<g, a1>> @@ a2 :> <<g, a1, a2>>
    @@ b1 :> <<g, b1>> @@ b3 :> <<g, a1, a2, b3>> @@ m1 :> <<g, m1>>
MCPeerTop == p1 :> a2 @@ p2 :> b1
MCSwitchTop == p1 :> a2 @@ p2 :> b3
=============================================================================
