---------------------------- MODULE MCOnceClaims ----------------------------
(***************************************************************************)
(* Instances of OnceClaims.                                                *)
(*                                                                         *)
(* Opposite: two runs nest the keys ka and kb in opposite orders.          *)
(*   x1(ka){ x2(kb) }   y1(kb){ y2(ka) }                                   *)
(* Branches: one run whose outer block has two concurrent inner blocks,    *)
(* beside a run that nests the other way, fails at once when its outer key *)
(* is busy, and names that key again inside.  The writes of one of the two *)
(* siblings on either side may fail.                                       *)
(*   x1(ka){ x2(kb) || x3(kb) }   y1(kb){ y2(ka){ y3(kb) } || y4(ka) }     *)
(* Chain: three runs over three keys, for walks longer than one edge.      *)
(*   x1(ka){ x2(kb) }   y1(kb){ y2(kc) }   z1(kc){ z2(ka) }                *)
(***************************************************************************)
EXTENDS OnceClaims, TLC

CONSTANTS x1, x2, x3, y1, y2, y3, y4, z1, z2, ka, kb, kc

OppositeBlocks == {x1, x2, y1, y2}
OppositeKeyOf == x1 :> ka @@ x2 :> kb @@ y1 :> kb @@ y2 :> ka
OppositeParentOf == x1 :> TopLevel @@ x2 :> x1 @@ y1 :> TopLevel @@ y2 :> y1

BranchBlocks == {x1, x2, x3, y1, y2, y3, y4}
BranchKeyOf == x1 :> ka @@ x2 :> kb @@ x3 :> kb @@ y1 :> kb @@ y2 :> ka @@ y3 :> kb
  @@ y4 :> ka
BranchParentOf ==
  x1 :> TopLevel @@ x2 :> x1 @@ x3 :> x1 @@ y1 :> TopLevel @@ y2 :> y1 @@ y3 :> y2
  @@ y4 :> y1
BranchWaiters == BranchBlocks \ {y1}

ChainBlocks == {x1, x2, y1, y2, z1, z2}
ChainKeyOf == x1 :> ka @@ x2 :> kb @@ y1 :> kb @@ y2 :> kc @@ z1 :> kc @@ z2 :> ka
ChainParentOf ==
  x1 :> TopLevel @@ x2 :> x1 @@ y1 :> TopLevel @@ y2 :> y1 @@ z1 :> TopLevel @@ z2 :> z1

TwoKeys == {ka, kb}
ThreeKeys == {ka, kb, kc}
=============================================================================
