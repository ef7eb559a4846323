-------------------------------- MODULE MCChain --------------------------------
(***************************************************************************)
(* ChainDatabase on small trees of blocks.  A block's name is its branch   *)
(* and its height; x3 and x4 never validate.                               *)
(***************************************************************************)
EXTENDS ChainProperties, TLC

CONSTANTS a1, a2, a3, b1, b2, b3, b4, x3, x4, t1, t2, t3

\* Two branches from a1, a rival first block, a branch with an unsound block.
ForkBlocks == {a1, a2, a3, b1, b2, b3, b4, x3, x4}
ForkPrev == a1 :> Genesis @@ a2 :> a1 @@ a3 :> a2
         @@ b1 :> Genesis @@ b2 :> a1 @@ b3 :> b2 @@ b4 :> b3
         @@ x3 :> b2 @@ x4 :> x3
ForkTrxs == a1 :> <<>> @@ a2 :> <<t1>> @@ a3 :> <<>>
         @@ b1 :> <<>> @@ b2 :> <<t2>> @@ b3 :> <<t1>> @@ b4 :> <<t1>>
         @@ x3 :> <<>> @@ x4 :> <<>>

\* One branch, with an unsound block beside its end and one beyond it.
LineBlocks == {a1, a2, a3, x3, x4}
LinePrev == a1 :> Genesis @@ a2 :> a1 @@ a3 :> a2 @@ x3 :> a2 @@ x4 :> a3
LineTrxs == a1 :> <<>> @@ a2 :> <<t1>> @@ a3 :> <<t2>> @@ x3 :> <<>> @@ x4 :> <<>>

\* t2 and t3 spend the same funds.
TxConflicts == {<<t2, t3>>, <<t3, t2>>}
=============================================================================
