---------------------------- MODULE MCMergeLink ----------------------------
(* Small instances of MergeLink.                                            *)
EXTENDS MergeLink, TLC

CONSTANTS capture, scaler, file, inner, outer, f1, f2, f3, t1, t2

(* The merge of two links feeds another merge, after a third link.          *)
MCInQue == (inner :> <<scaler, capture>> @@ outer :> <<file, inner>>)
MCChannels == (capture :> 2 @@ scaler :> 1 @@ file :> 1)
MCSourceOf == (f1 :> capture @@ f2 :> scaler @@ f3 :> file)
MCChannelOf == (f1 :> 0 @@ f2 :> 0 @@ f3 :> 0)

Symmetry == Permutations(Tasks)
=============================================================================
