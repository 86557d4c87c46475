----------------------------- MODULE MCCtrAcpkm -----------------------------
(* CtrAcpkm with 2-byte blocks, a 4-value counter that starts next to its   *)
(* wrap-around, and batches of 2 to 3 blocks.                               *)
EXTENDS CtrAcpkm

\* Rejected (negative, not a multiple of the block), plain, shorter than the
\* smallest batch, between the bounds, longer than the largest batch.
MCSections == {-2, 0, 2, 3, 6, 10}
MCCallLens == 0..13
=============================================================================
