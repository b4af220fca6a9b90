--------------------------- MODULE MCSyncTransfer ---------------------------
(* Instances of SyncTransfer for TLC. *)
EXTENDS SyncTransfer, TLC

(* One endpoint number in both directions, the IN endpoint first; and the *)
(* same without the OUT endpoint.                                         *)
PairLayouts == {<<129, 1>>, <<129>>}

(* The user frees a copy before the next call. *)
CopiesAreShortLived == todo # <<>> => copy = NoError
=============================================================================
