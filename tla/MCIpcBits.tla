----------------------------- MODULE MCIpcBits -----------------------------
(* Small instances of IpcBits.                                              *)
EXTENDS IpcBits

CONSTANTS b1, b2, e1, e2

(* Polling, as the use cases configure the links; with notify, as           *)
(* multich_encode_decode.c does: two buffers, or one, a lost command and    *)
(* restarts.                                                                *)
Poll == [noNotifyMode |-> TRUE, bufs |-> {b1, b2}, maxDrops |-> 1, restarts |-> TRUE]
Notify == [noNotifyMode |-> FALSE, bufs |-> {b1, b2}, maxDrops |-> 0, restarts |-> FALSE]
Lossy == [Notify EXCEPT !.bufs = {b1}, !.maxDrops = 1, !.restarts = TRUE]

MCConfigs == {Poll, Notify, Lossy}
=============================================================================
