------------------------------ MODULE MCIpcM3 ------------------------------
(* Small instances of IpcM3.                                                *)
EXTENDS IpcM3, TLC

CONSTANTS f1, f2, e1, e2

(* With notify, as the use cases configure the links, or without.           *)
Notify == [notifyNextLink |-> TRUE, notifyPrevLink |-> TRUE, noNotifyMode |-> FALSE,
           inFirst |-> FALSE, elems |-> {e1}, maxDrops |-> 1]
Poll == [Notify EXCEPT !.notifyNextLink = FALSE, !.notifyPrevLink = FALSE, !.noNotifyMode = TRUE]

(* Fewer elements than frames and a lost command, Out deleted first; or as  *)
(* many elements as frames, or no loss, and In deleted first.               *)
MCCreateArgs ==
    {Notify, [Notify EXCEPT !.inFirst = TRUE, !.maxDrops = 0],
     [Poll EXCEPT !.inFirst = TRUE, !.elems = {e1, e2}]}
=============================================================================
