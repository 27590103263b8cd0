----------------------------- MODULE MCDupLink -----------------------------
(* Small instances of DupLink.                                              *)
EXTENDS DupLink, TLC

CONSTANTS f1, f2, f3

(* No delayed output: consumers give lists back while the link processes.   *)
Plain == [numOutQue |-> 2, delayCmds |-> {}, maxReturn |-> 2, preempts |-> TRUE]

(* Output 0 waits for output 1, or for all others, as in                    *)
(* multich_tristream_fullfeature.c:1451; the second command is refused, and *)
(* so is one that comes after a frame.                                      *)
SyncDelay == [out |-> 0, sync |-> 1]
LastDelay == [out |-> 0, sync |-> NoQue]
TwoCmds == [numOutQue |-> 2, delayCmds |-> {SyncDelay, LastDelay}, maxReturn |-> 2, preempts |-> FALSE]
Delayed == [numOutQue |-> 3, delayCmds |-> {LastDelay}, maxReturn |-> 2, preempts |-> FALSE]

MCConfigs == {Plain, TwoCmds, Delayed}

(* The link's task preempts a consumer that outputs a delayed frame.        *)
Preempted == {[numOutQue |-> 2, delayCmds |-> {SyncDelay}, maxReturn |-> 1, preempts |-> TRUE]}
=============================================================================
