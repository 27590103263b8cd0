----------------------------- MODULE MCIpcMsgQ -----------------------------
(* Small instances of IpcMsgQ: the three cores as the use cases use them.   *)
EXTENDS IpcMsgQ, TLC

CONSTANTS vpss, video, h1, h2, camera, m1, m2, m3,
          create, control, tiler, event

R(to, key, wait, timed) == [to |-> to, key |-> key, wait |-> wait, timed |-> timed]

MCHome == (h1 :> Host @@ h2 :> Host @@ camera :> vpss)

(* The host creates links on the video core, whose handlers ask VPSS for    *)
(* tiler memory, and controls links on VPSS, whose handlers may ask the     *)
(* video core for the info of a link; the camera task sends commands to     *)
(* the video core without waiting.                                          *)
UseCase ==
    (h1 :> {R(video, create, TRUE, FALSE)}
     @@ h2 :> {R(vpss, control, TRUE, FALSE), R(video, create, TRUE, FALSE)}
     @@ camera :> {R(video, event, FALSE, FALSE)})
MCNested ==
    (create :> {R(vpss, tiler, TRUE, FALSE)} @@ control :> {R(video, event, TRUE, FALSE)}
     @@ tiler :> {} @@ event :> {})

(* The same, but the calls of one host thread may time out and any message  *)
(* may be refused.                                                          *)
FaultyCalls ==
    (h1 :> {R(video, create, TRUE, TRUE)} @@ h2 :> {R(vpss, control, TRUE, FALSE)}
     @@ camera :> {R(video, event, FALSE, FALSE), R(Host, event, FALSE, FALSE)})

(* All requests are acknowledged, and two messages are enough.              *)
Acknowledged ==
    (h1 :> {R(video, create, TRUE, FALSE)} @@ h2 :> {R(video, create, TRUE, FALSE)} @@ camera :> {})

(* Two different requests of one thread may time out.                       *)
TimedCalls ==
    (h1 :> {R(video, create, TRUE, TRUE), R(video, control, TRUE, TRUE)} @@ h2 :> {} @@ camera :> {})

MCConfigs == {[calls |-> UseCase, mayFail |-> FALSE], [calls |-> Acknowledged, mayFail |-> FALSE],
              [calls |-> FaultyCalls, mayFail |-> TRUE],
              [calls |-> TimedCalls, mayFail |-> FALSE]}

(* One host thread, which also makes calls that may time out.               *)
OneHome == (h1 :> Host)
OneCalls == (h1 :> {R(video, create, TRUE, TRUE), R(video, control, TRUE, FALSE)})
OneConfig == {[calls |-> OneCalls, mayFail |-> FALSE]}
NoNested == [k \in Keys |-> {}]
=============================================================================
