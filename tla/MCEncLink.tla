----------------------------- MODULE MCEncLink -----------------------------
(* Small instances of EncLink.                                              *)
EXTENDS EncLink, TLC

CONSTANTS f1, f2, f3, h264, jpeg

MCChannelOf == (f1 :> 0 @@ f2 :> 0 @@ f3 :> 1)

SameCodec == (0 :> h264 @@ 1 :> h264)
TwoCodecs == (0 :> h264 @@ 1 :> jpeg)

(* Frames of one codec and of two sizes, encoded in batches; some are       *)
(* skipped, NEW_DATA may be lost, and the codec may fail.                   *)
Batches == [format |-> SameCodec, numFrames |-> (0 :> 1 @@ 1 :> 1), perPass |-> (0 :> 1 @@ 1 :> 1),
            maxBatch |-> 24, switched |-> {}, skips |-> TRUE, sizes |-> (0 :> {2} @@ 1 :> {1}),
            lost |-> {"newData"}, frames |-> {f1, f3}, fails |-> {h264}]

(* Channels of two codecs; the second one is switched, and LATE_ACK may be  *)
(* lost.  A request of the first one has two fields.                        *)
Switches == [Batches EXCEPT !.format = TwoCodecs, !.numFrames[0] = 2, !.switched = {1},
                            !.skips = FALSE, !.sizes[1] = {2}, !.lost = {"lateAck"},
                            !.frames = Frames, !.fails = {}]

(* Large interlaced frames, a request for each field; the first channel is  *)
(* switched, and both commands may be lost.                                 *)
Fields == [Batches EXCEPT !.perPass = (0 :> 2 @@ 1 :> 2), !.maxBatch = 1, !.switched = {0},
                          !.skips = FALSE, !.sizes[1] = {2}, !.frames = {f1, f2},
                          !.lost = {"newData", "lateAck"}, !.fails = {}]

MCConfigs == {Batches, Switches, Fields}

(* A switch of a channel that is encoded in batches.                        *)
BatchSwitches == {[Batches EXCEPT !.switched = {1}, !.frames = Frames, !.fails = {}]}
=============================================================================
