-------------------------- MODULE MCGenerationWorker --------------------------
(* Instances of GenerationWorker for TLC.                                  *)
EXTENDS GenerationWorker

ImageAndVideo == {"img", "vid"}
OneVideo == {"vid"}
KeyLane == [k \in Key |-> IF k = "img" THEN "image" ELSE "video"]

AllLanes(n) == [q \in Provider |-> [lane \in WorkLane |-> n]]
One == AllLanes(1)
Two == AllLanes(2)
OneOnly == {One}
(* The settings may come to hold a table without a video lane (a custom    *)
(* provider whose last video model is switched off).                       *)
NoVideo == [q \in Provider |-> [lane \in WorkLane |-> IF lane = "video" THEN 0 ELSE 1]]
VideoOrNot == {One, NoVideo}
=============================================================================
