---------------------------- MODULE MCMediaSource ----------------------------
(* Instances of MediaSource: who may play how often.                        *)
EXTENDS MediaSource, TLC

CONSTANTS s1, s2, s3, n1, n2

\* One session that does not publish plays; or a publisher does.
OnePlayer == [s \in Sessions |-> IF s = s3 THEN 1 ELSE 0]
LatePlay == [s \in Sessions |-> IF s = s2 THEN 1 ELSE 0]
==============================================================================
