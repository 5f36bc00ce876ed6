---------------------------- MODULE MCRingBuffer ----------------------------
(* Instances of RingBuffer for TLC: see the cfg files for the bounds. *)
EXTENDS RingBuffer, TLC

CONSTANTS PushCalls, PopCalls    \* calls per producer, calls per consumer

MCCalls == [t \in Producers \cup Consumers |->
              IF t \in Producers THEN PushCalls ELSE PopCalls]
=============================================================================
