---------------------------- MODULE MCPublisher ----------------------------
(* Publisher for TLC: the bounds are in the publish_*.cfg files.           *)
EXTENDS Publisher
=============================================================================
