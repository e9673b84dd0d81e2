---------------------------- MODULE MCSubscriber ----------------------------
(* Instances of Subscriber for TLC: the bounds are set in the .cfg files. *)
EXTENDS Subscriber
=============================================================================
