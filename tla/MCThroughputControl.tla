------------------------ MODULE MCThroughputControl ------------------------
(* One stream each way or two, over TCP and UDP, and a test that is none. *)
EXTENDS ThroughputControl

TestSpecs ==
  {[protocol |-> "tcp", direction |-> "rx", streams |-> 2],
   [protocol |-> "tcp", direction |-> "bidir", streams |-> 1],
   [protocol |-> "udp", direction |-> "bidir", streams |-> 1],
   [protocol |-> "tcp", direction |-> "tx", streams |-> 1],
   [protocol |-> "both", direction |-> "tx", streams |-> 1]}
============================================================================
