---------------------------- MODULE MCWsnStreams ----------------------------
(* Instances of WsnStreams for TLC: seed 0 is refused; the animation       *)
(* creates at least the two coordinates of the allocator and its own.      *)
EXTENDS WsnStreams

MCSeeds == {0, 1, 2}
MCAnimStreams == {3, 5}

=============================================================================
