-------------------------------- MODULE MCSse --------------------------------
(* A small instance of Sse.                                                   *)
EXTENDS Sse, TLC

CONSTANTS s1, s2

Of(heartbeat, timeout, idle, done, cap) ==
  [heartbeat |-> heartbeat, timeout |-> timeout, idle |-> idle, done |-> done, cap |-> cap]

SseConfigs == {Of(1, 0, 2, FALSE, 1), Of(2, 3, 0, TRUE, 1), Of(0, 2, 2, TRUE, NoCap)}

Symmetry == Permutations(Stream)
=============================================================================
