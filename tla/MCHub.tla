--------------------------------- MODULE MCHub ---------------------------------
(* A small instance of Hub: a place that creates a room, one that drops its    *)
(* last handle, one that holds a receiver.                                    *)
EXTENDS Hub

CONSTANTS s1, s2, s3, r1, r2, ch1, ch2, ch3

ThreeSlots == {s1, s2, s3}
TwoRooms   == {r1, r2}
ThreeChans == {ch1, ch2, ch3}
=============================================================================
