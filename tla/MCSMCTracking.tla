---------------------------- MODULE MCSMCTracking ----------------------------
(* Two pages: block b1 lies on p1, block b2 on both.                        *)
EXTENDS SMCTracking

CONSTANTS p1, p2, w1, w2, w3, b1, b2

MCPageOf == [w \in {w1, w2, w3} |-> IF w = w3 THEN p2 ELSE p1]
MCExtent == [b \in {b1, b2} |-> IF b = b1 THEN {w1} ELSE {w2, w3}]

(* One page, one block of one word.                                        *)
MCPageOf1 == [w \in {w1} |-> p1]
MCExtent1 == [b \in {b1} |-> {w1}]
=============================================================================
