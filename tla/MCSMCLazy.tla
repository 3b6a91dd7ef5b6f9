------------------------------ MODULE MCSMCLazy ------------------------------
(* Memory layouts for the model checker.                                   *)
EXTENDS SMCLazy

CONSTANTS p1, p2, w1, w2, b1, b2

ASSUME LazyModeAssumption == LazyAssumption

(* One page, one block of one word.                                        *)
MCPageOf1 == [w \in {w1} |-> p1]
MCExtent1 == [b \in {b1} |-> {w1}]

(* Two pages, a block on each.                                             *)
MCPageOf2 == [w \in {w1, w2} |-> IF w = w1 THEN p1 ELSE p2]
MCExtent2 == [b \in {b1, b2} |-> IF b = b1 THEN {w1} ELSE {w2}]
=============================================================================
