------------------------ MODULE MCDeferredSignals ------------------------
(* Instances of DeferredSignals.                                           *)
EXTENDS DeferredSignals

CONSTANTS alrm, usr

(* The handler of alrm blocks every signal.                                *)
AlrmBlocksAll == [s \in Signals |-> IF s = alrm THEN Signals ELSE {}]
============================================================================
