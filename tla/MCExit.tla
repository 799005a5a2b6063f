-------------------------------- MODULE MCExit --------------------------------
(* `coin exit` of an owner or a former owner, with two policies and either  *)
(* backend.                                                                *)
EXTENDS Exit

CONSTANTS home, away, slow, fast

MCDestination == {home, away}
MCRate == {slow, fast}

(* A Core without any index; one that keeps the funding transaction in its  *)
(* own wallet and knows neither recovery nor child.                        *)
MCSetting ==
  { [owner |-> TRUE,  core |-> FALSE, hidden |-> {}],
    [owner |-> FALSE, core |-> FALSE, hidden |-> {}],
    [owner |-> TRUE,  core |-> TRUE,  hidden |-> {"funding", "recovery", "child"}],
    [owner |-> FALSE, core |-> TRUE,  hidden |-> {"recovery", "child"}] }
=============================================================================
