------------------------------ MODULE MCParts -------------------------------
(***************************************************************************)
(* Three components that share no state, checked in one run: the request   *)
(* parser, the probe arguments and the start of a sandboxed process.  In a *)
(* behaviour one of them moves and the others rest in one initial state,   *)
(* so the run explores the sum of their states and not the product.        *)
(***************************************************************************)
EXTENDS MCHttpRequest, MCProbes, MCSandbox

VARIABLE part

HttpRests == request = (CHOOSE r \in Requests : TRUE) /\ HttpInit
ProbeRests == tool = (CHOOSE t \in Tools : TRUE) /\ calls = <<>>
BoxRests ==
  /\ platform = "other" /\ shadowed = FALSE /\ leftovers = FALSE
  /\ declared = {} /\ exists = Places
  /\ BoxInit

PartsInit ==
  \/ part = "http" /\ ProbeRests /\ BoxRests /\ HttpInit
  \/ part = "probes" /\ HttpRests /\ BoxRests /\ ProbeInit
  \/ part = "sandbox" /\ HttpRests /\ ProbeRests /\ BoxInit

PartsNext ==
  /\ UNCHANGED part
  /\ \/ part = "http" /\ HttpNext /\ UNCHANGED <<probeVars, boxVars>>
     \/ part = "probes" /\ Call /\ UNCHANGED <<httpVars, boxVars>>
     \/ part = "sandbox" /\ BoxNext /\ UNCHANGED <<httpVars, probeVars>>

PartsSpec == PartsInit /\ [][PartsNext]_<<part, httpVars, probeVars, boxVars>>
=============================================================================
