-------------------------- MODULE MCEphemeralPorts --------------------------
(* allocate_ephemeral_port on an address space of eight ports.               *)
EXTENDS EphemeralPorts

CONSTANTS t1, t2
=============================================================================
