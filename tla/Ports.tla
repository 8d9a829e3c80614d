-------------------------------- MODULE Ports --------------------------------
(***************************************************************************)
(* The ports of the host and who sends to them, for both providers.  The   *)
(* address and port of a sender are one value, a remote; the host has one  *)
(* address.                                                                *)
(***************************************************************************)
EXTENDS Integers

CONSTANTS
    Remotes,        \* who sends to this host
    Nobody,         \* a remote that never sends
    UnsetRemotes,   \* what a fresh socket's remote may hold
    ListenPorts,    \* ports the application listens on
    FirstPort,      \* the first freePort (1024)
    PortSpace       \* ports there are (65536)

AllPorts == 0 .. PortSpace - 1

ASSUME PortsAssumption ==
    /\ Nobody \notin Remotes
    /\ UnsetRemotes \subseteq Remotes \cup {Nobody}
    /\ PortSpace \in Nat \ {0}
    /\ FirstPort \in AllPorts /\ ListenPorts \subseteq AllPorts

(* freePort++, of 16 bits.                                                 *)
PortAfter(port) == (port + 1) % PortSpace
=============================================================================
