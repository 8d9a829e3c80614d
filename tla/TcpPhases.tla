------------------------------ MODULE TcpPhases ------------------------------
(***************************************************************************)
(* What the life of a socket looks like to its application: it listens or  *)
(* calls, an opening is under way, the connection is open, it is being     *)
(* closed, it is closed.  Only an opening leads to an open connection, an  *)
(* open connection never goes back to its opening, and a closed socket     *)
(* stays closed, except that a listening one listens again when the peer   *)
(* resets.  The application may Disconnect in any phase (tcp.cpp 607).     *)
(***************************************************************************)
VARIABLES phase, passive

vars == <<phase, passive>>

Phases == {"idle", "listening", "opening", "open", "closing", "closed"}

Init == phase = "idle" /\ passive = FALSE

Start ==
    /\ phase = "idle"
    /\ \/ phase' = "opening" /\ passive' = FALSE
       \/ phase' = "listening" /\ passive' = TRUE

Go(from, to) == phase \in from /\ phase' = to /\ UNCHANGED passive

Alive == Phases \ {"idle", "closed"}

Next ==
    \/ Start
    \/ Go({"listening"}, "opening")
    \/ Go({"opening"}, "open")
    \/ Go({"open"}, "closing")
    \/ Go(Alive, "closed")
    \/ passive /\ Go(Alive \cup {"closed"}, "listening")
    \/ Go(Alive \cup {"closed"}, "closing")      \* Disconnect

Spec == Init /\ [][Next]_vars
=============================================================================
