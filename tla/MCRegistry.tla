----------------------------- MODULE MCRegistry -----------------------------
(***************************************************************************)
(* The instance of Registry for TLC.  Keys and servers share no state, so  *)
(* a behaviour takes steps of one half: their interleavings show nothing.  *)
(***************************************************************************)
EXTENDS Registry

CONSTANTS k1, k2, r1, r2, r3, r4, n1, n2, n3

VARIABLE half

MCKeyOf == [r \in Requests |-> IF r = r4 THEN k2 ELSE k1]

MCVars == <<vars, half>>
MCInit == Init /\ half \in {"keys", "servers"}
MCNext ==
    /\ \/ half = "keys" /\ KeyNext
       \/ half = "servers" /\ ServerNext
    /\ UNCHANGED half

MCSpec == MCInit /\ [][MCNext]_MCVars /\ Fairness

\* The keys of Redis alone.
RedisSpec == MCInit /\ backend = "redis" /\ half = "keys" /\ [][MCNext]_MCVars
=============================================================================
