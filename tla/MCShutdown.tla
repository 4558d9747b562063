----------------------------- MODULE MCShutdown -----------------------------
(***************************************************************************)
(* Instances of Shutdown.                                                   *)
(***************************************************************************)
EXTENDS Shutdown

CONSTANTS r1, r2, r3

MCRequests == {r1, r2, r3}

\* The requests R, the clients L that may leave and D that may be slow; with
\* upstream failures and background work or without; and the other callers S of Service.Stop.
Scenario(R, L, D, background, S) ==
    [requests |-> R, leavers |-> L, slow |-> D, fails |-> background,
     cacheable |-> background, warms |-> background, stoppers |-> S]

\* Three requests, for a broadcast replaced on the map and then taken off it by
\* its predecessor; two, one of which leaves the other; two, with everything they
\* leave behind; and one, with the service stopped under it.
MCScenarios ==
    {Scenario({r1, r2, r3}, {}, {}, FALSE, {}),
     Scenario({r1, r2}, {r1}, {r2}, FALSE, {}),
     Scenario({r1, r2}, {}, {r2}, TRUE, {}),
     Scenario({r1}, {r1}, {r1}, TRUE, {"other"})}
=============================================================================
