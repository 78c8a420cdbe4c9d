----------------------------- MODULE JobLedger ------------------------------
(***************************************************************************)
(* What the server, the poller and their spools promise together about one *)
(* accepted submission: a plan is handed to a worker at most once, only    *)
(* the death of the process that runs it loses a run, and a result that    *)
(* was once on the poller's disk stays there until it is on the server.    *)
(* JobSystem implements this specification.                                *)
(***************************************************************************)
CONSTANT Runs      \* accepted submissions

VARIABLE life      \* where each of them is

Stages == {"none",        \* not submitted yet
           "queued",      \* its plan waits on the server
           "claimed",     \* picked up, as far as the server knows
           "running",     \* in the hands of a worker thread
           "kept",        \* its result is in the poller's spool
           "reported",    \* its result has been on the server
           "withdrawn",   \* canceled, deleted or pruned before it ran
           "lost"}        \* its process died

Move(r, from, to) == life[r] \in from /\ life' = [life EXCEPT ![r] = to]

Submit(r)   == Move(r, {"none"}, "queued")
Claim(r)    == Move(r, {"queued"}, "claimed")
GiveBack(r) == Move(r, {"claimed"}, "queued")
Hand(r)     == Move(r, {"claimed"}, "running")
Finish(r)   == Move(r, {"running"}, "kept")
Report(r)   == Move(r, {"kept"}, "reported")

\* A run no process remembers is given up: its failure is its result.  It may
\* have been deleted since it was found.
GiveUp(r)   == Move(r, {"claimed", "lost", "withdrawn"}, "kept")

\* A plan is canceled or its record goes; a prune and DELETE /output take many.
Withdraw ==
    \E gone \in SUBSET {r \in Runs : life[r] \in {"queued", "claimed"}} :
        life' = [r \in Runs |-> IF r \in gone THEN "withdrawn" ELSE life[r]]

\* The process dies with every run it works on.  The plan that is on its way to
\* it, if any, goes back to the queue, or its record was gone already.
Crash ==
    \E cut \in SUBSET {r \in Runs : life[r] = "claimed"}, to \in {"queued", "withdrawn"} :
        /\ \A p, q \in cut : p = q
        /\ life' = [r \in Runs |-> CASE life[r] = "running" -> "lost"
                                      [] r \in cut -> to
                                      [] OTHER -> life[r]]

Init == life = [r \in Runs |-> "none"]

Next ==
    \/ \E r \in Runs :
         Submit(r) \/ Claim(r) \/ GiveBack(r) \/ Hand(r) \/ Finish(r)
         \/ Report(r) \/ GiveUp(r)
    \/ Withdraw \/ Crash

Spec == Init /\ [][Next]_life
=============================================================================
