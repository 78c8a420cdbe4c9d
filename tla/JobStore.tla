------------------------------ MODULE JobStore ------------------------------
(***************************************************************************)
(* The job store of server.py: the state directory (INPUTS, DONE, OUTPUTS, *)
(* CANCEL, STATUS/inflight.json) and what each HTTP handler does to it, as *)
(* an operator from directory to directory.  JobSystem runs a handler as   *)
(* one step, at the granularity of requests; JobServer runs the same       *)
(* handlers one file-system call at a time.                                *)
(*                                                                         *)
(* A plan's bytes are its digest.  The n-th accepted submission of a       *)
(* digest is told apart by n, which its files carry along; n = 0 stands    *)
(* for "no such file".                                                     *)
(***************************************************************************)
EXTENDS Integers, FiniteSets

CONSTANTS
    Digests,     \* plan digests (sha256 of the submitted tar)
    MaxSubs,     \* bound: accepted submissions of one digest
    MaxQueued,   \* MAX_QUEUED_PLANS
    None

ASSUME StoreAssumption ==
    /\ MaxSubs \in Nat \ {0}
    /\ MaxQueued \in Nat \ {0}
    /\ None \notin Digests

Sub0 == 0 .. MaxSubs
Subs == 1 .. MaxSubs
Runs == Digests \X Subs      \* one accepted submission of one digest

\* A plan file: whose submission it is, and whether its mtime is older than
\* PRUNE_MIN_AGE_S.  os.rename moves the file and keeps its mtime.
PlanFile == [n : Sub0, old : BOOLEAN]
NoFile   == [n |-> 0, old |-> FALSE]

\* An artefact tar: the run it reports on and its manifest status.
Artefact == [d : Digests, n : Subs, st : {"ran", "canceled", "failed"}]
NoArt    == [d |-> None, n |-> 0, st |-> "none"]

\* A cancel marker; expired means older than the 90 minutes of _pull_cancels.
Marker == {"none", "set", "expired"}

Directory == [inputs : [Digests -> PlanFile], done : [Digests -> PlanFile],
              outputs : [Digests -> Artefact \cup {NoArt}],
              cancel : [Digests -> Marker],
              inflight : SUBSET Digests, stale : BOOLEAN]

EmptyDirectory ==
    [inputs |-> [d \in Digests |-> NoFile], done |-> [d \in Digests |-> NoFile],
     outputs |-> [d \in Digests |-> NoArt], cancel |-> [d \in Digests |-> "none"],
     inflight |-> {}, stale |-> FALSE]

-----------------------------------------------------------------------------
(* What the handlers test *)

Queued(f, d)    == f.inputs[d].n # 0
PickedUp(f, d)  == f.done[d].n # 0
HasOutput(f, d) == f.outputs[d] # NoArt

\* _inflight_digests: the pushed snapshot, void once INFLIGHT_STALE_S old.
InflightDigests(f) == IF f.stale THEN {} ELSE f.inflight

QueuedPlanCount(f) == Cardinality({d \in Digests : Queued(f, d)})

\* Why queue_job refuses.
QueueFull(f)    == QueuedPlanCount(f) >= MaxQueued
\* Mutant: only the snapshot tells what is mid-flight.
BugMidFlight(f, d) == d \in InflightDigests(f)
MidFlight(f, d) == PickedUp(f, d) \/ d \in InflightDigests(f)
Refuses(f, d)   == \/ QueueFull(f)
                   \/ HasOutput(f, d)
                   \/ Queued(f, d)
                   \/ MidFlight(f, d)

\* _cancel_job resolves such a record at once, prune_stale_jobs removes it.
Fresh(f, d)        == ~f.done[d].old
StaleRunning(f, d) == d \notin InflightDigests(f) /\ ~Fresh(f, d)

\* The idempotency gate of _artefact.
PlanPresent(f, d) == \/ PickedUp(f, d)
                     \/ Queued(f, d)
                     \/ d \in InflightDigests(f)

\* GET /jobs shows the row as "running".
Running(f, d) == PickedUp(f, d) /\ ~Queued(f, d) /\ ~HasOutput(f, d)

-----------------------------------------------------------------------------
(* What the handlers do *)

\* queue_job of submission n, when Refuses is false: write the plan, drop a
\* cancel marker left over from an earlier life of the digest.
QueueJob(f, d, n) ==
    [f EXCEPT !.inputs[d] = [n |-> n, old |-> FALSE], !.cancel[d] = "none"]

\* The DONE record and the marker go (_cancel_job, _resolve_stale_cancel).
DropRecord(f, d) == [f EXCEPT !.done[d] = NoFile, !.cancel[d] = "none"]

\* _cancel_job: unlink a queued plan, else resolve a stale record, else leave
\* a marker, else 404.
CancelJob(f, d) ==
    CASE Queued(f, d) -> [f EXCEPT !.inputs[d] = NoFile]
      [] ~Queued(f, d) /\ PickedUp(f, d) /\ StaleRunning(f, d) -> DropRecord(f, d)
      [] ~Queued(f, d) /\ PickedUp(f, d) /\ ~StaleRunning(f, d) ->
           [f EXCEPT !.cancel[d] = "set"]
      [] OTHER -> f

\* The marker is set and the answer is cancel_signaled.
SignalsCancel(f, d) == ~Queued(f, d) /\ PickedUp(f, d) /\ ~StaleRunning(f, d)

\* _resolve_stale_cancel: the poller has no session for this marker.
Orphaned(f, d) == f.cancel[d] # "none" /\ d \notin InflightDigests(f)
ResolveStaleCancel(f, d) ==
    CASE f.cancel[d] = "none" \/ d \in InflightDigests(f) -> f
      [] Orphaned(f, d) /\ HasOutput(f, d) -> [f EXCEPT !.cancel[d] = "none"]
      [] Orphaned(f, d) /\ ~HasOutput(f, d) -> DropRecord(f, d)

\* _pull_cancels: the digests it answers with, and the markers it drops.
LiveMarkers(f) == {d \in Digests : f.cancel[d] = "set"}
PullCancels(f) == [f EXCEPT !.cancel = [d \in Digests |->
                      IF @[d] = "expired" THEN "none" ELSE @[d]]]

\* Mutant: the record goes although no artefact did.
BugDeleteOutputs(f, d, wholeJob) ==
    [f EXCEPT !.outputs[d] = NoArt, !.done[d] = IF wholeJob THEN NoFile ELSE @]

\* delete_outputs; the record goes only if an artefact went, and only when
\* the request named no extension.
DeleteOutputs(f, d, wholeJob) ==
    [f EXCEPT !.outputs[d] = NoArt,
              !.done[d] = IF wholeJob /\ HasOutput(f, d) THEN NoFile ELSE @]

\* prune_stale_jobs removes every record it takes for a leftover.
Prunable(f, d) == PickedUp(f, d) /\ ~HasOutput(f, d) /\ StaleRunning(f, d)
Prune(f) == [f EXCEPT !.done = [d \in Digests |->
                                  IF Prunable(f, d) THEN NoFile ELSE @[d]]]

\* _wipe_all_jobs leaves only the status snapshot.
Wipe(f) == [EmptyDirectory EXCEPT !.inflight = f.inflight, !.stale = f.stale]

\* Mutant: the claim copies the plan.
BugClaim(f, d) == [f EXCEPT !.done[d] = f.inputs[d]]

\* Mutant: the rollback only unlinks.
BugRollback(f, d) == [f EXCEPT !.done[d] = NoFile]

\* _pickup claims by renaming INPUTS -> DONE; _rollback_pickup renames back.
Claim(f, d)    == [f EXCEPT !.done[d] = f.inputs[d], !.inputs[d] = NoFile]
Rollback(f, d) == IF PickedUp(f, d)
                    THEN [f EXCEPT !.inputs[d] = f.done[d], !.done[d] = NoFile]
                    ELSE f

\* _artefact behind its gate: publish the tar, drop the marker.
StoreArtefact(f, a) ==
    [f EXCEPT !.outputs[a.d] = a, !.cancel[a.d] = "none"]

\* Mutant: the snapshot is appended to the last one.
BugReceiveInflight(f, snapshot) ==
    [f EXCEPT !.inflight = @ \cup {snapshot}, !.stale = FALSE]

\* _receive_status for inflight.json: the last writer wins.
ReceiveInflight(f, snapshot) == [f EXCEPT !.inflight = snapshot, !.stale = FALSE]
=============================================================================
