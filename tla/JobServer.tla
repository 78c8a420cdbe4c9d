----------------------------- MODULE JobServer -----------------------------
(***************************************************************************)
(* The HTTP handlers of server.py as they really run: one thread for each  *)
(* request (_BoundedThreadingServer), no lock but _submit_lock, one step   *)
(* for each call that reads or changes the state directory.  What a        *)
(* handler does when nothing interferes is the operator of the same name   *)
(* in JobStore; here the calls of several handlers interleave.             *)
(*                                                                         *)
(* Beside each plan file lies its .meta file: the headers of the           *)
(* submission (session length, upload timeout), handed out with the plan.  *)
(***************************************************************************)
EXTENDS JobStore

CONSTANTS
    Threads,     \* handler threads at work at a time
    Traffic,     \* the mixes of requests to look at: sets of AllServerOps
    MetaSubs     \* submissions that carry headers, so that a .meta is written

AllServerOps == {"submit", "resubmit", "pickup", "rollback", "cancel", "resolve", "delete",
                 "prune", "artefact", "jobs"}

ASSUME ServerAssumption ==
    /\ None \notin Threads
    /\ Traffic \subseteq SUBSET AllServerOps
    /\ MetaSubs \subseteq Subs

VARIABLES
    fs,      \* the directory, its plan files and markers
    meta,    \* submission number in INPUTS/<d>.plan.meta and in DONE's
    lock,    \* who holds _submit_lock
    thr,     \* the handler threads: where they are and their locals
    poller,  \* its side: runs it executes, runs it has an artefact of
    hist     \* what was answered, for the properties

vars == <<fs, meta, lock, thr, poller, hist>>

\* The requests that arrive in this behaviour.
ServerOps == hist.ops

Idle == [pc |-> "idle", d |-> None, n |-> 0, x |-> 0, rows |-> {}, seen |-> {}]

SubmitPCs   == {"s_outputs", "s_inputs", "s_done", "s_inflight", "s_meta", "s_plan",
                "s_uncancel"}
PickupPCs   == {"g_claim", "g_meta", "g_read", "g_readmeta", "g_write", "g_unmeta",
                "g_unplan"}
CancelPCs   == {"c_plan", "c_meta", "c_done", "c_mtime", "c_inflight", "c_mark",
                "r_cancel", "r_inflight", "r_output", "r_unmark",
                "x_done", "x_meta", "x_cancel"}
DeletePCs   == {"d_outputs", "d_plan", "d_meta"}
PrunePCs    == {"p_outputs", "p_protect", "p_list", "p_stat", "p_plan", "p_meta"}
ArtefactPCs == {"a_done", "a_inputs", "a_inflight", "a_write", "a_uncancel"}
ListPCs     == {"j_inputs", "j_done", "j_outputs"}
PCs == {"idle"} \cup SubmitPCs \cup PickupPCs \cup CancelPCs \cup DeletePCs
       \cup PrunePCs \cup ArtefactPCs \cup ListPCs

\* The latest submission of each digest that some file stands for.
OnRecord == {r \in Runs : /\ r[2] = hist.subs[r[1]]
                          /\ \/ Queued(fs, r[1])
                             \/ PickedUp(fs, r[1])
                             \/ HasOutput(fs, r[1])}

At(t, pc) == thr[t].pc = pc
Me(t)     == thr[t].d

Goto(t, pc)  == thr' = [thr EXCEPT ![t].pc = pc]
Return(t)    == thr' = [thr EXCEPT ![t] = Idle]
Start(t, op, pc, d) ==
    /\ At(t, "idle") /\ op \in ServerOps
    /\ thr' = [thr EXCEPT ![t] = [Idle EXCEPT !.pc = pc, !.d = d]]

Reads    == UNCHANGED <<fs, meta, lock, poller, hist>>
Files    == UNCHANGED <<lock, poller, hist>>

\* Unlink or rename of a file that may be gone already.
Unlink(dir, d)     == fs' = [fs EXCEPT ![dir][d] = NoFile]
UnlinkMeta(dir, d) == meta' = [meta EXCEPT ![dir][d] = 0]

-----------------------------------------------------------------------------
(* POST /submit: queue_job under _submit_lock *)

\* The queue-depth check comes with the lock.  A mix without "resubmit" leaves out
\* one race: queue_job looks at INPUTS before DONE, so a rollback between the two
\* looks lets in a second submission of a plan that is still to run.
SubmitStart(t, d) ==
    /\ lock = None /\ hist.subs[d] < MaxSubs
    /\ hist.subs[d] = 0 \/ "resubmit" \in ServerOps
    /\ ~QueueFull(fs)
    /\ Start(t, "submit", "s_outputs", d)
    /\ lock' = t
    /\ UNCHANGED <<fs, meta, poller, hist>>

\* Refused: 409, lock released.
Refuse(t) == Return(t) /\ lock' = None /\ UNCHANGED <<fs, meta, poller, hist>>

SubmitCheck(t) ==
    \/ /\ At(t, "s_outputs")
       /\ IF HasOutput(fs, Me(t)) THEN Refuse(t) ELSE Goto(t, "s_inputs") /\ Reads
    \/ /\ At(t, "s_inputs")
       /\ IF Queued(fs, Me(t)) THEN Refuse(t) ELSE Goto(t, "s_done") /\ Reads
    \/ /\ At(t, "s_done")
       /\ IF PickedUp(fs, Me(t)) THEN Refuse(t) ELSE Goto(t, "s_inflight") /\ Reads
    \/ /\ At(t, "s_inflight")
       /\ IF Me(t) \in InflightDigests(fs) THEN Refuse(t) ELSE Goto(t, "s_meta") /\ Reads

\* Meta first, so that the plan never shows up with an old one.
SubmitMeta(t) ==
    /\ At(t, "s_meta")
    /\ LET n == hist.subs[Me(t)] + 1 IN
         meta' = [meta EXCEPT !.inputs[Me(t)] = IF n \in MetaSubs THEN n ELSE 0]
    /\ Goto(t, "s_plan")
    /\ UNCHANGED fs /\ Files

SubmitPlan(t) ==
    /\ At(t, "s_plan")
    /\ LET n == hist.subs[Me(t)] + 1 IN
         /\ fs' = [fs EXCEPT !.inputs[Me(t)] = [n |-> n, old |-> FALSE]]
         /\ hist' = [hist EXCEPT !.subs[Me(t)] = n]
    /\ Goto(t, "s_uncancel")
    /\ UNCHANGED <<meta, lock, poller>>

SubmitUncancel(t) ==
    /\ At(t, "s_uncancel")
    /\ fs' = [fs EXCEPT !.cancel[Me(t)] = "none"]
    /\ lock' = None
    /\ Return(t)
    /\ UNCHANGED <<meta, poller, hist>>

-----------------------------------------------------------------------------
(* GET /plan: _pickup and _rollback_pickup *)

\* random.choice over the listing.
PickupStart(t, d) ==
    /\ Queued(fs, d)
    /\ Start(t, "pickup", "g_claim", d)
    /\ Reads

\* os.rename is the gate; on a lost race look again.
PickupClaim(t) ==
    /\ At(t, "g_claim")
    /\ IF Queued(fs, Me(t))
         THEN fs' = Claim(fs, Me(t)) /\ Goto(t, "g_meta")
         ELSE fs' = fs /\ Return(t)
    /\ UNCHANGED meta /\ Files

\* thr.x: the .meta came along (meta_dst is not None).
PickupMeta(t) ==
    /\ At(t, "g_meta")
    /\ IF meta.inputs[Me(t)] # 0
         THEN /\ meta' = [meta EXCEPT !.done[Me(t)] = meta.inputs[Me(t)],
                                      !.inputs[Me(t)] = 0]
              /\ thr' = [thr EXCEPT ![t].pc = "g_read", ![t].x = 1]
         ELSE Goto(t, "g_read") /\ UNCHANGED meta
    /\ UNCHANGED fs /\ Files

\* The file may be gone: the handler dies, the client sees the connection end.
PickupRead(t) ==
    /\ At(t, "g_read")
    /\ IF PickedUp(fs, Me(t))
         THEN thr' = [thr EXCEPT ![t].pc = "g_readmeta", ![t].n = fs.done[Me(t)].n]
         ELSE Return(t)
    /\ Reads

\* rows holds what is sent along: the submission the headers belong to.
PickupReadMeta(t) ==
    /\ At(t, "g_readmeta")
    /\ thr' = [thr EXCEPT ![t].pc = "g_write",
                       ![t].rows = IF thr[t].x = 1 THEN {meta.done[Me(t)]} \ {0} ELSE {}]
    /\ Reads

\* The poller gets the plan and runs it.
PickupDelivered(t) ==
    /\ At(t, "g_write")
    /\ poller' = [poller EXCEPT !.live = @ \cup {<<Me(t), thr[t].n>>}]
    /\ hist' = [hist EXCEPT !.delivered = @ \cup
                  {[d |-> Me(t), n |-> thr[t].n, meta |-> thr[t].rows]}]
    /\ Return(t)
    /\ UNCHANGED <<fs, meta, lock>>

\* Mutant: the rollback forgets the meta.
BugPickupCut(t) ==
    /\ At(t, "g_write") /\ "rollback" \in ServerOps
    /\ Goto(t, "g_unplan")
    /\ Reads

\* The write fails: roll back, meta first.
PickupCut(t) ==
    /\ At(t, "g_write") /\ "rollback" \in ServerOps
    /\ Goto(t, IF thr[t].x = 1 THEN "g_unmeta" ELSE "g_unplan")
    /\ Reads

RollbackMeta(t) ==
    /\ At(t, "g_unmeta")
    /\ meta' = IF meta.done[Me(t)] = 0 THEN meta
               ELSE [meta EXCEPT !.inputs[Me(t)] = meta.done[Me(t)], !.done[Me(t)] = 0]
    /\ Goto(t, "g_unplan")
    /\ UNCHANGED fs /\ Files

RollbackPlan(t) ==
    /\ At(t, "g_unplan")
    /\ fs' = Rollback(fs, Me(t))
    /\ Return(t)
    /\ UNCHANGED meta /\ Files

-----------------------------------------------------------------------------
(* DELETE /jobs/<digest>: _cancel_job *)

CancelStart(t, d) == Start(t, "cancel", "c_plan", d) /\ Reads

\* Only the unlink of the plan drives the canceled_queued answer.
CancelPlan(t) ==
    /\ At(t, "c_plan")
    /\ hist' = [hist EXCEPT !.unqueued = @ \cup
                  {<<e, fs.inputs[e].n>> : e \in {e \in {Me(t)} : Queued(fs, e)}}]
    /\ Unlink("inputs", Me(t))
    /\ thr' = [thr EXCEPT ![t].pc = "c_meta", ![t].n = fs.inputs[Me(t)].n]
    /\ UNCHANGED <<meta, lock, poller>>

\* Mutant: the unlink of a .meta counts as the unlink of its plan.
BugCancelMeta(t) ==
    /\ At(t, "c_meta")
    /\ UnlinkMeta("inputs", Me(t))
    /\ hist' = [hist EXCEPT !.unqueued = @ \cup
                  {<<e, meta.inputs[e]>> : e \in {e \in {Me(t)} : meta.inputs[e] # 0}}]
    /\ IF thr[t].n + meta.inputs[Me(t)] # 0 THEN Return(t) ELSE Goto(t, "c_done")
    /\ UNCHANGED <<fs, lock, poller>>

CancelMeta(t) ==
    /\ At(t, "c_meta")
    /\ UnlinkMeta("inputs", Me(t))
    /\ IF thr[t].n # 0 THEN Return(t) ELSE Goto(t, "c_done")
    /\ UNCHANGED fs /\ Files

\* 404 when there is no record; else is it fresh, and does the poller own it?
CancelLook(t) ==
    \/ /\ At(t, "c_done")
       /\ IF PickedUp(fs, Me(t)) THEN Goto(t, "c_mtime") ELSE Return(t)
    \/ /\ At(t, "c_mtime")
       /\ Goto(t, IF PickedUp(fs, Me(t)) /\ ~Fresh(fs, Me(t)) THEN "c_inflight" ELSE "c_mark")
    \/ /\ At(t, "c_inflight")
       /\ Goto(t, IF Me(t) \in InflightDigests(fs) THEN "c_mark" ELSE "x_done")

CancelMark(t) ==
    /\ At(t, "c_mark")
    /\ fs' = [fs EXCEPT !.cancel[Me(t)] = "set"]
    /\ Return(t)
    /\ UNCHANGED meta /\ Files

(* POST /cancels/<digest>/stale: _resolve_stale_cancel *)

ResolveStart(t, d) == Start(t, "resolve", "r_cancel", d) /\ Reads

ResolveLook(t) ==
    \/ /\ At(t, "r_cancel")
       /\ IF fs.cancel[Me(t)] # "none" THEN Goto(t, "r_inflight") ELSE Return(t)
    \/ /\ At(t, "r_inflight")
       /\ IF Me(t) \in InflightDigests(fs) THEN Return(t) ELSE Goto(t, "r_output")
    \/ /\ At(t, "r_output")
       /\ Goto(t, IF HasOutput(fs, Me(t)) THEN "r_unmark" ELSE "x_done")

\* Both drop the record the same way: plan, meta, marker.
DropPlan(t) ==
    /\ At(t, "x_done")
    /\ Unlink("done", Me(t))
    /\ Goto(t, "x_meta")
    /\ UNCHANGED meta /\ Files

DropMeta(t) ==
    /\ At(t, "x_meta")
    /\ UnlinkMeta("done", Me(t))
    /\ Goto(t, "x_cancel")
    /\ UNCHANGED fs /\ Files

DropMarker(t) ==
    /\ At(t, "x_cancel") \/ At(t, "r_unmark")
    /\ fs' = [fs EXCEPT !.cancel[Me(t)] = "none"]
    /\ Return(t)
    /\ UNCHANGED meta /\ Files

-----------------------------------------------------------------------------
(* DELETE /outputs/<digest>: delete_outputs *)

DeleteStart(t, d) == Start(t, "delete", "d_outputs", d) /\ Reads

\* The record goes only when an artefact went.
DeleteArtefact(t) ==
    /\ At(t, "d_outputs")
    /\ fs' = [fs EXCEPT !.outputs[Me(t)] = NoArt]
    /\ IF HasOutput(fs, Me(t)) THEN Goto(t, "d_plan") ELSE Return(t)
    /\ UNCHANGED meta /\ Files

DeletePlan(t) ==
    /\ At(t, "d_plan")
    /\ Unlink("done", Me(t))
    /\ Goto(t, "d_meta")
    /\ UNCHANGED meta /\ Files

DeleteMeta(t) ==
    /\ At(t, "d_meta")
    /\ UnlinkMeta("done", Me(t))
    /\ Return(t)
    /\ UNCHANGED fs /\ Files

(* DELETE /jobs: prune_stale_jobs *)

\* rows gathers what is protected: digests with an artefact, digests in flight.
PruneStart(t) == Start(t, "prune", "p_outputs", None) /\ Reads

PruneLook(t) ==
    \/ /\ At(t, "p_outputs")
       /\ thr' = [thr EXCEPT ![t].pc = "p_protect",
                          ![t].rows = {d \in Digests : HasOutput(fs, d)}]
    \/ /\ At(t, "p_protect")
       /\ thr' = [thr EXCEPT ![t].pc = "p_list",
                          ![t].rows = @ \cup InflightDigests(fs)]
    \/ /\ At(t, "p_list")
       /\ thr' = [thr EXCEPT ![t].pc = "p_stat",
                          ![t].rows = {d \in Digests : PickedUp(fs, d)} \ @]

\* One record of the listing: skip it, or unlink plan and meta.
PruneStat(t) ==
    /\ At(t, "p_stat")
    /\ IF thr[t].rows = {} THEN Return(t)
       ELSE \E d \in thr[t].rows :
              thr' = [thr EXCEPT ![t].d = d, ![t].rows = @ \ {d},
                       ![t].pc = IF PickedUp(fs, d) /\ ~Fresh(fs, d) THEN "p_plan" ELSE "p_stat"]
    /\ Reads

PrunePlan(t) ==
    /\ At(t, "p_plan")
    /\ Unlink("done", Me(t))
    /\ Goto(t, "p_meta")
    /\ UNCHANGED meta /\ Files

PruneMeta(t) ==
    /\ At(t, "p_meta")
    /\ UnlinkMeta("done", Me(t))
    /\ Goto(t, "p_stat")
    /\ UNCHANGED fs /\ Files

-----------------------------------------------------------------------------
(* POST /<digest>.tar: _artefact; GET /jobs: _list_jobs *)

ArtefactStart(t, r) ==
    /\ r \in poller.ended
    /\ At(t, "idle") /\ "artefact" \in ServerOps
    /\ \A u \in Threads : ~(thr[u].pc \in ArtefactPCs /\ Me(u) = r[1] /\ thr[u].n = r[2])
    /\ thr' = [thr EXCEPT ![t] = [Idle EXCEPT !.pc = "a_done", !.d = r[1], !.n = r[2]]]
    /\ Reads

\* Three signs of a job record, looked for one after the other.
ArtefactGate(t) ==
    \/ /\ At(t, "a_done")
       /\ Goto(t, IF PickedUp(fs, Me(t)) THEN "a_write" ELSE "a_inputs")
    \/ /\ At(t, "a_inputs")
       /\ Goto(t, IF Queued(fs, Me(t)) THEN "a_write" ELSE "a_inflight")
    \/ /\ At(t, "a_inflight")
       /\ IF Me(t) \in InflightDigests(fs) THEN Goto(t, "a_write") ELSE Return(t)

\* On success the poller's spool file goes.
ArtefactWrite(t) ==
    /\ At(t, "a_write")
    /\ fs' = [fs EXCEPT !.outputs[Me(t)] = [d |-> Me(t), n |-> thr[t].n, st |-> "ran"]]
    /\ poller' = [poller EXCEPT !.ended = @ \ {<<Me(t), thr[t].n>>}]
    /\ Goto(t, "a_uncancel")
    /\ UNCHANGED <<meta, lock, hist>>

ArtefactUncancel(t) ==
    /\ At(t, "a_uncancel")
    /\ fs' = [fs EXCEPT !.cancel[Me(t)] = "none"]
    /\ Return(t)
    /\ UNCHANGED meta /\ Files

\* rows: what the listing shows so far; seen: what was on record at each of its
\* calls, for the property.
ListStart(t) ==
    /\ At(t, "idle") /\ "jobs" \in ServerOps
    /\ thr' = [thr EXCEPT ![t] = [Idle EXCEPT !.pc = "j_inputs", !.seen = OnRecord]]
    /\ Reads

ListFiles(t, pc, next, digests) ==
    /\ At(t, pc)
    /\ thr' = [thr EXCEPT ![t].pc = next, ![t].rows = @ \cup digests,
                          ![t].seen = @ \cap OnRecord]
    /\ UNCHANGED hist

\* Mutant: DONE is listed before INPUTS.
BugListPlans(t) ==
    \/ ListFiles(t, "j_inputs", "j_done", {d \in Digests : PickedUp(fs, d)})
    \/ ListFiles(t, "j_done", "j_outputs", {d \in Digests : Queued(fs, d)})

\* INPUTS first: a plan only moves on from there to DONE.
ListPlans(t) ==
    \/ ListFiles(t, "j_inputs", "j_done", {d \in Digests : Queued(fs, d)})
    \/ ListFiles(t, "j_done", "j_outputs", {d \in Digests : PickedUp(fs, d)})

\* hist.missed: a listing left out a job that was on record all along.
ListOutputs(t) ==
    /\ At(t, "j_outputs")
    /\ LET rows == thr[t].rows \cup {d \in Digests : HasOutput(fs, d)} IN
         hist' = [hist EXCEPT !.missed =
                    @ \/ \E r \in thr[t].seen \cap OnRecord : r[1] \notin rows]
    /\ Return(t)

ListStep(t) ==
    /\ ListPlans(t) \/ ListOutputs(t)
    /\ UNCHANGED <<fs, meta, lock, poller>>

-----------------------------------------------------------------------------
(* The poller's side and time *)

\* A session ends; its artefact is posted until a post is accepted.
SessionEnds(r) ==
    /\ r \in poller.live
    /\ poller' = [live |-> poller.live \ {r}, ended |-> poller.ended \cup {r}]
    /\ UNCHANGED <<fs, meta, lock, thr, hist>>

\* _receive_status replaces the snapshot in one rename.
PushInflight ==
    LET snapshot == {d \in Digests : \E r \in poller.live : r[1] = d} IN
    /\ fs.inflight # snapshot
    /\ fs' = ReceiveInflight(fs, snapshot)
    /\ UNCHANGED <<meta, lock, thr, poller, hist>>

Age(d) ==
    /\ \/ Queued(fs, d) /\ ~fs.inputs[d].old /\ fs' = [fs EXCEPT !.inputs[d].old = TRUE]
       \/ PickedUp(fs, d) /\ Fresh(fs, d) /\ fs' = [fs EXCEPT !.done[d].old = TRUE]
    /\ UNCHANGED <<meta, lock, thr, poller, hist>>

-----------------------------------------------------------------------------
Init ==
    /\ fs = EmptyDirectory
    /\ meta = [inputs |-> [d \in Digests |-> 0], done |-> [d \in Digests |-> 0]]
    /\ lock = None
    /\ thr = [t \in Threads |-> Idle]
    /\ poller = [live |-> {}, ended |-> {}]
    /\ hist \in [ops : Traffic, subs : {[d \in Digests |-> 0]}, unqueued : {{}},
                 delivered : {{}}, missed : {FALSE}]

Request(t) ==
    \/ \E d \in Digests : SubmitStart(t, d) \/ PickupStart(t, d) \/ CancelStart(t, d)
                          \/ ResolveStart(t, d) \/ DeleteStart(t, d)
    \/ \E r \in poller.ended : ArtefactStart(t, r)
    \/ PruneStart(t) \/ ListStart(t)

Submit(t)   == SubmitCheck(t) \/ SubmitMeta(t) \/ SubmitPlan(t) \/ SubmitUncancel(t)
Pickup(t)   == \/ PickupClaim(t) \/ PickupMeta(t) \/ PickupRead(t) \/ PickupReadMeta(t)
               \/ PickupDelivered(t) \/ PickupCut(t) \/ RollbackMeta(t) \/ RollbackPlan(t)
Cancel(t)   == \/ CancelPlan(t) \/ CancelMeta(t) \/ CancelMark(t)
               \/ (CancelLook(t) \/ ResolveLook(t)) /\ Reads
               \/ DropPlan(t) \/ DropMeta(t) \/ DropMarker(t)
Delete(t)   == DeleteArtefact(t) \/ DeletePlan(t) \/ DeleteMeta(t)
PruneJobs(t) == (PruneLook(t) /\ Reads) \/ PruneStat(t) \/ PrunePlan(t) \/ PruneMeta(t)
PostTar(t)  == (ArtefactGate(t) /\ Reads) \/ ArtefactWrite(t) \/ ArtefactUncancel(t)

Next ==
    \/ \E t \in Threads :
         Request(t) \/ Submit(t) \/ Pickup(t) \/ Cancel(t) \/ Delete(t)
         \/ PruneJobs(t) \/ PostTar(t) \/ ListStep(t)
    \/ \E r \in Runs : SessionEnds(r)
    \/ PushInflight
    \/ \E d \in Digests : Age(d)

Spec == Init /\ [][Next]_vars

-----------------------------------------------------------------------------
(* Properties *)

Delivery == [d : Digests, n : Subs, meta : SUBSET Subs]

TypeOK ==
    /\ fs \in Directory
    /\ meta \in [inputs : [Digests -> Sub0], done : [Digests -> Sub0]]
    /\ lock \in Threads \cup {None}
    /\ thr \in [Threads -> [pc : PCs, d : Digests \cup {None}, n : Sub0, x : {0, 1},
                            rows : SUBSET (Digests \cup Subs), seen : SUBSET Runs]]
    /\ poller \in [live : SUBSET Runs, ended : SUBSET Runs]
    /\ hist \in [ops : Traffic, subs : [Digests -> Sub0], unqueued : SUBSET Runs,
                 delivered : SUBSET Delivery, missed : BOOLEAN]

Withdrawals == {"cancel", "resolve", "delete", "prune"}

\* The plan of the latest submission lies in INPUTS or DONE as long as nobody
\* cancels, deletes or prunes it: a transfer that fails half-way loses nothing.
PlanKept ==
    ServerOps \cap Withdrawals = {}
      => \A d \in Digests : hist.subs[d] # 0 => Queued(fs, d) \/ PickedUp(fs, d)

\* A plan answered canceled_queued is never handed to a poller, however the
\* unlink of _cancel_job and the rename of _pickup fall.
CanceledQueuedNotDelivered ==
    \A r \in hist.delivered : <<r.d, r.n>> \notin hist.unqueued

\* Pickups that race for a plan do not both get it, unless it is withdrawn and
\* submitted again while the first is on its way.
DeliveredOnce ==
    [][ServerOps \cap Withdrawals = {} =>
         \A r \in hist'.delivered \ hist.delivered :
           \A q \in hist.delivered : <<q.d, q.n>> # <<r.d, r.n>>]_vars

\* The headers handed out with a plan are those of its own submission, never
\* missing: queue_job writes "meta first so a poller racing to pick up the .plan
\* never sees an empty/old meta file".  It takes that nobody withdraws the plan.
MetaIsOwn ==
    ServerOps \cap Withdrawals = {}
      => \A r \in hist.delivered : r.meta = {r.n} \cap MetaSubs

\* Unless a transfer fails, which moves a plan back from DONE to INPUTS:
\* a job that is on record during a whole GET /jobs is in its answer, so that
\* _wait of submit.py does not take it for gone.
JobAlwaysListed == "rollback" \notin ServerOps => ~hist.missed
=============================================================================
