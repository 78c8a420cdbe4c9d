----------------------------- MODULE JobSystem -----------------------------
(***************************************************************************)
(* The life of a job between the server's directory (JobStore) and the     *)
(* poller on the bench: the poller's main loop, its worker threads, the    *)
(* background upload drain, the spool that survives a crash, and the users *)
(* of the server's HTTP interface.                                         *)
(*                                                                         *)
(* A request of the poller takes effect on the server in one step.  It may *)
(* also fail: never arrive, or be served after the poller gave up on it    *)
(* (the timeouts are the poller's own, and a request on its way through    *)
(* the SSH tunnel outlives them).  Such a request waits in "late".  The    *)
(* handlers' own interleavings are the subject of JobServer.               *)
(***************************************************************************)
EXTENDS JobStore

CONSTANTS
    Workers,     \* worker threads, max(2, device instances) of them
    UserOps,     \* requests users make: a subset of AllUserOps
    BadPlans,    \* digests that fail to parse or to validate
    LateOps,     \* kinds of poller request that may be served late
    MaxLost,     \* bound: failed requests
    MaxDeaths,   \* bound: deaths of the poller process
    Signals      \* ways to die: a subset of {"kill", "int"}

AllUserOps == {"submit", "cancel", "delete", "delete_tar", "prune", "wipe"}

ASSUME SystemAssumption ==
    /\ Workers # {} /\ None \notin Workers
    /\ UserOps \subseteq AllUserOps
    /\ BadPlans \subseteq Digests
    /\ LateOps \subseteq {"stale", "push", "upload", "rollback"}
    /\ MaxLost \in Nat /\ MaxDeaths \in Nat
    /\ Signals \subseteq {"kill", "int"}

VARIABLES
    store,     \* the server's directory
    late,      \* requests the poller gave up on, not yet served
    loop,      \* the main thread: where it is, what it works through
    work,      \* the worker threads
    active,    \* _active_sessions: digest -> the worker running it
    signaled,  \* _signaled_cancels
    wasBusy,   \* _was_active_inflight
    drain,     \* uploads in progress: on the main thread, on the drain thread
    disk,      \* PENDING and PENDING/refused
    net,       \* push circuit, 409 back-offs, and the two fault budgets
    hist       \* what happened, for the properties

vars == <<store, late, loop, work, active, signaled, wasBusy, drain, disk,
          net, hist>>
procVars == <<loop, work, active, signaled, wasBusy, drain>>

Drainers == {"main", "thread"}
Spools   == [d : Digests \cup {None}, n : Subs, st : {"ran", "canceled", "failed"}]
Requests == [op : {"stale", "rollback"}, d : Digests]
            \cup [op : {"push"}, snap : SUBSET Digests]
            \cup [op : {"upload"}, a : Spools]

LoopPCs  == {"cancels", "signal", "stale", "publish", "snap", "push", "plan",
             "transfer", "b_drain", "b_jobs", "b_orphans", "i_wait", "i_drain",
             "down"}
WorkPCs  == {"free", "load", "run", "pop", "spool"}

Idle     == [pc |-> "free", d |-> None, n |-> 0, canceled |-> FALSE, st |-> "ran"]
NoDrain  == [pc |-> "off", todo |-> {}, cur |-> NoArt]
AtPC(pc) == [pc |-> pc, todo |-> {}, cur |-> None, n |-> 0, orphans |-> {}, busy |-> FALSE]

-----------------------------------------------------------------------------
(* Requests of the poller *)

\* _post_spooled's 200: the gate of _artefact lets the upload through.
Accepts(a) == a.d # None /\ PlanPresent(store, a.d)

\* What serving a request does to the directory.
Serve(f, r) ==
    CASE r.op = "stale"    -> ResolveStaleCancel(f, r.d)
      [] r.op = "rollback" -> Rollback(f, r.d)
      [] r.op = "push"     -> ReceiveInflight(f, r.snap)
      [] r.op = "upload"   -> IF Accepts(r.a) THEN StoreArtefact(f, r.a) ELSE f

\* hist.published: the runs whose artefact has been on the server.
Publish(a) == [hist EXCEPT !.published = @ \cup {<<a.d, a.n>>}]

\* A request the poller sees fail: it may still be under way.
Fail(r) ==
    /\ net.lost < MaxLost
    /\ store' = store
    /\ late' \in {late} \cup {late \cup {r} : x \in {y \in LateOps : y = r.op}}

ServeLate(r) ==
    /\ r \in late
    /\ store' = Serve(store, r)
    /\ late' = late \ {r}
    /\ hist' = IF r.op = "upload" /\ Accepts(r.a) THEN Publish(r.a) ELSE hist
    /\ UNCHANGED <<procVars, disk, net>>

-----------------------------------------------------------------------------
(* Users of the server, and time *)

UserStep(f) ==
    /\ store' = f
    /\ UNCHANGED <<late, procVars, disk, net>>

Submit(d) ==
    /\ "submit" \in UserOps
    /\ hist.subs[d] < MaxSubs
    /\ ~Refuses(store, d)
    /\ UserStep(QueueJob(store, d, hist.subs[d] + 1))
    /\ hist' = [hist EXCEPT !.subs[d] = @ + 1]

Cancel(d) == "cancel" \in UserOps /\ UserStep(CancelJob(store, d)) /\ UNCHANGED hist

Delete(d, wholeJob) ==
    /\ (IF wholeJob THEN "delete" ELSE "delete_tar") \in UserOps
    /\ UserStep(DeleteOutputs(store, d, wholeJob))
    /\ UNCHANGED hist

PruneStaleJobs == "prune" \in UserOps /\ UserStep(Prune(store)) /\ UNCHANGED hist
WipeAllJobs    == "wipe" \in UserOps /\ UserStep(Wipe(store)) /\ UNCHANGED hist

\* A plan file's mtime falls behind PRUNE_MIN_AGE_S.
Age(d) ==
    /\ \/ /\ Queued(store, d) /\ ~store.inputs[d].old
          /\ store' = [store EXCEPT !.inputs[d].old = TRUE]
       \/ /\ PickedUp(store, d) /\ ~store.done[d].old
          /\ store' = [store EXCEPT !.done[d].old = TRUE]
    /\ UNCHANGED <<late, procVars, disk, net, hist>>

\* No snapshot for INFLIGHT_STALE_S.  The loop pushes on every tick while it
\* is busy, unless its pushes fail or it is down.
InflightStales ==
    /\ loop.pc = "down" \/ net.circuit \/ (~wasBusy /\ loop.pc # "push")
    /\ store.inflight # {} /\ ~store.stale
    /\ store' = [store EXCEPT !.stale = TRUE]
    /\ UNCHANGED <<late, procVars, disk, net, hist>>

\* 90 minutes pass over a marker: a running poller resolves it long before.
MarkerExpires(d) ==
    /\ loop.pc = "down" /\ store.cancel[d] = "set"
    /\ store' = [store EXCEPT !.cancel[d] = "expired"]
    /\ UNCHANGED <<late, procVars, disk, net, hist>>

\* _PUSH_CIRCUIT_OPEN_S and REFUSED_RETRY_BACKOFF_S run out.
CircuitCloses ==
    /\ net.circuit
    /\ net' = [net EXCEPT !.circuit = FALSE]
    /\ UNCHANGED <<store, late, procVars, disk, hist>>

BackoffEnds(a) ==
    /\ a \in net.backoff
    /\ net' = [net EXCEPT !.backoff = @ \ {a}]
    /\ UNCHANGED <<store, late, procVars, disk, hist>>

-----------------------------------------------------------------------------
(* The main loop of _run_poller *)

Main(pc) == loop.pc = pc
Lost     == net' = [net EXCEPT !.lost = @ + 1]
LostOpen == net' = [net EXCEPT !.lost = @ + 1, !.circuit = TRUE]

\* _drain_cancels: GET /cancels, forget the signals of ended sessions.
PullCancelMarkers ==
    /\ Main("cancels")
    /\ store' = PullCancels(store)
    /\ signaled' = {d \in signaled : active[d] # None}
    /\ loop' = IF LiveMarkers(store) = {} THEN AtPC("publish")
               ELSE [AtPC("signal") EXCEPT !.todo = LiveMarkers(store)]
    /\ UNCHANGED <<late, work, active, wasBusy, drain, disk, net, hist>>

PullCancelsFails ==
    /\ Main("cancels") /\ net.lost < MaxLost
    /\ Lost
    /\ loop' = AtPC("publish")
    /\ UNCHANGED <<store, late, work, active, signaled, wasBusy, drain, disk, hist>>

NextMarker(d) == LET rest == loop.todo \ {d} IN
    IF rest = {} THEN AtPC("publish") ELSE [AtPC("signal") EXCEPT !.todo = rest]

\* One marker: skip it, signal its session, or find that there is none.
SkipSignaled(d) ==
    /\ Main("signal") /\ d \in loop.todo \cap signaled
    /\ loop' = NextMarker(d)
    /\ UNCHANGED <<store, late, work, active, signaled, wasBusy, drain, disk, net, hist>>

SignalCancel(d) ==
    /\ Main("signal") /\ d \in loop.todo \ signaled
    /\ active[d] # None
    /\ work' = [work EXCEPT ![active[d]].canceled = TRUE]
    /\ signaled' = signaled \cup {d}
    /\ loop' = NextMarker(d)
    /\ UNCHANGED <<store, late, active, wasBusy, drain, disk, net, hist>>

\* Mutant: a marker without a session is passed over.
BugNoLiveSession(d) ==
    /\ Main("signal") /\ d \in loop.todo \ signaled
    /\ active[d] = None
    /\ loop' = NextMarker(d)
    /\ UNCHANGED <<store, late, work, active, signaled, wasBusy, drain, disk, net, hist>>

NoLiveSession(d) ==
    /\ Main("signal") /\ d \in loop.todo \ signaled
    /\ active[d] = None
    /\ loop' = [loop EXCEPT !.pc = "stale", !.cur = d]
    /\ UNCHANGED <<store, late, work, active, signaled, wasBusy, drain, disk, net, hist>>

\* _resolve_stale_cancel: best effort.
PostStale ==
    /\ Main("stale")
    /\ LET r == [op |-> "stale", d |-> loop.cur] IN
         \/ store' = Serve(store, r) /\ UNCHANGED <<late, net>>
         \/ Fail(r) /\ Lost
    /\ loop' = NextMarker(loop.cur)
    /\ UNCHANGED <<work, active, signaled, wasBusy, drain, disk, hist>>

\* _kick_pending_upload_drain, then _publish_inflight reads any_active.
KickAndLook ==
    /\ Main("publish")
    /\ drain' = IF ~net.circuit /\ drain["thread"].pc = "off"
                  THEN [drain EXCEPT !["thread"].pc = "list"] ELSE drain
    /\ loop' = [AtPC("snap") EXCEPT !.busy = \E d \in Digests : active[d] # None]
    /\ UNCHANGED <<store, late, work, active, signaled, wasBusy, disk, net, hist>>

\* _snapshot_inflight; the push is skipped (and the edge retired) when the
\* bench was idle and is idle.
TakeSnapshot ==
    /\ Main("snap")
    /\ IF loop.busy \/ wasBusy
         THEN /\ loop' = [loop EXCEPT !.pc = "push",
                            !.todo = {d \in Digests : active[d] # None}]
              /\ UNCHANGED wasBusy
         ELSE loop' = AtPC("plan") /\ wasBusy' = FALSE
    /\ UNCHANGED <<store, late, work, active, signaled, drain, disk, net, hist>>

\* _push_status: the busy edge is retired only by a push that landed.
PushInflight ==
    /\ Main("push") /\ ~net.circuit
    /\ LET r == [op |-> "push", snap |-> loop.todo] IN
         \/ /\ store' = Serve(store, r)
            /\ wasBusy' = loop.busy
            /\ UNCHANGED <<late, net>>
         \/ Fail(r) /\ LostOpen /\ UNCHANGED wasBusy
    /\ loop' = AtPC("plan")
    /\ UNCHANGED <<work, active, signaled, drain, disk, hist>>

PushSkipped ==
    /\ Main("push") /\ net.circuit
    /\ loop' = AtPC("plan")
    /\ UNCHANGED <<store, late, work, active, signaled, wasBusy, drain, disk, net, hist>>

FreeWorkers == {w \in Workers : work[w].pc = "free"}

\* The slots are taken, or GET /plan answers 204, or it never arrives.
NothingToDo ==
    /\ Main("plan")
    /\ FreeWorkers = {} \/ \A d \in Digests : ~Queued(store, d)
    /\ loop' = AtPC("cancels")
    /\ UNCHANGED <<store, late, work, active, signaled, wasBusy, drain, disk, net, hist>>

GetPlanFails ==
    /\ Main("plan") /\ FreeWorkers # {} /\ net.lost < MaxLost
    /\ Lost
    /\ loop' = AtPC("cancels")
    /\ UNCHANGED <<store, late, work, active, signaled, wasBusy, drain, disk, hist>>

\* _pickup claims; the body is on its way.
ClaimPlan(d) ==
    /\ Main("plan") /\ FreeWorkers # {}
    /\ Queued(store, d)
    /\ store' = Claim(store, d)
    /\ loop' = [AtPC("transfer") EXCEPT !.cur = d, !.n = store.inputs[d].n]
    /\ UNCHANGED <<late, work, active, signaled, wasBusy, drain, disk, net, hist>>

\* A worker starts on the body; d = None stands for a body cut short, whose
\* sha256 is no submitted digest.
Spawn(w, d) ==
    /\ work[w].pc = "free"
    /\ work' = [work EXCEPT ![w] = [Idle EXCEPT !.pc = "load", !.d = d, !.n = loop.n]]
    /\ loop' = AtPC("cancels")

PlanDelivered(w) ==
    /\ Main("transfer")
    /\ Spawn(w, loop.cur)
    /\ hist' = [hist EXCEPT !.started = @ \cup {<<loop.cur, loop.n>>}]
    /\ UNCHANGED <<store, late, active, signaled, wasBusy, drain, disk, net>>

\* The server's write fails and _rollback_pickup runs, or the tunnel took the
\* bytes and the server believes they arrived.
TransferCut ==
    \/ store' = Rollback(store, loop.cur) /\ late' = late
    \/ store' = store /\ late' = late
    \/ /\ "rollback" \in LateOps
       /\ store' = store
       /\ late' = late \cup {[op |-> "rollback", d |-> loop.cur]}

\* The poller sees the transfer fail (deadline, reset) ...
TransferFails ==
    /\ Main("transfer") /\ net.lost < MaxLost
    /\ TransferCut
    /\ Lost
    /\ loop' = AtPC("cancels")
    /\ UNCHANGED <<work, active, signaled, wasBusy, drain, disk, hist>>

\* ... or the connection ends early and _get takes what came for the body.
TransferTruncated(w) ==
    /\ Main("transfer") /\ net.lost < MaxLost
    /\ TransferCut
    /\ Lost
    /\ Spawn(w, None)
    /\ UNCHANGED <<active, signaled, wasBusy, drain, disk, hist>>

-----------------------------------------------------------------------------
(* Worker threads: _dispatch *)

Worker(w) == UNCHANGED <<store, late, loop, signaled, wasBusy, drain, net, hist>>

\* load_tar or _validate_against_plugins rejects the plan.
Reject(w) ==
    /\ work[w].pc = "load" /\ work[w].d \in BadPlans \cup {None}
    /\ work' = [work EXCEPT ![w].pc = "spool", ![w].st = "failed"]
    /\ UNCHANGED <<active, disk>> /\ Worker(w)

\* The session is registered and run_all starts.
Register(w) ==
    /\ work[w].pc = "load" /\ work[w].d \in Digests \ BadPlans
    /\ active' = [active EXCEPT ![work[w].d] = w]
    /\ work' = [work EXCEPT ![w].pc = "run"]
    /\ UNCHANGED disk /\ Worker(w)

\* run_all returns, canceled or not, and pack_artefact fixes the status.
Pack(w) ==
    /\ work[w].pc = "run"
    /\ work' = [work EXCEPT ![w].pc = "pop",
                  ![w].st = IF work[w].canceled THEN "canceled" ELSE "ran"]
    /\ UNCHANGED <<active, disk>> /\ Worker(w)

\* The finally: of _dispatch drops the digest, whoever registered it last.
Pop(w) ==
    /\ work[w].pc = "pop"
    /\ active' = [active EXCEPT ![work[w].d] = None]
    /\ work' = [work EXCEPT ![w].pc = "spool"]
    /\ UNCHANGED disk /\ Worker(w)

Result(w) == [d |-> work[w].d, n |-> work[w].n, st |-> work[w].st]

\* _post_artefact with try_now=False: spool, release the slot.
Spool(w) ==
    /\ work[w].pc = "spool"
    /\ disk' = [disk EXCEPT !.pending = @ \cup {Result(w)}]
    /\ work' = [work EXCEPT ![w] = Idle]
    /\ UNCHANGED active /\ Worker(w)

-----------------------------------------------------------------------------
(* Uploads: _drain_pending_uploads and _post_spooled, on two threads *)

Drain(p, pc) == drain[p].pc = pc

\* The listing; nothing is tried while the circuit is open.
ListPending(p) ==
    /\ Drain(p, "list")
    /\ drain' = [drain EXCEPT ![p] =
         [NoDrain EXCEPT !.pc = "next",
            !.todo = IF net.circuit THEN {} ELSE disk.pending]]
    /\ UNCHANGED <<store, late, loop, work, active, signaled, wasBusy, disk, net, hist>>

\* Read one spool file; skip those backing off, and those gone by now.
OpenSpool(p, a) ==
    /\ Drain(p, "next") /\ a \in drain[p].todo
    /\ drain' = [drain EXCEPT
         ![p].todo = @ \ {a},
         ![p].pc   = IF a \in net.backoff \/ a \notin disk.pending THEN "next" ELSE "post",
         ![p].cur  = IF a \in net.backoff \/ a \notin disk.pending THEN NoArt ELSE a]
    /\ UNCHANGED <<store, late, loop, work, active, signaled, wasBusy, disk, net, hist>>

\* Mutant: _pending_drain_lock is not released.
BugDrainDone(p) ==
    /\ Drain(p, "next") /\ drain[p].todo = {}
    /\ drain' = [drain EXCEPT ![p].pc = IF p = "thread" THEN "next" ELSE "off"]
    /\ UNCHANGED <<store, late, loop, work, active, signaled, wasBusy, disk, net, hist>>

DrainDone(p) ==
    /\ Drain(p, "next") /\ drain[p].todo = {}
    /\ drain' = [drain EXCEPT ![p] = NoDrain]
    /\ UNCHANGED <<store, late, loop, work, active, signaled, wasBusy, disk, net, hist>>

Posted(p) == drain' = [drain EXCEPT ![p].pc = "next", ![p].cur = NoArt]

\* 200: the tar is published, the spool file unlinked.
UploadAccepted(p) ==
    /\ Drain(p, "post") /\ Accepts(drain[p].cur)
    /\ store' = StoreArtefact(store, drain[p].cur)
    /\ disk' = [disk EXCEPT !.pending = @ \ {drain[p].cur}]
    /\ hist' = Publish(drain[p].cur)
    /\ Posted(p)
    /\ UNCHANGED <<late, loop, work, active, signaled, wasBusy, net>>

\* Mutant: a 409 drops the spool file.
BugUploadRefused(p) ==
    /\ Drain(p, "post") /\ ~Accepts(drain[p].cur)
    /\ disk' = [disk EXCEPT !.pending = @ \ {drain[p].cur}]
    /\ Posted(p)
    /\ UNCHANGED <<store, late, loop, work, active, signaled, wasBusy, net, hist>>

\* 409 within REFUSED_GRACE_S: keep the file, back off.
UploadRefused(p) ==
    /\ Drain(p, "post") /\ ~Accepts(drain[p].cur)
    /\ net' = [net EXCEPT !.backoff = @ \cup {drain[p].cur}]
    /\ Posted(p)
    /\ UNCHANGED <<store, late, loop, work, active, signaled, wasBusy, disk, hist>>

\* 409 after it: park the file under refused/.
UploadParked(p) ==
    /\ Drain(p, "post") /\ ~Accepts(drain[p].cur)
    /\ disk' = [disk EXCEPT
         !.pending = @ \ {drain[p].cur},
         !.refused = @ \cup ({drain[p].cur} \cap disk.pending)]
    /\ Posted(p)
    /\ UNCHANGED <<store, late, loop, work, active, signaled, wasBusy, net, hist>>

\* Timeout or reset: keep the file, open the circuit.
UploadFails(p) ==
    /\ Drain(p, "post")
    /\ Fail([op |-> "upload", a |-> drain[p].cur]) /\ LostOpen
    /\ Posted(p)
    /\ UNCHANGED <<loop, work, active, signaled, wasBusy, disk, hist>>

-----------------------------------------------------------------------------
(* Start-up, SIGINT, death *)

\* The supervisor starts a worker process; it drains what it finds spooled.
Restart ==
    /\ Main("down")
    /\ loop' = AtPC("b_drain")
    /\ drain' = [drain EXCEPT !["main"].pc = "list"]
    /\ UNCHANGED <<store, late, work, active, signaled, wasBusy, disk, net, hist>>

StartupDrained ==
    /\ Main("b_drain") /\ Drain("main", "off")
    /\ loop' = AtPC("b_jobs")
    /\ UNCHANGED <<store, late, work, active, signaled, wasBusy, drain, disk, net, hist>>

\* Rows of GET /jobs, each with the submission it stands for.
RowsOf(digests) == {<<d, store.done[d].n>> : d \in digests}

\* Mutant: only rows the old snapshot still lists are resolved.
BugListOrphans ==
    /\ Main("b_jobs")
    /\ loop' = [AtPC("b_orphans") EXCEPT
         !.orphans = RowsOf({d \in InflightDigests(store) : Running(store, d)})]
    /\ UNCHANGED <<store, late, work, active, signaled, wasBusy, drain, disk, net, hist>>

\* _resolve_orphan_running_jobs: running rows with nothing spooled for them.
ListOrphans ==
    /\ Main("b_jobs")
    /\ LET spooled == {a.d : a \in disk.pending}
           orphans == {d \in Digests : Running(store, d)} \ spooled
       IN  loop' = [AtPC("b_orphans") EXCEPT !.orphans = RowsOf(orphans)]
    /\ UNCHANGED <<store, late, work, active, signaled, wasBusy, drain, disk, net, hist>>

ListOrphansFails ==
    /\ Main("b_jobs") /\ net.lost < MaxLost
    /\ Lost
    /\ loop' = AtPC("cancels")
    /\ UNCHANGED <<store, late, work, active, signaled, wasBusy, drain, disk, hist>>

\* Its failure artefact reports on the run the row stood for.
FailOrphan(r) ==
    /\ Main("b_orphans") /\ Drain("main", "off") /\ r \in loop.orphans
    /\ LET a == [d |-> r[1], n |-> r[2], st |-> "failed"] IN
         /\ disk' = [disk EXCEPT !.pending = @ \cup {a}]
         /\ drain' = [drain EXCEPT !["main"] = [NoDrain EXCEPT !.pc = "post", !.cur = a]]
    /\ loop' = [loop EXCEPT !.orphans = @ \ {r}]
    /\ UNCHANGED <<store, late, work, active, signaled, wasBusy, net, hist>>

StartupDone ==
    /\ Main("b_orphans") /\ Drain("main", "off") /\ loop.orphans = {}
    /\ loop' = AtPC("cancels")
    /\ UNCHANGED <<store, late, work, active, signaled, wasBusy, drain, disk, net, hist>>

\* What the process held in memory is gone; requests under way may survive it.
Die ==
    /\ loop' = AtPC("down")
    /\ work' = [w \in Workers |-> Idle]
    /\ active' = [d \in Digests |-> None]
    /\ signaled' = {}
    /\ wasBusy' = FALSE
    /\ drain' = [p \in Drainers |-> NoDrain]

\* What is under way on the main thread and on the drains; a process that goes
\* away may leave any of it to be served late.
OnLoop ==
    (IF Main("push") THEN {[op |-> "push", snap |-> loop.todo]} ELSE {})
    \cup (IF Main("stale") THEN {[op |-> "stale", d |-> loop.cur]} ELSE {})
OnDrains ==
    {[op |-> "upload", a |-> drain[p].cur] : p \in {q \in Drainers : Drain(q, "post")}}
Leaves(requests) ==
    late' \in {late \cup s : s \in SUBSET {r \in requests : r.op \in LateOps}}

\* A crash, a watchdog os._exit, a power cut, a second SIGINT.
Crash ==
    /\ "kill" \in Signals
    /\ ~Main("down") /\ net.deaths < MaxDeaths
    /\ net' = [net EXCEPT !.deaths = @ + 1, !.circuit = FALSE, !.backoff = {}]
    /\ \/ ~Main("transfer") /\ store' = store /\ Leaves(OnLoop \cup OnDrains)
       \/ Main("transfer") /\ TransferCut
    /\ Die
    /\ UNCHANGED <<disk, hist>>

LoopRunning == loop.pc \in {"cancels", "signal", "stale", "publish", "snap", "push",
                            "plan", "transfer"}

\* The first SIGINT leaves the loop and cancels every registered session ...
Interrupt ==
    /\ "int" \in Signals /\ LoopRunning /\ net.deaths < MaxDeaths
    /\ net' = [net EXCEPT !.deaths = @ + 1]
    /\ \/ ~Main("transfer") /\ store' = store /\ Leaves(OnLoop)
       \/ Main("transfer") /\ TransferCut
    /\ work' = [w \in Workers |->
                  IF \E d \in Digests : active[d] = w
                    THEN [work[w] EXCEPT !.canceled = TRUE] ELSE work[w]]
    /\ loop' = AtPC("i_wait")
    /\ UNCHANGED <<active, signaled, wasBusy, drain, disk, hist>>

\* ... waits 30 s for them to leave _active_sessions, drains once more, exits.
LastDrain ==
    /\ Main("i_wait")
    /\ loop' = AtPC("i_drain")
    /\ drain' = [drain EXCEPT !["main"].pc = "list"]
    /\ UNCHANGED <<store, late, work, active, signaled, wasBusy, disk, net, hist>>

Exit ==
    /\ Main("i_drain") /\ Drain("main", "off")
    /\ net' = [net EXCEPT !.circuit = FALSE, !.backoff = {}]
    /\ Leaves(OnDrains)
    /\ Die
    /\ UNCHANGED <<store, disk, hist>>

-----------------------------------------------------------------------------
Init ==
    /\ store = EmptyDirectory
    /\ late = {}
    /\ loop = AtPC("cancels")
    /\ work = [w \in Workers |-> Idle]
    /\ active = [d \in Digests |-> None]
    /\ signaled = {}
    /\ wasBusy = FALSE
    /\ drain = [p \in Drainers |-> NoDrain]
    /\ disk = [pending |-> {}, refused |-> {}]
    /\ net = [circuit |-> FALSE, backoff |-> {}, lost |-> 0, deaths |-> 0]
    /\ hist = [subs |-> [d \in Digests |-> 0], started |-> {}, published |-> {}]

Users ==
    \/ \E d \in Digests : Submit(d) \/ Cancel(d)
    \/ \E d \in Digests, wholeJob \in BOOLEAN : Delete(d, wholeJob)
    \/ PruneStaleJobs \/ WipeAllJobs

Time ==
    \/ \E d \in Digests : Age(d) \/ MarkerExpires(d)
    \/ InflightStales \/ CircuitCloses
    \/ \E a \in net.backoff : BackoffEnds(a)
    \/ \E r \in late : ServeLate(r)

\* One tick of the loop, the requests that can fail left out.
LoopStep ==
    \/ PullCancelMarkers
    \/ \E d \in Digests : SkipSignaled(d) \/ SignalCancel(d) \/ NoLiveSession(d)
    \/ PostStale \/ KickAndLook \/ TakeSnapshot \/ PushInflight \/ PushSkipped
    \/ NothingToDo
    \/ \E d \in Digests : ClaimPlan(d)
    \/ \E w \in Workers : PlanDelivered(w)
    \/ StartupDrained \/ ListOrphans \/ StartupDone
    \/ \E r \in loop.orphans : FailOrphan(r)
    \/ LastDrain \/ Exit

LoopFails ==
    \/ PullCancelsFails \/ GetPlanFails \/ TransferFails \/ ListOrphansFails
    \/ \E w \in Workers : TransferTruncated(w)

WorkStep(w) == Reject(w) \/ Register(w) \/ Pack(w) \/ Pop(w) \/ Spool(w)

DrainStep(p) ==
    \/ ListPending(p) \/ DrainDone(p)
    \/ \E a \in drain[p].todo : OpenSpool(p, a)
    \/ UploadAccepted(p) \/ UploadRefused(p) \/ UploadParked(p)

System ==
    \/ Time
    \/ LoopStep \/ LoopFails
    \/ \E w \in Workers : WorkStep(w)
    \/ \E p \in Drainers : DrainStep(p) \/ UploadFails(p)
    \/ Restart \/ Crash \/ Interrupt

Next == Users \/ System

Spec == Init /\ [][Next]_vars

\* The loop ticks, sessions end (their deadline sees to it), uploads go on, the
\* supervisor restarts the worker, back-offs, grace and stale periods run out,
\* and random.choice passes no queued plan over for ever.  Nobody promises that a
\* request fails or that users act.
Fairness ==
    /\ WF_vars(LoopStep) /\ WF_vars(Restart) /\ WF_vars(CircuitCloses)
    /\ WF_vars(InflightStales)
    /\ \A d \in Digests : SF_vars(ClaimPlan(d))
    /\ \A w \in Workers : WF_vars(WorkStep(w))
    /\ \A p \in Drainers : WF_vars(DrainStep(p)) /\ SF_vars(UploadParked(p))
    /\ WF_vars(\E a \in net.backoff : BackoffEnds(a))

FairSpec == Spec /\ Fairness

-----------------------------------------------------------------------------
(* Properties *)

\* Every variable keeps its shape.
TypeOK ==
    /\ store \in Directory
    /\ late \subseteq Requests
    /\ loop \in [pc : LoopPCs, todo : SUBSET Digests, cur : Digests \cup {None},
                 n : Sub0, orphans : SUBSET Runs, busy : BOOLEAN]
    /\ work \in [Workers -> [pc : WorkPCs, d : Digests \cup {None}, n : Sub0,
                             canceled : BOOLEAN, st : {"ran", "canceled", "failed"}]]
    /\ active \in [Digests -> Workers \cup {None}]
    /\ signaled \subseteq Digests
    /\ wasBusy \in BOOLEAN
    /\ drain \in [Drainers -> [pc : {"off", "list", "next", "post"},
                               todo : SUBSET Spools, cur : Spools \cup {NoArt}]]
    /\ disk \in [pending : SUBSET Spools, refused : SUBSET Spools]
    /\ net \in [circuit : BOOLEAN, backoff : SUBSET Spools,
                lost : 0 .. MaxLost, deaths : 0 .. MaxDeaths]
    /\ hist \in [subs : [Digests -> Sub0], started : SUBSET Runs, published : SUBSET Runs]

\* The run a worker executes, and whether its session is registered.
RunOf(w) == <<work[w].d, work[w].n>>
Live(w)  == work[w].pc \in {"run", "pop"}
Executing(w) == work[w].pc \in {"load", "run"} /\ work[w].d # None

\* Two sessions never run the same plan at once: queue_job refuses a digest
\* that is mid-flight, so _active_sessions[digest] is never clobbered.
OneSessionPerDigest ==
    \A v, w \in Workers :
        v # w /\ Live(v) /\ Live(w) => work[v].d # work[w].d

\* A cancel marker that arrives mid-dispatch is found again on the next tick
\* once the session is registered (_drain_cancels): the poller does not
\* resolve as stale the marker of a job one of its own workers has taken on.
MarkerFoundAgain ==
    [][\A w \in Workers :
         Executing(w) /\ Main("stale") /\ loop.cur = work[w].d /\ loop' # loop
           => store'.cancel = store.cancel]_vars

\* While a session runs, the server keeps a record of its job, so that the
\* gate of _artefact will let its artefact in.
SessionHasRecord ==
    \A w \in Workers : Live(w) => PlanPresent(store, work[w].d)

\* Where a submission is: with a worker, reported, spooled or parked, on its way
\* to the poller or on the server's record as picked up, queued, or gone.
Stage(r) ==
    LET d == r[1]
        n == r[2] IN
    IF \E w \in Workers : work[w].pc # "free" /\ RunOf(w) = r THEN "running"
    ELSE IF r \in hist.published THEN "reported"
    ELSE IF \E a \in disk.pending \cup disk.refused : <<a.d, a.n>> = r THEN "kept"
    ELSE IF r \in hist.started THEN "lost"
    ELSE IF (Main("transfer") /\ loop.cur = d /\ loop.n = n) \/ store.done[d].n = n THEN "claimed"
    ELSE IF store.inputs[d].n = n THEN "queued"
    ELSE IF n > hist.subs[d] THEN "none" ELSE "withdrawn"

Life == [r \in Runs |-> Stage(r)]

Ledger == INSTANCE JobLedger WITH life <- Life

\* Whatever is lost, cut short, served late, pruned or killed: no submission is
\* handed to a worker twice (the claim-by-rename of _pickup and its rollback),
\* only the death of the process loses a run, and a result the poller has
\* spooled stays spooled or parked until it is on the server.
KeepsTheLedger == Ledger!Spec

\* A row that shows "running" settles, whatever dies in between.
RunningSettles == \A d \in Digests : Running(store, d) ~> ~Running(store, d)

\* "Cancel pending" does not last for ever.
MarkerResolved ==
    \A d \in Digests : (store.cancel[d] # "none") ~> (store.cancel[d] = "none")

=============================================================================
