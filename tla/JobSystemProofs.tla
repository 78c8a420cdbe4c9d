---------------------------- MODULE JobSystemProofs ----------------------------
(***************************************************************************)
(* Theorems about JobSystem, for any number of digests, submissions and    *)
(* workers and any number of lost requests and deaths of the poller.       *)
(***************************************************************************)
EXTENDS JobSystem, TLAPS

-----------------------------------------------------------------------------
(* The directory *)

\* Plans leave INPUTS or DONE and nothing else happens to them.
Sheds(f, g) ==
    \A d \in Digests : /\ g.inputs[d].n \in {f.inputs[d].n, 0}
                       /\ g.done[d].n \in {f.done[d].n, 0}

\* The values the model counts with.
LEMMA Values ==
  /\ NoFile \in PlanFile /\ NoFile.n = 0 /\ None \notin Digests /\ None \notin Workers
  /\ MaxSubs \in Nat /\ Sub0 \subseteq Int /\ Subs \subseteq Sub0 /\ 0 \in Sub0 /\ 0 \notin Subs
  /\ \A n \in Sub0 : n # 0 => n \in Subs
  /\ \A n \in Sub0 : n < MaxSubs => n + 1 \in Subs
  BY StoreAssumption, SystemAssumption DEF NoFile, PlanFile, Sub0, Subs

\* A marker is set or removed.
LEMMA MarkSet ==
  ASSUME NEW f \in Directory, NEW d \in Digests, NEW m \in Marker
  PROVE  [f EXCEPT !.cancel[d] = m] \in Directory
  BY DEF Directory

\* A record is dropped with its marker,
LEMMA DropSheds ==
  ASSUME NEW f \in Directory, NEW d \in Digests
  PROVE  DropRecord(f, d) \in Directory /\ Sheds(f, DropRecord(f, d))
<1>1. DropRecord(f, d) \in Directory
  BY Values DEF Directory, DropRecord, Marker
<1>2. /\ DropRecord(f, d).inputs = f.inputs
      /\ DropRecord(f, d).done = [f.done EXCEPT ![d] = NoFile]
  BY DEF Directory, DropRecord
<1> QED BY <1>1, <1>2, Values DEF Sheds, Directory

\* and a plan with or without a session is canceled.
LEMMA CancelSheds ==
  ASSUME NEW f \in Directory, NEW d \in Digests
  PROVE  CancelJob(f, d) \in Directory /\ Sheds(f, CancelJob(f, d))
<1>1. CASE Queued(f, d)
  <2>1. CancelJob(f, d) = [f EXCEPT !.inputs[d] = NoFile]
    BY <1>1 DEF CancelJob
  <2>2. /\ CancelJob(f, d).inputs = [f.inputs EXCEPT ![d] = NoFile]
        /\ CancelJob(f, d).done = f.done
    BY <2>1 DEF Directory
  <2>3. CancelJob(f, d) \in Directory
    BY <2>1, Values DEF Directory
  <2>4. Sheds(f, CancelJob(f, d))
    BY <2>2, Values DEF Sheds, Directory
  <2> QED BY <2>3, <2>4
<1>2. CASE ~Queued(f, d) /\ PickedUp(f, d) /\ StaleRunning(f, d)
  <2>1. CancelJob(f, d) = DropRecord(f, d)
    BY <1>2 DEF CancelJob
  <2> QED BY <2>1, DropSheds
<1>3. CASE ~Queued(f, d) /\ PickedUp(f, d) /\ ~StaleRunning(f, d)
  <2>1. CancelJob(f, d) = [f EXCEPT !.cancel[d] = "set"]
    BY <1>3 DEF CancelJob
  <2>2. CancelJob(f, d).inputs = f.inputs /\ CancelJob(f, d).done = f.done
    BY <2>1 DEF Directory
  <2> QED BY <2>1, <2>2, MarkSet DEF Sheds, Marker
<1>4. CASE ~Queued(f, d) /\ ~PickedUp(f, d)
  <2>1. CancelJob(f, d) = f
    BY <1>4 DEF CancelJob
  <2> QED BY <2>1 DEF Sheds
<1> QED BY <1>1, <1>2, <1>3, <1>4

\* The handler of a marker without a session,
LEMMA ResolveSheds ==
  ASSUME NEW f \in Directory, NEW d \in Digests
  PROVE  ResolveStaleCancel(f, d) \in Directory /\ Sheds(f, ResolveStaleCancel(f, d))
<1>1. CASE f.cancel[d] = "none" \/ d \in InflightDigests(f)
  <2>1. ResolveStaleCancel(f, d) = f
    BY <1>1 DEF ResolveStaleCancel, Orphaned
  <2> QED BY <2>1 DEF Sheds
<1>2. CASE Orphaned(f, d) /\ HasOutput(f, d)
  <2>1. ResolveStaleCancel(f, d) = [f EXCEPT !.cancel[d] = "none"]
    BY <1>2 DEF ResolveStaleCancel, Orphaned
  <2>2. /\ ResolveStaleCancel(f, d).inputs = f.inputs
        /\ ResolveStaleCancel(f, d).done = f.done
    BY <2>1 DEF Directory
  <2> QED BY <2>1, <2>2, MarkSet DEF Sheds, Marker
<1>3. CASE Orphaned(f, d) /\ ~HasOutput(f, d)
  <2>1. ResolveStaleCancel(f, d) = DropRecord(f, d)
    BY <1>3 DEF ResolveStaleCancel, Orphaned
  <2> QED BY <2>1, DropSheds
<1> QED BY <1>1, <1>2, <1>3 DEF Orphaned

\* of a request to delete outputs,
LEMMA DeleteSheds ==
  ASSUME NEW f \in Directory, NEW d \in Digests, NEW wholeJob \in BOOLEAN
  PROVE  /\ DeleteOutputs(f, d, wholeJob) \in Directory
         /\ Sheds(f, DeleteOutputs(f, d, wholeJob))
<1> DEFINE g == DeleteOutputs(f, d, wholeJob)
           p == IF wholeJob /\ HasOutput(f, d) THEN NoFile ELSE f.done[d]
<1>1. p \in PlanFile /\ p.n \in {f.done[d].n, 0}
  BY Values DEF Directory
<1>2. g = [f EXCEPT !.outputs[d] = NoArt, !.done[d] = p]
  BY DEF DeleteOutputs, Directory
<1> HIDE DEF p
<1> HIDE DEF g
<1>3. g \in Directory /\ g.inputs = f.inputs /\ g.done = [f.done EXCEPT ![d] = p]
  BY <1>1, <1>2 DEF Directory
<1>4. Sheds(f, g)
  BY <1>1, <1>3 DEF Sheds, Directory
<1> QED BY <1>3, <1>4 DEF g

\* of one to prune, of one to wipe,
LEMMA PruneSheds ==
  ASSUME NEW f \in Directory
  PROVE  Prune(f) \in Directory /\ Sheds(f, Prune(f))
<1> DEFINE files == [d \in Digests |-> IF Prunable(f, d) THEN NoFile ELSE f.done[d]]
<1>1. files \in [Digests -> PlanFile] /\ \A d \in Digests : files[d].n \in {f.done[d].n, 0}
  BY Values DEF Directory
<1>2. Prune(f) = [f EXCEPT !.done = files]
  BY DEF Prune, Directory
<1> HIDE DEF files
<1>3. Prune(f) \in Directory /\ Prune(f).inputs = f.inputs /\ Prune(f).done = files
  BY <1>1, <1>2 DEF Directory
<1> QED BY <1>1, <1>3 DEF Sheds

\* of one to wipe them all,
LEMMA WipeSheds ==
  ASSUME NEW f \in Directory
  PROVE  Wipe(f) \in Directory /\ Sheds(f, Wipe(f)) /\ EmptyDirectory \in Directory
<1>1. EmptyDirectory \in Directory
  BY Values DEF Directory, EmptyDirectory, Marker
<1>2. /\ Wipe(f) \in Directory
      /\ Wipe(f).inputs = EmptyDirectory.inputs /\ Wipe(f).done = EmptyDirectory.done
  BY <1>1 DEF Directory, Wipe
<1>3. \A d \in Digests : EmptyDirectory.inputs[d].n = 0 /\ EmptyDirectory.done[d].n = 0
  BY Values DEF EmptyDirectory
<1> QED BY <1>1, <1>2, <1>3 DEF Sheds

\* and those of GET /cancels, of an upload and of a snapshot.
LEMMA PullSheds ==
  ASSUME NEW f \in Directory
  PROVE  PullCancels(f) \in Directory /\ Sheds(f, PullCancels(f))
<1>1. PullCancels(f) \in Directory
  BY DEF PullCancels, Directory, Marker
<1>2. PullCancels(f).inputs = f.inputs /\ PullCancels(f).done = f.done
  BY DEF PullCancels, Directory
<1> QED BY <1>1, <1>2 DEF Sheds

\* of an upload,
LEMMA StoreSheds ==
  ASSUME NEW f \in Directory, NEW a \in Artefact
  PROVE  /\ StoreArtefact(f, a) \in Directory
         /\ StoreArtefact(f, a).inputs = f.inputs /\ StoreArtefact(f, a).done = f.done
  BY DEF StoreArtefact, Directory, Artefact, Marker

\* and of a snapshot of the live sessions.
LEMMA ReceiveSheds ==
  ASSUME NEW f \in Directory, NEW s \in SUBSET Digests
  PROVE  /\ ReceiveInflight(f, s) \in Directory
         /\ ReceiveInflight(f, s).inputs = f.inputs /\ ReceiveInflight(f, s).done = f.done
  BY DEF ReceiveInflight, Directory

\* A plan arrives, or moves between INPUTS and DONE.
LEMMA QueueMoves ==
  ASSUME NEW f \in Directory, NEW d \in Digests, NEW n \in Subs
  PROVE  /\ QueueJob(f, d, n) \in Directory
         /\ QueueJob(f, d, n).inputs = [f.inputs EXCEPT ![d] = [n |-> n, old |-> FALSE]]
         /\ QueueJob(f, d, n).done = f.done
<1>1. [n |-> n, old |-> FALSE] \in PlanFile
  BY Values DEF PlanFile
<1> QED BY <1>1 DEF QueueJob, Directory, Marker

\* A claim and a rollback move a plan.
LEMMA PlanMoves ==
  ASSUME NEW f \in Directory, NEW d \in Digests
  PROVE  /\ Claim(f, d) \in Directory /\ Rollback(f, d) \in Directory
         /\ Claim(f, d).done = [f.done EXCEPT ![d] = f.inputs[d]]
         /\ Claim(f, d).inputs = [f.inputs EXCEPT ![d] = NoFile]
         /\ PickedUp(f, d) =>
              /\ Rollback(f, d).inputs = [f.inputs EXCEPT ![d] = f.done[d]]
              /\ Rollback(f, d).done = [f.done EXCEPT ![d] = NoFile]
         /\ ~PickedUp(f, d) => Rollback(f, d) = f
<1>1. NoFile \in PlanFile /\ f.inputs[d] \in PlanFile /\ f.done[d] \in PlanFile
  BY Values DEF Directory
<1>2. /\ Claim(f, d) \in Directory
      /\ Claim(f, d).done = [f.done EXCEPT ![d] = f.inputs[d]]
      /\ Claim(f, d).inputs = [f.inputs EXCEPT ![d] = NoFile]
  BY <1>1 DEF Directory, Claim
<1>3. ~PickedUp(f, d) => Rollback(f, d) = f
  BY DEF Rollback
<1>4. PickedUp(f, d) => /\ Rollback(f, d) \in Directory
                        /\ Rollback(f, d).inputs = [f.inputs EXCEPT ![d] = f.done[d]]
                        /\ Rollback(f, d).done = [f.done EXCEPT ![d] = NoFile]
  BY <1>1 DEF Directory, Rollback
<1> QED BY <1>2, <1>3, <1>4

\* Time passes.
LEMMA AgeSheds ==
  ASSUME NEW f \in Directory, NEW d \in Digests
  PROVE  /\ [f EXCEPT !.inputs[d].old = TRUE] \in Directory
         /\ Sheds(f, [f EXCEPT !.inputs[d].old = TRUE])
         /\ [f EXCEPT !.done[d].old = TRUE] \in Directory
         /\ Sheds(f, [f EXCEPT !.done[d].old = TRUE])
         /\ [f EXCEPT !.stale = TRUE] \in Directory
         /\ Sheds(f, [f EXCEPT !.stale = TRUE])
         /\ [f EXCEPT !.cancel[d] = "expired"] \in Directory
         /\ Sheds(f, [f EXCEPT !.cancel[d] = "expired"])
<1>1. /\ [f EXCEPT !.inputs[d].old = TRUE] \in Directory
      /\ [f EXCEPT !.done[d].old = TRUE] \in Directory
      /\ [f EXCEPT !.stale = TRUE] \in Directory
      /\ [f EXCEPT !.cancel[d] = "expired"] \in Directory
  <2>1. /\ [f EXCEPT !.stale = TRUE] \in Directory
        /\ [f EXCEPT !.cancel[d] = "expired"] \in Directory
    BY DEF Directory, Marker
  <2>2. [f EXCEPT !.inputs[d].old = TRUE] \in Directory
    <3>1. [f.inputs EXCEPT ![d].old = TRUE] \in [Digests -> PlanFile]
      BY DEF Directory, PlanFile
    <3> QED BY <3>1 DEF Directory
  <2>3. [f EXCEPT !.done[d].old = TRUE] \in Directory
    <3>1. [f.done EXCEPT ![d].old = TRUE] \in [Digests -> PlanFile]
      BY DEF Directory, PlanFile
    <3> QED BY <3>1 DEF Directory
  <2> QED BY <2>1, <2>2, <2>3
<1>2. Sheds(f, [f EXCEPT !.inputs[d].old = TRUE])
  BY DEF Directory, PlanFile, Sheds
<1>3. Sheds(f, [f EXCEPT !.done[d].old = TRUE])
  BY DEF Directory, PlanFile, Sheds
<1>4. Sheds(f, [f EXCEPT !.stale = TRUE]) /\ Sheds(f, [f EXCEPT !.cancel[d] = "expired"])
  BY DEF Directory, Sheds
<1> QED BY <1>1, <1>2, <1>3, <1>4
-----------------------------------------------------------------------------
(* Types, and what a place in the code says of the locals *)

Loops  == [pc : LoopPCs, todo : SUBSET Digests, cur : Digests \cup {None},
           n : Sub0, orphans : SUBSET Runs, busy : BOOLEAN]
Jobs   == [pc : WorkPCs, d : Digests \cup {None}, n : Sub0, canceled : BOOLEAN,
           st : {"ran", "canceled", "failed"}]
Drains == [pc : {"off", "list", "next", "post"}, todo : SUBSET Spools,
           cur : Spools \cup {NoArt}]
Disks  == [pending : SUBSET Spools, refused : SUBSET Spools]
Nets   == [circuit : BOOLEAN, backoff : SUBSET Spools, lost : 0 .. MaxLost, deaths : 0 .. MaxDeaths]
Hists  == [subs : [Digests -> Sub0], started : SUBSET Runs, published : SUBSET Runs]

Booting == {"down", "b_drain", "b_jobs", "b_orphans"}

LoopShape(l) ==
    /\ l.pc = "stale" => l.cur \in Digests
    /\ l.pc = "transfer" => l.cur \in Digests /\ l.n \in Subs
    /\ l.orphans # {} => l.pc = "b_orphans"

WorkShape(k) ==
    /\ k.pc # "free" => k.n \in Subs
    /\ k.pc \in {"run", "pop"} => k.d \in Digests

DrainShape(x) == x.pc = "post" => x.cur \in Spools

Shape ==
    /\ LoopShape(loop)
    /\ loop.pc \in Booting => \A w \in Workers : work[w].pc = "free"
    /\ \A w \in Workers : WorkShape(work[w])
    /\ \A p \in Drainers : DrainShape(drain[p])
    /\ \A q \in late : q.op \in LateOps

Good == TypeOK /\ Shape

\* The types one by one.
LEMMA Typed ==
  TypeOK <=> /\ store \in Directory /\ late \subseteq Requests /\ loop \in Loops
             /\ work \in [Workers -> Jobs] /\ active \in [Digests -> Workers \cup {None}]
             /\ signaled \subseteq Digests /\ wasBusy \in BOOLEAN
             /\ drain \in [Drainers -> Drains] /\ disk \in Disks /\ net \in Nets /\ hist \in Hists
  BY DEF TypeOK, Loops, Jobs, Drains, Disks, Nets, Hists

\* The same of the next state.
LEMMA TypedNext ==
  TypeOK' <=> /\ store' \in Directory /\ late' \subseteq Requests /\ loop' \in Loops
              /\ work' \in [Workers -> Jobs] /\ active' \in [Digests -> Workers \cup {None}]
              /\ signaled' \subseteq Digests /\ wasBusy' \in BOOLEAN
              /\ drain' \in [Drainers -> Drains] /\ disk' \in Disks /\ net' \in Nets
              /\ hist' \in Hists
  BY DEF TypeOK, Loops, Jobs, Drains, Disks, Nets, Hists

\* A fresh position of the loop,
LEMMA AtTyped ==
  ASSUME NEW pc \in LoopPCs
  PROVE  /\ AtPC(pc) \in Loops /\ AtPC(pc).pc = pc /\ AtPC(pc).orphans = {}
         /\ pc \notin {"stale", "transfer"} => LoopShape(AtPC(pc))
  BY Values DEF AtPC, Loops, LoopShape

\* an idle worker,
LEMMA IdleTyped == Idle \in Jobs /\ Idle.pc = "free" /\ WorkShape(Idle)
  BY Values DEF Idle, Jobs, WorkPCs, WorkShape

\* a drain that is off.
LEMMA OffTyped == NoDrain \in Drains /\ NoDrain.pc = "off" /\ DrainShape(NoDrain)
  BY DEF NoDrain, Drains, DrainShape

\* A step that leaves the poller alone.
LEMMA StoreTyped ==
  ASSUME Good, store' \in Directory, late' \subseteq late, UNCHANGED <<procVars, disk>>,
         net' \in Nets, hist' \in Hists
  PROVE  Good'
<1>1. TypeOK'
  BY Typed, TypedNext DEF Good, procVars
<1>2. Shape'
  BY DEF Good, Shape, procVars
<1> QED BY <1>1, <1>2 DEF Good

\* What serving a request of the poller does.
LEMMA ServeTyped ==
  ASSUME store \in Directory, NEW r \in Requests
  PROVE  /\ Serve(store, r) \in Directory
         /\ r.op # "rollback" => Sheds(store, Serve(store, r))
         /\ r.op = "upload" /\ Accepts(r.a) => r.a \in Artefact /\ <<r.a.d, r.a.n>> \in Runs
<1>1. CASE r.op = "stale"
  <2>1. r.d \in Digests /\ Serve(store, r) = ResolveStaleCancel(store, r.d)
    BY <1>1 DEF Requests, Serve
  <2> QED BY <1>1, <2>1, ResolveSheds
<1>2. CASE r.op = "rollback"
  <2>1. r.d \in Digests /\ Serve(store, r) = Rollback(store, r.d)
    BY <1>2 DEF Requests, Serve
  <2> QED BY <1>2, <2>1, PlanMoves
<1>3. CASE r.op = "push"
  <2>1. r.snap \in SUBSET Digests /\ Serve(store, r) = ReceiveInflight(store, r.snap)
    BY <1>3 DEF Requests, Serve
  <2> QED BY <1>3, <2>1, ReceiveSheds DEF Sheds
<1>4. CASE r.op = "upload"
  <2>1. r.a \in Spools
    BY <1>4 DEF Requests
  <2>2. Accepts(r.a) => r.a \in Artefact /\ <<r.a.d, r.a.n>> \in Runs
    BY <2>1 DEF Accepts, Spools, Artefact, Runs
  <2>3. Serve(store, r) = IF Accepts(r.a) THEN StoreArtefact(store, r.a) ELSE store
    BY <1>4 DEF Serve
  <2> QED BY <1>4, <2>2, <2>3, StoreSheds DEF Sheds
<1> QED BY <1>1, <1>2, <1>3, <1>4 DEF Requests

\* A run is published.
LEMMA PublishTyped ==
  ASSUME hist \in Hists, NEW a, <<a.d, a.n>> \in Runs
  PROVE  /\ Publish(a) \in Hists /\ Publish(a).published = hist.published \cup {<<a.d, a.n>>}
         /\ Publish(a).subs = hist.subs /\ Publish(a).started = hist.started
  BY DEF Publish, Hists

\* A submission that is accepted and a deletion, whoever asks for them.
Plans(d) ==
    /\ hist.subs[d] < MaxSubs /\ ~Refuses(store, d)
    /\ UserStep(QueueJob(store, d, hist.subs[d] + 1))
    /\ hist' = [hist EXCEPT !.subs[d] = @ + 1]

Deletes(d, wholeJob) == UserStep(DeleteOutputs(store, d, wholeJob)) /\ UNCHANGED hist

\* A submission leaves the types in order,
LEMMA PlansTyped ==
  ASSUME Good, NEW d \in Digests, Plans(d)
  PROVE  Good'
<1>1. store \in Directory /\ hist \in Hists /\ net \in Nets
  BY Typed DEF Good
<1>2. hist.subs[d] + 1 \in Subs
  BY <1>1, Values DEF Plans, Hists
<1>3. store' \in Directory
  BY <1>1, <1>2, QueueMoves DEF Plans, UserStep
<1>4. hist' \in Hists
  BY <1>1, <1>2, Values DEF Plans, Hists
<1> QED BY <1>1, <1>3, <1>4, StoreTyped DEF Plans, UserStep

\* so does a deletion,
LEMMA DeletesTyped ==
  ASSUME Good, NEW d \in Digests, NEW wholeJob \in BOOLEAN, Deletes(d, wholeJob)
  PROVE  Good'
<1>1. store \in Directory /\ hist \in Hists /\ net \in Nets
  BY Typed DEF Good
<1> QED BY <1>1, DeleteSheds, StoreTyped DEF Deletes, UserStep

\* Users, and time.
LEMMA UsersTyped ==
  ASSUME Good, Users
  PROVE  Good'
<1> USE DEF Good
<1>1. store \in Directory /\ hist \in Hists /\ net \in Nets
  BY Typed
<1>2. ASSUME NEW d \in Digests, Submit(d) PROVE Good'
  BY <1>2, PlansTyped DEF Submit, Plans
<1>3. ASSUME NEW d \in Digests, Cancel(d) PROVE Good'
  BY <1>1, <1>3, CancelSheds, StoreTyped DEF Cancel, UserStep
<1>4. ASSUME NEW d \in Digests, NEW wholeJob \in BOOLEAN, Delete(d, wholeJob) PROVE Good'
  BY <1>4, DeletesTyped DEF Delete, Deletes
<1>5. CASE PruneStaleJobs
  BY <1>1, <1>5, PruneSheds, StoreTyped DEF PruneStaleJobs, UserStep
<1>6. CASE WipeAllJobs
  BY <1>1, <1>6, WipeSheds, StoreTyped DEF WipeAllJobs, UserStep
<1> QED BY <1>2, <1>3, <1>4, <1>5, <1>6 DEF Users

\* so does what time brings,
LEMMA TimeTyped ==
  ASSUME Good, Time
  PROVE  Good'
<1> USE DEF Good
<1>1. store \in Directory /\ hist \in Hists /\ net \in Nets /\ late \subseteq Requests
  BY Typed
<1>2. ASSUME NEW d \in Digests, Age(d) PROVE Good'
  BY <1>1, <1>2, AgeSheds, StoreTyped DEF Age
<1>3. ASSUME NEW d \in Digests, MarkerExpires(d) PROVE Good'
  BY <1>1, <1>3, AgeSheds, StoreTyped DEF MarkerExpires
<1>4. CASE InflightStales
  <2>1. store' \in Directory
    BY <1>1, <1>4 DEF InflightStales, Directory
  <2> QED BY <1>1, <1>4, <2>1, StoreTyped DEF InflightStales
<1>5. CASE CircuitCloses
  <2>1. net' \in Nets
    BY <1>1, <1>5 DEF CircuitCloses, Nets
  <2> QED BY <1>1, <1>5, <2>1, StoreTyped DEF CircuitCloses
<1>6. ASSUME NEW a \in net.backoff, BackoffEnds(a) PROVE Good'
  <2>1. net' \in Nets
    BY <1>1, <1>6 DEF BackoffEnds, Nets
  <2> QED BY <1>1, <1>6, <2>1, StoreTyped DEF BackoffEnds
<1>7. ASSUME NEW r \in late, ServeLate(r) PROVE Good'
  <2>1. store' \in Directory
    BY <1>1, <1>7, ServeTyped DEF ServeLate
  <2>2. hist' \in Hists
    BY <1>1, <1>7, ServeTyped, PublishTyped DEF ServeLate
  <2> QED BY <1>1, <1>7, <2>1, <2>2, StoreTyped DEF ServeLate
<1> QED BY <1>2, <1>3, <1>4, <1>5, <1>6, <1>7 DEF Time

\* A step of the main thread that leaves the workers and the drains alone.
LEMMA LoopTyped ==
  ASSUME Good, loop' \in Loops, LoopShape(loop'), loop'.pc \in Booting => loop.pc \in Booting,
         store' \in Directory, late' \subseteq Requests, \A q \in late' : q.op \in LateOps,
         signaled' \subseteq Digests, wasBusy' \in BOOLEAN, net' \in Nets,
         UNCHANGED <<work, active, drain, disk, hist>>
  PROVE  Good'
<1>1. TypeOK'
  BY Typed, TypedNext DEF Good
<1>2. Shape'
  BY DEF Good, Shape
<1> QED BY <1>1, <1>2 DEF Good

\* A worker told to stop is where it was.
LEMMA ToldTyped ==
  ASSUME NEW j \in Jobs
  PROVE  /\ [j EXCEPT !.canceled = TRUE] \in Jobs
         /\ [j EXCEPT !.canceled = TRUE].pc = j.pc /\ [j EXCEPT !.canceled = TRUE].n = j.n
         /\ [j EXCEPT !.canceled = TRUE].d = j.d
  BY DEF Jobs

\* Where the running loop goes on.
LEMMA TickTyped ==
  ASSUME NEW pc \in {"cancels", "publish", "plan", "i_wait", "i_drain", "snap", "signal", "push"}
  PROVE  /\ AtPC(pc) \in Loops /\ LoopShape(AtPC(pc)) /\ AtPC(pc).pc \notin Booting
         /\ AtPC(pc).pc # "transfer" /\ AtPC(pc).orphans = {}
<1>1. pc \in LoopPCs
  BY DEF LoopPCs
<1> QED BY <1>1, AtTyped DEF Booting

\* A failed request is counted and may be left to be served.
LEMMA LostTyped ==
  ASSUME net \in Nets, net.lost < MaxLost
  PROVE  [net EXCEPT !.lost = @ + 1] \in Nets /\ [net EXCEPT !.lost = @ + 1, !.circuit = TRUE] \in Nets
<1>1. net.lost + 1 \in 0 .. MaxLost
  BY SystemAssumption DEF Nets
<1> QED BY <1>1 DEF Nets

\* A request that fails, and may be served late, leaves the types in order.
LEMMA FailTyped ==
  ASSUME Good, NEW r \in Requests, Fail(r), Lost \/ LostOpen
  PROVE  /\ store' = store /\ late' \subseteq late \cup {r} /\ late' \subseteq Requests
         /\ \A q \in late' : q.op \in LateOps
         /\ net' \in Nets
<1>1. net \in Nets /\ late \subseteq Requests /\ net.lost < MaxLost
  BY Typed DEF Good, Fail
<1>2. net' \in Nets
  BY <1>1, LostTyped DEF Lost, LostOpen
<1>3. store' = store /\ late' \subseteq late \cup {r}
  BY DEF Fail
<1>4. late' = late \/ r.op \in LateOps
  BY DEF Fail
<1>5. \A q \in late : q.op \in LateOps
  BY DEF Good, Shape
<1>6. \A q \in late' : q.op \in LateOps
  BY <1>3, <1>4, <1>5
<1> QED BY <1>1, <1>2, <1>3, <1>6

\* The steps of a tick up to the pickup.
LEMMA CancelsTyped ==
  ASSUME Good,
         \/ PullCancelMarkers \/ PullCancelsFails \/ PostStale
         \/ \E d \in Digests : SkipSignaled(d) \/ SignalCancel(d) \/ NoLiveSession(d)
  PROVE  Good'
<1> USE DEF Good
<1>1. /\ store \in Directory /\ late \subseteq Requests /\ loop \in Loops /\ signaled \subseteq Digests
      /\ wasBusy \in BOOLEAN /\ net \in Nets /\ \A q \in late : q.op \in LateOps
  BY Typed DEF Shape
<1>2. "signal" \in LoopPCs
  BY DEF LoopPCs
<1>3. ASSUME NEW todo \in SUBSET Digests
      PROVE  /\ [AtPC("signal") EXCEPT !.todo = todo] \in Loops
             /\ LoopShape([AtPC("signal") EXCEPT !.todo = todo])
             /\ [AtPC("signal") EXCEPT !.todo = todo].pc = "signal"
  BY <1>2, Values DEF AtPC, Loops, LoopShape
<1>4. ASSUME NEW d \in Digests
      PROVE  NextMarker(d) \in Loops /\ LoopShape(NextMarker(d)) /\ NextMarker(d).pc \notin Booting
  <2>1. loop.todo \ {d} \in SUBSET Digests
    BY <1>1 DEF Loops
  <2>2. /\ AtPC("publish") \in Loops /\ LoopShape(AtPC("publish"))
        /\ AtPC("publish").pc \notin Booting
    BY TickTyped
  <2> QED BY <1>3, <2>1, <2>2 DEF NextMarker, Booting
<1>5. CASE PullCancelMarkers
  <2>1. store' \in Directory /\ LiveMarkers(store) \in SUBSET Digests
    BY <1>1, <1>5, PullSheds DEF PullCancelMarkers, LiveMarkers
  <2>2. loop' \in Loops /\ LoopShape(loop') /\ loop'.pc \notin Booting
    BY <1>2, <1>3, <1>5, <2>1, TickTyped DEF PullCancelMarkers, Booting
  <2>3. signaled' \subseteq Digests
    BY <1>1, <1>5 DEF PullCancelMarkers
  <2>4. TypeOK'
    BY <1>5, <2>1, <2>2, <2>3, Typed, TypedNext DEF PullCancelMarkers
  <2> QED BY <1>5, <2>2, <2>4 DEF PullCancelMarkers, Shape
<1>6. CASE PullCancelsFails
  <2>1. loop' \in Loops /\ LoopShape(loop') /\ loop'.pc \notin Booting
    BY <1>6, TickTyped DEF PullCancelsFails
  <2>2. net' \in Nets
    BY <1>1, <1>6, LostTyped DEF PullCancelsFails, Lost
  <2> QED BY <1>1, <1>6, <2>1, <2>2, LoopTyped DEF PullCancelsFails
<1>7. CASE PostStale
  <2> DEFINE r == [op |-> "stale", d |-> loop.cur]
  <2>1. loop.cur \in Digests /\ r \in Requests /\ r.op = "stale"
    BY <1>7 DEF PostStale, Main, Shape, LoopShape, Requests
  <2>2. /\ store' \in Directory /\ late' \subseteq Requests /\ net' \in Nets
        /\ \A q \in late' : q.op \in LateOps
    <3>1. CASE store' = Serve(store, r) /\ UNCHANGED <<late, net>>
      BY <1>1, <2>1, <3>1, ServeTyped
    <3>2. CASE Fail(r) /\ Lost
      BY <1>1, <2>1, <3>2, FailTyped
    <3> QED BY <1>7, <3>1, <3>2 DEF PostStale
  <2>3. loop' \in Loops /\ LoopShape(loop') /\ loop'.pc \notin Booting
    BY <1>4, <1>7, <2>1 DEF PostStale
  <2>4. TypeOK'
    BY <1>7, <2>2, <2>3, Typed, TypedNext DEF PostStale
  <2> QED BY <1>7, <2>2, <2>3, <2>4 DEF PostStale, Shape
<1>8. ASSUME NEW d \in Digests, SkipSignaled(d) PROVE Good'
  <2>1. loop' \in Loops /\ LoopShape(loop') /\ loop'.pc \notin Booting
    BY <1>4, <1>8 DEF SkipSignaled
  <2>2. TypeOK'
    BY <1>8, <2>1, Typed, TypedNext DEF SkipSignaled
  <2> QED BY <1>8, <2>1, <2>2 DEF SkipSignaled, Shape
<1>9. ASSUME NEW d \in Digests, SignalCancel(d) PROVE Good'
  <2>1. loop' \in Loops /\ LoopShape(loop') /\ loop'.pc \notin Booting
    BY <1>4, <1>9 DEF SignalCancel
  <2>2. active[d] \in Workers /\ work \in [Workers -> Jobs]
    BY <1>9, Typed DEF SignalCancel
  <2>3. /\ work' \in [Workers -> Jobs]
        /\ \A w \in Workers : /\ work'[w].pc = work[w].pc /\ work'[w].n = work[w].n
                              /\ work'[w].d = work[w].d
    <3> HIDE DEF Jobs
    <3>1. work' = [work EXCEPT ![active[d]] = [work[active[d]] EXCEPT !.canceled = TRUE]]
      BY <1>9 DEF SignalCancel
    <3>2. \A w \in Workers : work[w] \in Jobs
      BY <2>2
    <3>3. \A w \in Workers : work'[w] \in {work[w], [work[w] EXCEPT !.canceled = TRUE]}
      BY <2>2, <3>1
    <3>4. \A w \in Workers : /\ work'[w] \in Jobs
                             /\ work'[w].pc = work[w].pc /\ work'[w].n = work[w].n
                             /\ work'[w].d = work[w].d
      BY <3>2, <3>3, ToldTyped
    <3> QED BY <2>2, <3>1, <3>4
  <2>4. TypeOK'
    BY <1>9, <2>1, <2>3, Typed, TypedNext DEF SignalCancel
  <2> QED BY <1>9, <2>1, <2>3, <2>4 DEF SignalCancel, Shape, WorkShape
<1>10. ASSUME NEW d \in Digests, NoLiveSession(d) PROVE Good'
  <2>1. loop' \in Loops /\ LoopShape(loop') /\ loop'.pc \notin Booting
    BY <1>1, <1>10 DEF NoLiveSession, Loops, LoopPCs, LoopShape, Booting, Shape, Main
  <2>2. TypeOK'
    BY <1>10, <2>1, Typed, TypedNext DEF NoLiveSession
  <2> QED BY <1>10, <2>1, <2>2 DEF NoLiveSession, Shape
<1> QED BY <1>5, <1>6, <1>7, <1>8, <1>9, <1>10

\* From the push to the pickup.
LEMMA PushTyped ==
  ASSUME Good,
         \/ KickAndLook \/ TakeSnapshot \/ PushInflight \/ PushSkipped
         \/ NothingToDo \/ GetPlanFails \/ \E d \in Digests : ClaimPlan(d)
  PROVE  Good'
<1> USE DEF Good
<1>1. /\ store \in Directory /\ late \subseteq Requests /\ loop \in Loops /\ signaled \subseteq Digests
      /\ wasBusy \in BOOLEAN /\ net \in Nets /\ \A q \in late : q.op \in LateOps
      /\ drain \in [Drainers -> Drains]
  BY Typed DEF Shape
<1>2. CASE KickAndLook
  <2>1. [AtPC("snap") EXCEPT !.busy = \E d \in Digests : active[d] # None] \in Loops
    BY TickTyped DEF Loops
  <2>2. loop' \in Loops /\ LoopShape(loop') /\ loop'.pc = "snap"
    BY <1>2, <2>1 DEF KickAndLook, AtPC, LoopShape
  <2>3. /\ drain' \in [Drainers -> Drains]
        /\ \A p \in Drainers : drain'[p] = drain[p] \/ drain'[p].pc = "list"
    BY <1>1, <1>2 DEF KickAndLook, Drains
  <2>4. TypeOK'
    BY <1>2, <2>2, <2>3, Typed, TypedNext DEF KickAndLook
  <2>5. \A p \in Drainers : DrainShape(drain'[p])
    BY <2>3 DEF DrainShape, Shape
  <2> QED BY <1>2, <2>2, <2>4, <2>5 DEF KickAndLook, Shape, Booting
<1>3. CASE TakeSnapshot
  <2>1. loop.orphans = {}
    BY <1>3 DEF TakeSnapshot, Main, Shape, LoopShape
  <2>2. {d \in Digests : active[d] # None} \in SUBSET Digests /\ "push" \in LoopPCs
    BY DEF LoopPCs
  <2>3. CASE loop.busy \/ wasBusy
    <3>1. loop' = [loop EXCEPT !.pc = "push", !.todo = {d \in Digests : active[d] # None}]
      BY <1>3, <2>3 DEF TakeSnapshot
    <3>2. loop' \in Loops /\ LoopShape(loop') /\ loop'.pc \notin Booting
      BY <1>1, <2>1, <2>2, <3>1 DEF Loops, LoopShape, Booting
    <3> QED BY <1>1, <1>3, <2>3, <3>2, LoopTyped DEF TakeSnapshot
  <2>4. CASE ~(loop.busy \/ wasBusy)
    <3>1. loop' \in Loops /\ LoopShape(loop') /\ loop'.pc \notin Booting /\ wasBusy' \in BOOLEAN
      BY <1>3, <2>4, TickTyped DEF TakeSnapshot
    <3> QED BY <1>1, <1>3, <3>1, LoopTyped DEF TakeSnapshot
  <2> QED BY <2>3, <2>4
<1>4. CASE PushInflight
  <2> DEFINE r == [op |-> "push", snap |-> loop.todo]
  <2>1. r \in Requests /\ r.op = "push" /\ loop.busy \in BOOLEAN
    BY <1>1 DEF Loops, Requests
  <2>2. loop' \in Loops /\ LoopShape(loop') /\ loop'.pc \notin Booting
    BY <1>4, TickTyped DEF PushInflight
  <2>3. /\ store' \in Directory /\ late' \subseteq Requests /\ net' \in Nets /\ wasBusy' \in BOOLEAN
        /\ \A q \in late' : q.op \in LateOps
    <3>1. CASE store' = Serve(store, r) /\ wasBusy' = loop.busy /\ UNCHANGED <<late, net>>
      BY <1>1, <2>1, <3>1, ServeTyped
    <3>2. CASE Fail(r) /\ LostOpen /\ UNCHANGED wasBusy
      BY <1>1, <2>1, <3>2, FailTyped
    <3> QED BY <1>4, <3>1, <3>2 DEF PushInflight
  <2> QED BY <1>1, <1>4, <2>2, <2>3, LoopTyped DEF PushInflight
<1>5. CASE PushSkipped
  <2>1. loop' \in Loops /\ LoopShape(loop') /\ loop'.pc \notin Booting
    BY <1>5, TickTyped DEF PushSkipped
  <2> QED BY <1>1, <1>5, <2>1, LoopTyped DEF PushSkipped
<1>6. CASE NothingToDo
  <2>1. loop' \in Loops /\ LoopShape(loop') /\ loop'.pc \notin Booting
    BY <1>6, TickTyped DEF NothingToDo
  <2> QED BY <1>1, <1>6, <2>1, LoopTyped DEF NothingToDo
<1>7. CASE GetPlanFails
  <2>1. loop' \in Loops /\ LoopShape(loop') /\ loop'.pc \notin Booting
    BY <1>7, TickTyped DEF GetPlanFails
  <2>2. net' \in Nets
    BY <1>1, <1>7, LostTyped DEF GetPlanFails, Lost
  <2> QED BY <1>1, <1>7, <2>1, <2>2, LoopTyped DEF GetPlanFails
<1>8. ASSUME NEW d \in Digests, ClaimPlan(d) PROVE Good'
  <2>1. store.inputs[d].n \in Subs
    BY <1>1, <1>8, Values DEF ClaimPlan, Queued, Directory, PlanFile
  <2>2. "transfer" \in LoopPCs
    BY DEF LoopPCs
  <2>3. loop' = [AtPC("transfer") EXCEPT !.cur = d, !.n = store.inputs[d].n]
    BY <1>8 DEF ClaimPlan
  <2>4. loop' \in Loops /\ LoopShape(loop') /\ loop'.pc \notin Booting
    BY <2>1, <2>2, <2>3, Values DEF AtPC, Loops, LoopShape, Booting
  <2>5. store' \in Directory
    BY <1>1, <1>8, PlanMoves DEF ClaimPlan
  <2> QED BY <1>1, <1>8, <2>4, <2>5, LoopTyped DEF ClaimPlan
<1> QED BY <1>2, <1>3, <1>4, <1>5, <1>6, <1>7, <1>8

\* A plan whose transfer fails.
LEMMA CutTyped ==
  ASSUME Good, Main("transfer"), TransferCut
  PROVE  /\ store' \in Directory /\ late' \subseteq Requests /\ \A q \in late' : q.op \in LateOps
         /\ late' \subseteq late \cup {[op |-> "rollback", d |-> loop.cur]}
<1> DEFINE r == [op |-> "rollback", d |-> loop.cur]
<1>1. store \in Directory /\ late \subseteq Requests /\ \A q \in late : q.op \in LateOps
  BY Typed DEF Good, Shape
<1>2. loop.cur \in Digests
  BY DEF Good, Shape, LoopShape, Main
<1>3. r \in Requests /\ r.op = "rollback"
  BY <1>2 DEF Requests
<1>4. store' \in Directory
  BY <1>1, <1>2, PlanMoves DEF TransferCut
<1>5. late' \subseteq late \cup {r}
  BY DEF TransferCut
<1>6. late' = late \/ "rollback" \in LateOps
  BY DEF TransferCut
<1> QED BY <1>1, <1>3, <1>4, <1>5, <1>6

\* A step that gives one worker its next place.
LEMMA WorkTyped ==
  ASSUME Good, NEW w \in Workers, NEW k \in Jobs, work' = [work EXCEPT ![w] = k], WorkShape(k),
         work[w].pc = "free" => loop'.pc \notin Booting,
         loop' \in Loops, LoopShape(loop'), loop'.pc \in Booting => loop.pc \in Booting,
         store' \in Directory, late' \subseteq Requests, \A q \in late' : q.op \in LateOps,
         active' \in [Digests -> Workers \cup {None}], disk' \in Disks, net' \in Nets, hist' \in Hists,
         UNCHANGED <<signaled, wasBusy, drain>>
  PROVE  Good'
<1>1. work \in [Workers -> Jobs]
  BY Typed DEF Good
<1>2. work' \in [Workers -> Jobs]
  BY <1>1
<1>3. TypeOK'
  BY <1>2, Typed, TypedNext DEF Good
<1>4. \A v \in Workers : WorkShape(work'[v])
  BY <1>1 DEF Good, Shape
<1>5. loop'.pc \in Booting => \A v \in Workers : work'[v].pc = "free"
  BY <1>1 DEF Good, Shape
<1> QED BY <1>3, <1>4, <1>5 DEF Good, Shape

\* A plan reaches a worker, or its transfer fails.
LEMMA TransferTyped ==
  ASSUME Good,
         TransferFails \/ \E w \in Workers : PlanDelivered(w) \/ TransferTruncated(w)
  PROVE  Good'
<1>1. /\ store \in Directory /\ late \subseteq Requests /\ loop \in Loops /\ signaled \subseteq Digests
      /\ wasBusy \in BOOLEAN /\ net \in Nets /\ \A q \in late : q.op \in LateOps
      /\ active \in [Digests -> Workers \cup {None}] /\ disk \in Disks /\ hist \in Hists
  BY Typed DEF Good, Shape
<1>2. /\ Main("transfer") /\ loop.cur \in Digests /\ loop.n \in Subs /\ loop.n \in Sub0
      /\ loop.pc \notin Booting
  BY Values DEF Good, Shape, LoopShape, Main, TransferFails, PlanDelivered, TransferTruncated, Booting
<1>3. ASSUME NEW d \in Digests \cup {None}, NEW k,
             k = [Idle EXCEPT !.pc = "load", !.d = d, !.n = loop.n]
      PROVE  k \in Jobs /\ WorkShape(k)
  BY <1>2, <1>3 DEF Idle, Jobs, WorkPCs, WorkShape
<1>4. AtPC("cancels") \in Loops /\ LoopShape(AtPC("cancels")) /\ AtPC("cancels").pc \notin Booting
  BY TickTyped
<1>5. CASE TransferFails
  <2>1. net' \in Nets
    BY <1>1, <1>5, LostTyped DEF TransferFails, Lost
  <2>2. loop' \in Loops /\ LoopShape(loop') /\ loop'.pc \notin Booting
    BY <1>4, <1>5 DEF TransferFails
  <2>3. TransferCut
    BY <1>5 DEF TransferFails
  <2> QED BY <1>1, <1>2, <1>5, <2>1, <2>2, <2>3, LoopTyped, CutTyped DEF TransferFails
<1>6. ASSUME NEW w \in Workers, PlanDelivered(w) PROVE Good'
  <2> DEFINE k == [Idle EXCEPT !.pc = "load", !.d = loop.cur, !.n = loop.n]
  <2>1. k \in Jobs /\ WorkShape(k) /\ work' = [work EXCEPT ![w] = k]
    BY <1>2, <1>3, <1>6 DEF PlanDelivered, Spawn
  <2>2. loop' \in Loops /\ LoopShape(loop') /\ loop'.pc \notin Booting
    BY <1>4, <1>6 DEF PlanDelivered, Spawn
  <2>3. hist' \in Hists
    BY <1>1, <1>2, <1>6 DEF PlanDelivered, Hists, Runs
  <2> HIDE DEF k
  <2> QED BY <1>1, <1>6, <2>1, <2>2, <2>3, WorkTyped DEF PlanDelivered
<1>7. ASSUME NEW w \in Workers, TransferTruncated(w) PROVE Good'
  <2> DEFINE k == [Idle EXCEPT !.pc = "load", !.d = None, !.n = loop.n]
  <2>1. k \in Jobs /\ WorkShape(k) /\ work' = [work EXCEPT ![w] = k]
    BY <1>3, <1>7 DEF TransferTruncated, Spawn
  <2>2. loop' \in Loops /\ LoopShape(loop') /\ loop'.pc \notin Booting
    BY <1>4, <1>7 DEF TransferTruncated, Spawn
  <2>3. net' \in Nets
    BY <1>1, <1>7, LostTyped DEF TransferTruncated, Lost
  <2>4. TransferCut
    BY <1>7 DEF TransferTruncated
  <2> HIDE DEF k
  <2> QED BY <1>1, <1>2, <1>7, <2>1, <2>2, <2>3, <2>4, WorkTyped, CutTyped DEF TransferTruncated
<1> QED BY <1>5, <1>6, <1>7

\* A worker thread goes on.
LEMMA WorkersTyped ==
  ASSUME Good, NEW w \in Workers, WorkStep(w)
  PROVE  Good'
<1>1. /\ store \in Directory /\ late \subseteq Requests /\ loop \in Loops /\ work[w] \in Jobs
      /\ net \in Nets /\ hist \in Hists /\ \A q \in late : q.op \in LateOps
      /\ active \in [Digests -> Workers \cup {None}] /\ disk \in Disks
      /\ LoopShape(loop) /\ WorkShape(work[w])
  BY Typed DEF Good, Shape
<1>2. ASSUME NEW k \in Jobs, WorkShape(k), work' = [work EXCEPT ![w] = k], work[w].pc # "free",
             active' \in [Digests -> Workers \cup {None}], disk' \in Disks, Worker(w)
      PROVE  Good'
  <2>1. UNCHANGED <<store, late, loop, signaled, wasBusy, drain, net, hist>>
    BY <1>2 DEF Worker
  <2>2. /\ loop' \in Loops /\ LoopShape(loop') /\ store' \in Directory /\ late' \subseteq Requests
        /\ \A q \in late' : q.op \in LateOps
        /\ net' \in Nets /\ hist' \in Hists
        /\ loop'.pc \in Booting => loop.pc \in Booting
    BY <1>1, <2>1
  <2> QED BY <1>2, <2>1, <2>2, WorkTyped
<1>3. CASE Reject(w)
  <2> DEFINE k == [work[w] EXCEPT !.pc = "spool", !.st = "failed"]
  <2>1. k \in Jobs /\ WorkShape(k) /\ work' = [work EXCEPT ![w] = k] /\ work[w].pc # "free"
    BY <1>1, <1>3, Typed DEF Reject, Jobs, WorkPCs, WorkShape, Good
  <2> HIDE DEF k
  <2> QED BY <1>1, <1>2, <1>3, <2>1 DEF Reject
<1>4. CASE Register(w)
  <2> DEFINE k == [work[w] EXCEPT !.pc = "run"]
  <2>1. k \in Jobs /\ WorkShape(k) /\ work' = [work EXCEPT ![w] = k] /\ work[w].pc # "free"
    BY <1>1, <1>4, Typed DEF Register, Jobs, WorkPCs, WorkShape, Good
  <2>2. active' \in [Digests -> Workers \cup {None}]
    BY <1>1, <1>4 DEF Register
  <2> HIDE DEF k
  <2> QED BY <1>1, <1>2, <1>4, <2>1, <2>2 DEF Register
<1>5. CASE Pack(w)
  <2> DEFINE k == [work[w] EXCEPT !.pc = "pop",
                     !.st = IF work[w].canceled THEN "canceled" ELSE "ran"]
  <2>1. k \in Jobs /\ WorkShape(k) /\ work' = [work EXCEPT ![w] = k] /\ work[w].pc # "free"
    BY <1>1, <1>5, Typed DEF Pack, Jobs, WorkPCs, WorkShape, Good
  <2> HIDE DEF k
  <2> QED BY <1>1, <1>2, <1>5, <2>1 DEF Pack
<1>6. CASE Pop(w)
  <2> DEFINE k == [work[w] EXCEPT !.pc = "spool"]
  <2>1. k \in Jobs /\ WorkShape(k) /\ work' = [work EXCEPT ![w] = k] /\ work[w].pc # "free"
    BY <1>1, <1>6, Typed DEF Pop, Jobs, WorkPCs, WorkShape, Good
  <2>2. active' \in [Digests -> Workers \cup {None}]
    BY <1>1, <1>6 DEF Pop
  <2> HIDE DEF k
  <2> QED BY <1>1, <1>2, <1>6, <2>1, <2>2 DEF Pop
<1>7. CASE Spool(w)
  <2>1. Result(w) \in Spools
    BY <1>1, <1>7 DEF Spool, Result, Jobs, WorkShape, Spools
  <2>2. disk' \in Disks
    BY <1>1, <1>7, <2>1 DEF Spool, Disks
  <2> QED BY <1>1, <1>2, <1>7, <2>2, IdleTyped DEF Spool
<1> QED BY <1>3, <1>4, <1>5, <1>6, <1>7 DEF WorkStep

\* A step that gives one drain its next place.
LEMMA DrainTyped ==
  ASSUME Good, NEW p \in Drainers, NEW x \in Drains, drain' = [drain EXCEPT ![p] = x], DrainShape(x),
         loop' \in Loops, LoopShape(loop'), loop'.pc \in Booting => loop.pc \in Booting,
         store' \in Directory, late' \subseteq Requests, \A q \in late' : q.op \in LateOps,
         disk' \in Disks, net' \in Nets, hist' \in Hists,
         UNCHANGED <<work, active, signaled, wasBusy>>
  PROVE  Good'
<1>1. drain \in [Drainers -> Drains]
  BY Typed DEF Good
<1>2. drain' \in [Drainers -> Drains]
  BY <1>1
<1>3. TypeOK'
  BY <1>2, Typed, TypedNext DEF Good
<1>4. \A q \in Drainers : DrainShape(drain'[q])
  BY <1>1 DEF Good, Shape
<1> QED BY <1>3, <1>4 DEF Good, Shape

\* The upload a drain is at.
LEMMA PostTyped ==
  ASSUME Good, NEW p \in Drainers, Drain(p, "post")
  PROVE  /\ drain[p].cur \in Spools
         /\ Accepts(drain[p].cur) => /\ drain[p].cur \in Artefact
                                     /\ <<drain[p].cur.d, drain[p].cur.n>> \in Runs
<1>1. drain[p].cur \in Spools
  BY DEF Good, Shape, DrainShape, Drain
<1> QED BY <1>1 DEF Accepts, Spools, Artefact, Runs

\* A drain goes on.
LEMMA DrainsTyped ==
  ASSUME Good, NEW p \in Drainers, DrainStep(p) \/ UploadFails(p)
  PROVE  Good'
<1>1. /\ store \in Directory /\ late \subseteq Requests /\ loop \in Loops /\ LoopShape(loop)
      /\ disk \in Disks /\ net \in Nets /\ hist \in Hists /\ drain \in [Drainers -> Drains]
      /\ \A q \in late : q.op \in LateOps
  BY Typed DEF Good, Shape
<1>2. drain[p] \in Drains
  BY <1>1
<1>3. CASE ListPending(p)
  <2> DEFINE x == [NoDrain EXCEPT !.pc = "next", !.todo = IF net.circuit THEN {} ELSE disk.pending]
  <2>1. x \in Drains /\ DrainShape(x)
    BY <1>1, OffTyped DEF Drains, Disks, DrainShape, NoDrain
  <2>2. drain' = [drain EXCEPT ![p] = x]
    BY <1>3 DEF ListPending
  <2> HIDE DEF x
  <2> QED BY <1>1, <1>3, <2>1, <2>2, DrainTyped DEF ListPending
<1>4. CASE DrainDone(p)
  BY <1>1, <1>4, OffTyped, DrainTyped DEF DrainDone
<1>5. ASSUME NEW a \in drain[p].todo, OpenSpool(p, a) PROVE Good'
  <2> DEFINE skip == a \in net.backoff \/ a \notin disk.pending
             x == [drain[p] EXCEPT !.todo = @ \ {a}, !.pc = IF skip THEN "next" ELSE "post",
                                   !.cur = IF skip THEN NoArt ELSE a]
  <2>1. a \in Spools
    BY <1>2 DEF Drains
  <2>2. x \in Drains /\ DrainShape(x)
    BY <1>2, <2>1 DEF Drains, DrainShape
  <2>3. drain' = [drain EXCEPT ![p] = x]
    BY <1>1, <1>5 DEF OpenSpool
  <2> HIDE DEF x
  <2> QED BY <1>1, <1>5, <2>2, <2>3, DrainTyped DEF OpenSpool
<1>6. ASSUME Drain(p, "post"), Posted(p),
             store' \in Directory, late' \subseteq Requests, \A q \in late' : q.op \in LateOps,
             disk' \in Disks, net' \in Nets, hist' \in Hists,
             UNCHANGED <<loop, work, active, signaled, wasBusy>>
      PROVE  Good'
  <2> DEFINE x == [drain[p] EXCEPT !.pc = "next", !.cur = NoArt]
  <2>1. x \in Drains /\ DrainShape(x)
    BY <1>2 DEF Drains, DrainShape
  <2>2. drain' = [drain EXCEPT ![p] = x]
    BY <1>1, <1>6 DEF Posted
  <2>3. loop' \in Loops /\ LoopShape(loop') /\ (loop'.pc \in Booting => loop.pc \in Booting)
    BY <1>1, <1>6
  <2> HIDE DEF x
  <2> QED BY <1>6, <2>1, <2>2, <2>3, DrainTyped
<1>7. CASE UploadAccepted(p)
  <2>1. Drain(p, "post") /\ Accepts(drain[p].cur)
    BY <1>7 DEF UploadAccepted
  <2>2. store' \in Directory
    BY <1>1, <1>7, <2>1, PostTyped, StoreSheds DEF UploadAccepted
  <2>3. hist' \in Hists
    BY <1>1, <1>7, <2>1, PostTyped, PublishTyped DEF UploadAccepted
  <2>4. disk' \in Disks
    BY <1>1, <1>7 DEF UploadAccepted, Disks
  <2> QED BY <1>1, <1>6, <1>7, <2>1, <2>2, <2>3, <2>4 DEF UploadAccepted
<1>8. CASE UploadRefused(p)
  <2>1. Drain(p, "post")
    BY <1>8 DEF UploadRefused
  <2>2. net' \in Nets
    BY <1>1, <1>8, <2>1, PostTyped DEF UploadRefused, Nets
  <2> QED BY <1>1, <1>6, <1>8, <2>1, <2>2 DEF UploadRefused
<1>9. CASE UploadParked(p)
  <2>1. Drain(p, "post")
    BY <1>9 DEF UploadParked
  <2>2. disk' \in Disks
    BY <1>1, <1>9, <2>1, PostTyped DEF UploadParked, Disks
  <2> QED BY <1>1, <1>6, <1>9, <2>1, <2>2 DEF UploadParked
<1>10. CASE UploadFails(p)
  <2> DEFINE r == [op |-> "upload", a |-> drain[p].cur]
  <2>1. Drain(p, "post") /\ Fail(r) /\ LostOpen
    BY <1>10 DEF UploadFails
  <2>2. r \in Requests
    BY <2>1, PostTyped DEF Requests
  <2>3. /\ store' = store /\ late' \subseteq Requests /\ net' \in Nets
        /\ \A q \in late' : q.op \in LateOps
    BY <2>1, <2>2, FailTyped
  <2> QED BY <1>1, <1>6, <1>10, <2>1, <2>3 DEF UploadFails
<1> QED BY <1>3, <1>4, <1>5, <1>7, <1>8, <1>9, <1>10 DEF DrainStep

\* The process is gone, and what may be left of its requests.
LEMMA DeadTyped ==
  ASSUME Good, Die, store' \in Directory, late' \subseteq Requests, \A q \in late' : q.op \in LateOps,
         net' \in Nets, UNCHANGED <<disk, hist>>
  PROVE  Good'
<1>1. "down" \in LoopPCs
  BY DEF LoopPCs
<1>2. loop' \in Loops /\ LoopShape(loop')
  BY <1>1, AtTyped DEF Die
<1>3. work' \in [Workers -> Jobs] /\ \A w \in Workers : work'[w] = Idle
  BY IdleTyped DEF Die
<1>4. drain' \in [Drainers -> Drains] /\ \A p \in Drainers : drain'[p] = NoDrain
  BY OffTyped DEF Die
<1>5. active' \in [Digests -> Workers \cup {None}] /\ signaled' \subseteq Digests /\ wasBusy' \in BOOLEAN
  BY DEF Die
<1>6. TypeOK'
  BY <1>2, <1>3, <1>4, <1>5, Typed, TypedNext DEF Good
<1>7. \A w \in Workers : work'[w].pc = "free" /\ WorkShape(work'[w])
  BY <1>3, IdleTyped
<1>8. \A p \in Drainers : DrainShape(drain'[p])
  BY <1>4, OffTyped
<1> QED BY <1>2, <1>6, <1>7, <1>8 DEF Good, Shape

\* Requests under way.
LEMMA LeftTyped ==
  ASSUME Good
  PROVE  /\ \A r \in OnLoop : r \in Requests /\ r.op \in {"push", "stale"}
         /\ \A r \in OnDrains : /\ r \in Requests /\ r.op = "upload"
                                /\ \E p \in Drainers : Drain(p, "post") /\ r.a = drain[p].cur
<1>1. loop.todo \in SUBSET Digests
  BY Typed DEF Good, Loops
<1>2. Main("stale") => loop.cur \in Digests
  BY DEF Good, Shape, LoopShape, Main
<1>3. \A r \in OnLoop : r \in Requests /\ r.op \in {"push", "stale"}
  BY <1>1, <1>2 DEF OnLoop, Requests
<1>4. ASSUME NEW r \in OnDrains
      PROVE  /\ r \in Requests /\ r.op = "upload"
             /\ \E p \in Drainers : Drain(p, "post") /\ r.a = drain[p].cur
  <2>1. PICK p \in Drainers : Drain(p, "post") /\ r = [op |-> "upload", a |-> drain[p].cur]
    BY DEF OnDrains
  <2>2. drain[p].cur \in Spools
    BY <2>1, PostTyped
  <2> QED BY <2>1, <2>2 DEF Requests
<1> QED BY <1>3, <1>4

\* Nets of a process that died, of one that is interrupted.
LEMMA DeathTyped ==
  ASSUME net \in Nets, net.deaths < MaxDeaths
  PROVE  /\ [net EXCEPT !.deaths = @ + 1] \in Nets
         /\ [net EXCEPT !.deaths = @ + 1, !.circuit = FALSE, !.backoff = {}] \in Nets
<1>1. net.deaths + 1 \in 0 .. MaxDeaths
  BY SystemAssumption DEF Nets
<1> QED BY <1>1 DEF Nets

\* A death of the process, and the way out after the first SIGINT.
LEMMA DeathsTyped ==
  ASSUME Good, Crash \/ Interrupt \/ LastDrain \/ Exit
  PROVE  Good'
<1>1. /\ store \in Directory /\ late \subseteq Requests /\ loop \in Loops
      /\ disk \in Disks /\ net \in Nets /\ hist \in Hists /\ drain \in [Drainers -> Drains]
      /\ work \in [Workers -> Jobs]
      /\ \A q \in late : q.op \in LateOps
  BY Typed DEF Good, Shape
<1>2. ASSUME NEW s, Leaves(s), \A r \in s : r \in Requests
      PROVE  /\ late' \subseteq Requests /\ \A q \in late' : q.op \in LateOps
             /\ late' \subseteq late \cup s
  BY <1>1, <1>2 DEF Leaves
<1>3. CASE Crash
  <2>1. net' \in Nets
    BY <1>1, <1>3, DeathTyped DEF Crash
  <2>2. /\ store' \in Directory /\ late' \subseteq Requests
        /\ \A q \in late' : q.op \in LateOps
    <3>1. CASE ~Main("transfer") /\ store' = store /\ Leaves(OnLoop \cup OnDrains)
      BY <1>1, <1>2, <3>1, LeftTyped
    <3>2. CASE Main("transfer") /\ TransferCut
      BY <3>2, CutTyped
    <3> QED BY <1>3, <3>1, <3>2 DEF Crash
  <2> QED BY <1>3, <2>1, <2>2, DeadTyped DEF Crash
<1>4. CASE Exit
  <2>1. net' \in Nets
    BY <1>1, <1>4 DEF Exit, Nets
  <2>2. late' \subseteq Requests /\ \A q \in late' : q.op \in LateOps
    BY <1>2, <1>4, LeftTyped DEF Exit
  <2> QED BY <1>1, <1>4, <2>1, <2>2, DeadTyped DEF Exit
<1>5. CASE Interrupt
  <2>1. net' \in Nets
    BY <1>1, <1>5, DeathTyped DEF Interrupt
  <2>2. /\ store' \in Directory /\ late' \subseteq Requests
        /\ \A q \in late' : q.op \in LateOps
    <3>1. CASE ~Main("transfer") /\ store' = store /\ Leaves(OnLoop)
      BY <1>1, <1>2, <3>1, LeftTyped
    <3>2. CASE Main("transfer") /\ TransferCut
      BY <3>2, CutTyped
    <3> QED BY <1>5, <3>1, <3>2 DEF Interrupt
  <2>3. loop' \in Loops /\ LoopShape(loop') /\ loop'.pc \notin Booting
    BY <1>5, TickTyped DEF Interrupt
  <2>4. \A w \in Workers : work'[w] \in {work[w], [work[w] EXCEPT !.canceled = TRUE]}
    BY <1>5 DEF Interrupt
  <2>5. work' \in [Workers -> Jobs]
    <3>1. \A w \in Workers : work'[w] \in Jobs
      BY <1>1, <2>4, ToldTyped
    <3> QED BY <1>5, <3>1 DEF Interrupt
  <2>6. \A w \in Workers : /\ work'[w].pc = work[w].pc /\ work'[w].n = work[w].n
                           /\ work'[w].d = work[w].d
    BY <1>1, <2>4, ToldTyped
  <2>7. TypeOK'
    BY <1>5, <2>1, <2>2, <2>3, <2>5, Typed, TypedNext DEF Interrupt, Good
  <2>8. \A w \in Workers : WorkShape(work'[w])
    BY <2>6 DEF Good, Shape, WorkShape
  <2> QED BY <1>5, <2>2, <2>3, <2>7, <2>8 DEF Interrupt, Good, Shape
<1>6. CASE LastDrain
  <2> DEFINE x == [drain["main"] EXCEPT !.pc = "list"]
  <2>1. "main" \in Drainers
    BY DEF Drainers
  <2>2. x \in Drains /\ DrainShape(x)
    BY <1>1, <2>1 DEF Drains, DrainShape
  <2>3. drain' = [drain EXCEPT !["main"] = x]
    BY <1>1, <1>6, <2>1 DEF LastDrain
  <2>4. loop' \in Loops /\ LoopShape(loop') /\ loop'.pc \notin Booting
    BY <1>6, TickTyped DEF LastDrain
  <2> HIDE DEF x
  <2> QED BY <1>1, <1>6, <2>1, <2>2, <2>3, <2>4, DrainTyped DEF LastDrain
<1> QED BY <1>3, <1>4, <1>5, <1>6

\* Start-up.
LEMMA BootTyped ==
  ASSUME Good,
         \/ Restart \/ StartupDrained \/ ListOrphans \/ ListOrphansFails \/ StartupDone
         \/ \E r \in loop.orphans : FailOrphan(r)
  PROVE  Good'
<1>1. /\ store \in Directory /\ late \subseteq Requests /\ loop \in Loops /\ signaled \subseteq Digests
      /\ wasBusy \in BOOLEAN /\ disk \in Disks /\ net \in Nets /\ hist \in Hists
      /\ drain \in [Drainers -> Drains]
      /\ LoopShape(loop) /\ "main" \in Drainers
      /\ \A q \in late : q.op \in LateOps
  BY Typed DEF Good, Shape, Drainers
<1>2. /\ AtPC("b_drain") \in Loops /\ LoopShape(AtPC("b_drain")) /\ AtPC("b_drain").pc = "b_drain"
      /\ AtPC("b_jobs") \in Loops /\ LoopShape(AtPC("b_jobs")) /\ AtPC("b_jobs").pc = "b_jobs"
  <2>1. "b_drain" \in LoopPCs /\ "b_jobs" \in LoopPCs
    BY DEF LoopPCs
  <2> QED BY <2>1, AtTyped
<1>3. CASE Restart
  <2> DEFINE x == [drain["main"] EXCEPT !.pc = "list"]
  <2>1. x \in Drains /\ DrainShape(x)
    BY <1>1 DEF Drains, DrainShape
  <2>2. drain' = [drain EXCEPT !["main"] = x]
    BY <1>1, <1>3 DEF Restart
  <2>3. loop' \in Loops /\ LoopShape(loop') /\ loop.pc \in Booting
    BY <1>2, <1>3 DEF Restart, Booting, Main
  <2> HIDE DEF x
  <2> QED BY <1>1, <1>3, <2>1, <2>2, <2>3, DrainTyped DEF Restart
<1>4. CASE StartupDrained
  <2>1. loop' \in Loops /\ LoopShape(loop') /\ loop.pc \in Booting
    BY <1>2, <1>4 DEF StartupDrained, Booting, Main
  <2> QED BY <1>1, <1>4, <2>1, LoopTyped DEF StartupDrained
<1>5. CASE ListOrphans
  <2> DEFINE rows == RowsOf({d \in Digests : Running(store, d)} \ {a.d : a \in disk.pending})
  <2>1. rows \subseteq Runs
    <3>1. ASSUME NEW d \in Digests, Running(store, d) PROVE <<d, store.done[d].n>> \in Runs
      BY <1>1, <3>1, Values DEF Running, PickedUp, Directory, PlanFile, Runs
    <3> QED BY <3>1 DEF RowsOf
  <2> HIDE DEF rows
  <2>2. "b_orphans" \in LoopPCs
    BY DEF LoopPCs
  <2>3. loop' = [AtPC("b_orphans") EXCEPT !.orphans = rows]
    BY <1>5 DEF ListOrphans, rows
  <2>4. loop' \in Loops /\ LoopShape(loop') /\ loop.pc \in Booting
    BY <1>5, <2>1, <2>2, <2>3, Values DEF ListOrphans, Main, Booting, AtPC, Loops, LoopShape
  <2> QED BY <1>1, <1>5, <2>4, LoopTyped DEF ListOrphans
<1>6. CASE ListOrphansFails
  <2>1. loop' \in Loops /\ LoopShape(loop') /\ loop'.pc \notin Booting
    BY <1>6, TickTyped DEF ListOrphansFails
  <2>2. net' \in Nets
    BY <1>1, <1>6, LostTyped DEF ListOrphansFails, Lost
  <2> QED BY <1>1, <1>6, <2>1, <2>2, LoopTyped DEF ListOrphansFails
<1>7. CASE StartupDone
  <2>1. loop' \in Loops /\ LoopShape(loop') /\ loop'.pc \notin Booting
    BY <1>7, TickTyped DEF StartupDone
  <2> QED BY <1>1, <1>7, <2>1, LoopTyped DEF StartupDone
<1>8. ASSUME NEW r \in loop.orphans, FailOrphan(r) PROVE Good'
  <2> DEFINE a == [d |-> r[1], n |-> r[2], st |-> "failed"]
             x == [NoDrain EXCEPT !.pc = "post", !.cur = a]
  <2>1. r \in Runs
    BY <1>1 DEF Loops
  <2>2. a \in Spools
    BY <2>1 DEF Runs, Spools
  <2> HIDE DEF a
  <2>3. x \in Drains /\ DrainShape(x)
    BY <2>2, OffTyped DEF Drains, DrainShape, NoDrain
  <2>4. drain' = [drain EXCEPT !["main"] = x] /\ disk' = [disk EXCEPT !.pending = @ \cup {a}]
    BY <1>8 DEF FailOrphan, a
  <2>5. disk' \in Disks
    BY <1>1, <2>2, <2>4 DEF Disks
  <2>6. /\ loop' \in Loops /\ LoopShape(loop') /\ (loop'.pc \in Booting => loop.pc \in Booting)
    BY <1>1, <1>8 DEF FailOrphan, Loops, LoopShape, Main
  <2> HIDE DEF x
  <2> QED BY <1>1, <1>8, <2>3, <2>4, <2>5, <2>6, DrainTyped DEF FailOrphan
<1> QED BY <1>3, <1>4, <1>5, <1>6, <1>7, <1>8

\* Good is inductive.
LEMMA GoodFirst == Init => Good
<1> SUFFICES ASSUME Init PROVE Good
  OBVIOUS
<1>1. "cancels" \in LoopPCs
  BY DEF LoopPCs
<1>2. loop \in Loops /\ LoopShape(loop) /\ loop.pc \notin Booting
  BY <1>1, TickTyped DEF Init
<1>3. store \in Directory
  <2>1. EmptyDirectory \in Directory
    BY Values DEF Directory, EmptyDirectory, Marker
  <2> QED BY <2>1 DEF Init
<1>4. /\ work \in [Workers -> Jobs] /\ drain \in [Drainers -> Drains]
      /\ \A w \in Workers : WorkShape(work[w])
      /\ \A p \in Drainers : DrainShape(drain[p])
  BY IdleTyped, OffTyped DEF Init
<1>5. disk \in Disks /\ net \in Nets /\ hist \in Hists
  BY Values, SystemAssumption DEF Init, Disks, Nets, Hists
<1>6. TypeOK
  BY <1>2, <1>3, <1>4, <1>5, Typed DEF Init
<1> QED BY <1>2, <1>4, <1>6 DEF Good, Shape, Init

\* Every step keeps the types.
LEMMA GoodNext == Good /\ [Next]_vars => Good'
<1> SUFFICES ASSUME Good, [Next]_vars PROVE Good'
  OBVIOUS
<1>1. CASE Users
  BY <1>1, UsersTyped
<1>2. CASE Time
  BY <1>2, TimeTyped
<1>3. CASE LoopStep
  BY <1>3, CancelsTyped, PushTyped, TransferTyped, BootTyped, DeathsTyped DEF LoopStep
<1>4. CASE LoopFails
  BY <1>4, CancelsTyped, PushTyped, TransferTyped, BootTyped DEF LoopFails
<1>5. ASSUME NEW w \in Workers, WorkStep(w) PROVE Good'
  BY <1>5, WorkersTyped
<1>6. ASSUME NEW p \in Drainers, DrainStep(p) \/ UploadFails(p) PROVE Good'
  BY <1>6, DrainsTyped
<1>7. CASE Restart \/ Crash \/ Interrupt
  BY <1>7, BootTyped, DeathsTyped
<1>8. CASE UNCHANGED vars
  BY <1>8 DEF vars, Good, TypeOK, Shape
<1> QED BY <1>1, <1>2, <1>3, <1>4, <1>5, <1>6, <1>7, <1>8 DEF Next, System

\* Every variable keeps its shape, and every place in the code finds the locals it
\* works on as it left them: whatever is lost, served late or killed.
THEOREM SystemStaysTyped == Spec => []TypeOK
<1>1. Spec => []Good
  BY GoodFirst, GoodNext, PTL DEF Spec
<1>2. Good => TypeOK
  BY DEF Good
<1> QED BY <1>1, <1>2, PTL
-----------------------------------------------------------------------------
(* Where the runs are *)

\* Plans in INPUTS, plans in DONE, the plan under way to the poller.
Queue   == {r \in Runs : store.inputs[r[1]].n = r[2]}
Record  == {r \in Runs : store.done[r[1]].n = r[2]}
Sending == {r \in Runs : Main("transfer") /\ r = <<loop.cur, loop.n>>}

\* What a worker has, what any worker has.
HeldBy(w) == {r \in Runs : work[w].pc # "free" /\ r = RunOf(w)}
Held      == {r \in Runs : \E w \in Workers : r \in HeldBy(w)}

\* Results spooled or parked, results on their way to the server.
Spooled(spools) == {r \in Runs : \E a \in spools : r = <<a.d, a.n>>}
Kept    == Spooled(disk.pending \cup disk.refused)
Posting == {a \in Spools : \/ \E p \in Drainers : Drain(p, "post") /\ a = drain[p].cur
                           \/ \E q \in late : q.op = "upload" /\ a = q.a}
Backlog == Spooled(Posting)
Known   == hist.published \cup Kept

\* One worker to a run, from when it was handed out to when it has its result.
Workplace ==
    /\ Held \subseteq hist.started
    /\ Held \cap Known = {}
    /\ \A v, w \in Workers : v # w => HeldBy(v) \cap HeldBy(w) = {}

\* A plan in INPUTS, or on its way, has not been to a worker.
Unstarted ==
    /\ (Queue \cup Sending) \cap (hist.started \cup Known \cup loop.orphans) = {}
    /\ Queue \cap (Sending \cup Record) = {}
    /\ \A r \in Sending, q \in Record : q[1] = r[1] => q = r

\* A digest's files are those of its latest submission.
Latest ==
    /\ \A r \in Queue \cup Record : r[2] = hist.subs[r[1]]
    /\ \A r \in Sending \cup hist.started \cup Known \cup loop.orphans : r[2] <= hist.subs[r[1]]

\* What is being uploaded is still on disk, or was on the server.
Backed == Backlog \subseteq Known

RunInv == Workplace /\ Unstarted /\ Latest /\ Backed

-----------------------------------------------------------------------------
(* What a step does to the runs *)

\* What the three lists of history say, what the workers have.
SameBooks == UNCHANGED <<hist.subs, hist.started, hist.published>>
SameWork  == \A w \in Workers : HeldBy(w)' = HeldBy(w)
SameFiles == Queue' = Queue /\ Record' = Record

\* The sets that follow the others.
Follows ==
    /\ loop'.orphans \subseteq loop.orphans \cup (Record \ Sending)
    /\ Backlog' \subseteq Backlog \cup Known'

\* Files may go, nothing else happens to a run.
Aside ==
    /\ Queue' \subseteq Queue /\ Record' \subseteq Record
    /\ Sending' = Sending /\ SameWork /\ Kept' = Kept /\ SameBooks

\* A plan is submitted: the only file of its digest.
Submits(r) ==
    /\ r[2] = hist.subs[r[1]] + 1
    /\ hist.subs' = [hist.subs EXCEPT ![r[1]] = r[2]]
    /\ \A q \in Queue \cup Record : q[1] # r[1]
    /\ Queue' = Queue \cup {r} /\ Record' = Record
    /\ Sending' = Sending /\ SameWork /\ Kept' = Kept
    /\ UNCHANGED <<hist.started, hist.published>>

\* It is claimed, and on its way.
Claims(r) ==
    /\ r \in Queue
    /\ Queue' = Queue \ {r} /\ Record' = Record \cup {r}
    /\ Sending = {} /\ Sending' = {r} /\ SameWork /\ Kept' = Kept /\ SameBooks

\* It reaches a free worker.
Hands(r, w) ==
    /\ Sending = {r} /\ Sending' = {}
    /\ HeldBy(w) = {} /\ HeldBy(w)' = {r}
    /\ \A v \in Workers \ {w} : HeldBy(v)' = HeldBy(v)
    /\ hist.started' = hist.started \cup {r}
    /\ SameFiles /\ Kept' = Kept /\ UNCHANGED <<hist.subs, hist.published>>

\* What becomes of the file of a plan that did not get through.
GoesBack(r) == r \in Record /\ Queue' = Queue \cup {r} /\ Record' = Record \ {r}

\* It does not get through.
Cuts(r) ==
    /\ Sending = {r} /\ Sending' = {}
    /\ SameFiles \/ GoesBack(r)
    /\ SameWork /\ Kept' = Kept /\ SameBooks

\* A worker spools a result.
Finishes(w) ==
    /\ HeldBy(w)' = {} /\ Kept' = Kept \cup HeldBy(w)
    /\ \A v \in Workers \ {w} : HeldBy(v)' = HeldBy(v)
    /\ SameFiles /\ Sending' = Sending /\ SameBooks

\* A result reaches the server.
Reports(r) ==
    /\ r \in Known
    /\ hist.published' = hist.published \cup {r}
    /\ Kept' \subseteq Kept /\ Kept \subseteq Kept' \cup {r}
    /\ SameFiles /\ Sending' = Sending /\ SameWork /\ UNCHANGED <<hist.subs, hist.started>>

\* A run that no process remembers is given up at start-up.
GivesUp(r) ==
    /\ r \in loop.orphans /\ Held = {}
    /\ Kept' = Kept \cup {r}
    /\ SameFiles /\ Sending' = Sending /\ SameWork /\ SameBooks

\* The process dies.
Dies ==
    /\ Sending' = {} /\ \A w \in Workers : HeldBy(w)' = {}
    /\ SameFiles \/ \E r \in Runs : Sending = {r} /\ GoesBack(r)
    /\ Kept' = Kept /\ SameBooks

Does ==
    \/ Aside \/ Dies
    \/ \E r \in Runs : \/ Submits(r) \/ Claims(r) \/ Cuts(r) \/ Reports(r) \/ GivesUp(r)
                       \/ \E w \in Workers : Hands(r, w)
    \/ \E w \in Workers : Finishes(w)

-----------------------------------------------------------------------------
(* Every step is one of these *)

\* Runs and their numbers.
LEMMA RunsAre ==
  /\ \A r \in Runs : /\ r = <<r[1], r[2]>> /\ r[1] \in Digests /\ r[2] \in Subs /\ r[2] \in Int
                     /\ r[2] # 0 /\ r[1] # None
  /\ \A d \in Digests, n \in Subs : <<d, n>> \in Runs /\ <<d, n>>[1] = d /\ <<d, n>>[2] = n
<1>1. ASSUME NEW r \in Runs
      PROVE  /\ r = <<r[1], r[2]>> /\ r[1] \in Digests /\ r[2] \in Subs /\ r[2] \in Int
             /\ r[2] # 0 /\ r[1] # None
  <2>1. r = <<r[1], r[2]>> /\ r[1] \in Digests /\ r[2] \in Subs
    BY DEF Runs
  <2> QED BY <2>1, Values
<1>2. ASSUME NEW d \in Digests, NEW n \in Subs
      PROVE  <<d, n>> \in Runs /\ <<d, n>>[1] = d /\ <<d, n>>[2] = n
  BY DEF Runs
<1> QED BY <1>1, <1>2

\* A file that only goes.
LEMMA ShedsFiles ==
  ASSUME Sheds(store, store')
  PROVE  Queue' \subseteq Queue /\ Record' \subseteq Record
  BY RunsAre DEF Sheds, Queue, Record

\* Uploads come from the spool.
LEMMA BacklogMoves ==
  ASSUME \A p \in Drainers : drain'[p].pc = "post" =>
            \/ drain[p].pc = "post" /\ drain'[p].cur = drain[p].cur
            \/ drain'[p].cur \in disk'.pending,
         \A q \in late' : q.op = "upload" =>
            \/ q \in late
            \/ \E p \in Drainers : Drain(p, "post") /\ q.a = drain[p].cur
  PROVE  Backlog' \subseteq Backlog \cup Known'
<1> SUFFICES ASSUME NEW r \in Runs, NEW a \in Posting', r = <<a.d, a.n>>
             PROVE  r \in Backlog \/ r \in Kept'
  BY DEF Backlog, Spooled, Known
<1>1. ASSUME NEW p \in Drainers, drain'[p].pc = "post", a = drain'[p].cur
      PROVE  r \in Backlog \/ r \in Kept'
  <2>1. CASE drain[p].pc = "post" /\ drain'[p].cur = drain[p].cur
    <3>1. a \in Posting
      BY <1>1, <2>1 DEF Posting, Drain
    <3> QED BY <3>1 DEF Backlog, Spooled
  <2>2. CASE drain'[p].cur \in disk'.pending
    BY <1>1, <2>2 DEF Kept, Spooled
  <2> QED BY <1>1, <2>1, <2>2
<1>2. ASSUME NEW q \in late', q.op = "upload", a = q.a
      PROVE  r \in Backlog
  <2>1. a \in Posting
    BY <1>2 DEF Posting
  <2> QED BY <2>1 DEF Backlog, Spooled
<1> QED BY <1>1, <1>2 DEF Posting, Drain

\* The main thread is not at a transfer, and finds no new orphans.
LoopAside ==
    /\ loop' = loop \/ (loop.pc # "transfer" /\ loop'.pc # "transfer")
    /\ loop'.orphans \subseteq loop.orphans \cup (Record \ Sending)

\* Where the loop's hands stay, the plan under way stays.
LEMMA SendingStays ==
  ASSUME LoopAside
  PROVE  Sending' = Sending
<1>1. CASE loop' = loop
  BY <1>1 DEF Sending, Main
<1>2. CASE loop.pc # "transfer" /\ loop'.pc # "transfer"
  BY <1>2 DEF Sending, Main
<1> QED BY <1>1, <1>2 DEF LoopAside

\* Workers stay where they are, or go on with the run they have.
WorkAside ==
    \A w \in Workers : /\ work'[w].pc = "free" <=> work[w].pc = "free"
                       /\ work'[w].d = work[w].d /\ work'[w].n = work[w].n

\* Where the workers stay, what they hold stays.
LEMMA WorkStays ==
  ASSUME WorkAside
  PROVE  SameWork
  BY DEF WorkAside, SameWork, HeldBy, RunOf

\* So a step is aside, when the spool and the history stay.
LEMMA StandsAside ==
  ASSUME Sheds(store, store'), LoopAside, work' = work \/ WorkAside, Kept' = Kept, hist' = hist
  PROVE  Aside
<1>1. SameWork
  <2>1. CASE work' = work
    BY <2>1 DEF SameWork, HeldBy, RunOf
  <2> QED BY <2>1, WorkStays
<1> QED BY <1>1, SendingStays, ShedsFiles DEF Aside, SameBooks

\* A directory of which nothing went.
LEMMA ShedsNothing ==
  ASSUME NEW f, NEW g, g.inputs = f.inputs, g.done = f.done
  PROVE  Sheds(f, g)
  BY DEF Sheds

\* A handler of the server, no word from the poller's threads.
LEMMA FollowsStill ==
  ASSUME loop' = loop, drain' = drain, late' \subseteq late
  PROVE  Follows
<1>1. Backlog' \subseteq Backlog \cup Known'
  BY BacklogMoves
<1> QED BY <1>1 DEF Follows

\* An accepted submission, a deletion,
LEMMA PlansDo ==
  ASSUME Good, NEW d \in Digests, Plans(d)
  PROVE  /\ Follows /\ <<d, hist.subs[d] + 1>> \in Runs
         /\ Submits(<<d, hist.subs[d] + 1>>)
<1>1. store \in Directory /\ hist \in Hists
  BY Typed DEF Good
<1>2. loop' = loop /\ drain' = drain /\ late' = late /\ work' = work /\ disk' = disk
  BY DEF Plans, UserStep, procVars
<1>3. Follows
  BY <1>2, FollowsStill
<1>4. LoopAside /\ Kept' = Kept
  BY <1>2 DEF LoopAside, Kept, Spooled
<1> DEFINE n == hist.subs[d] + 1
           r == <<d, n>>
<1>5. n \in Subs /\ r \in Runs /\ r[1] = d /\ r[2] = n
  BY <1>1, Values, RunsAre DEF Plans, Hists
<1>6. /\ hist.subs' = [hist.subs EXCEPT ![d] = n]
      /\ hist'.started = hist.started /\ hist'.published = hist.published
  BY <1>1 DEF Plans, Hists
<1>7. store.inputs[d].n = 0 /\ store.done[d].n = 0
  BY DEF Plans, Refuses, MidFlight, Queued, PickedUp
<1>8. /\ store'.inputs = [store.inputs EXCEPT ![d] = [n |-> n, old |-> FALSE]]
      /\ store'.done = store.done
  BY <1>1, <1>5, QueueMoves DEF Plans, UserStep
<1> HIDE DEF n
<1>9. \A q \in Queue \cup Record : q[1] # d
  BY <1>7, RunsAre DEF Queue, Record
<1>10. Record' = Record
  BY <1>8 DEF Record
<1>11. store.inputs \in [Digests -> PlanFile]
  BY <1>1 DEF Directory
<1>12. \A q \in Runs : q[1] = d => (store'.inputs[q[1]].n = q[2] <=> q = r)
  BY <1>5, <1>8, <1>11, RunsAre
<1>13. \A q \in Runs : q[1] # d => store'.inputs[q[1]] = store.inputs[q[1]] /\ q # r
  BY <1>5, <1>8, <1>11, RunsAre
<1>14. Queue' = Queue \cup {r}
  BY <1>5, <1>9, <1>12, <1>13 DEF Queue
<1>15. Sending' = Sending /\ SameWork
  BY <1>2, <1>4, SendingStays DEF SameWork, HeldBy, RunOf
<1>16. Submits(r)
  BY <1>4, <1>5, <1>6, <1>9, <1>10, <1>14, <1>15 DEF Submits, n
<1> QED BY <1>3, <1>5, <1>16 DEF n

\* A deletion takes at most a record.
LEMMA DeletesDo ==
  ASSUME Good, NEW d \in Digests, NEW wholeJob \in BOOLEAN, Deletes(d, wholeJob)
  PROVE  Does /\ Follows
<1>1. store \in Directory
  BY Typed DEF Good
<1>2. loop' = loop /\ drain' = drain /\ late' = late /\ work' = work /\ disk' = disk /\ hist' = hist
  BY DEF Deletes, UserStep, procVars
<1>3. LoopAside /\ Kept' = Kept
  BY <1>2 DEF LoopAside, Kept, Spooled
<1>4. Sheds(store, store')
  BY <1>1, DeleteSheds DEF Deletes, UserStep
<1> QED BY <1>2, <1>3, <1>4, StandsAside, FollowsStill DEF Does

\* users,
LEMMA UsersDo ==
  ASSUME Good, Users
  PROVE  Does /\ Follows
<1>1. store \in Directory
  BY Typed DEF Good
<1>2. loop' = loop /\ drain' = drain /\ late' = late /\ work' = work /\ disk' = disk
  BY DEF Users, Submit, Cancel, Delete, PruneStaleJobs, WipeAllJobs, UserStep, procVars
<1>3. Follows
  BY <1>2, FollowsStill
<1>4. LoopAside /\ Kept' = Kept
  BY <1>2 DEF LoopAside, Kept, Spooled
<1>5. ASSUME Sheds(store, store'), hist' = hist PROVE Aside
  BY <1>2, <1>4, <1>5, StandsAside
<1>6. ASSUME NEW d \in Digests, Submit(d) PROVE Does
  BY <1>6, PlansDo DEF Submit, Plans, Does
<1>7. ASSUME NEW d \in Digests, Cancel(d) PROVE Does
  BY <1>1, <1>5, <1>7, CancelSheds DEF Cancel, UserStep, Does
<1>8. ASSUME NEW d \in Digests, NEW wholeJob \in BOOLEAN, Delete(d, wholeJob) PROVE Does
  BY <1>8, DeletesDo DEF Delete, Deletes
<1>9. CASE PruneStaleJobs
  <2>1. Sheds(store, store') /\ hist' = hist
    BY <1>1, <1>9, PruneSheds DEF PruneStaleJobs, UserStep
  <2>2. Aside
    BY <1>5, <2>1
  <2> QED BY <1>3, <2>2 DEF Does
<1>10. CASE WipeAllJobs
  <2>1. Sheds(store, store') /\ hist' = hist
    BY <1>1, <1>10, WipeSheds DEF WipeAllJobs, UserStep
  <2>2. Aside
    BY <1>5, <2>1
  <2> QED BY <1>3, <2>2 DEF Does
<1> QED BY <1>3, <1>6, <1>7, <1>8, <1>9, <1>10 DEF Users

\* A result that is published.
LEMMA PublishDoes ==
  ASSUME Good, RunInv, NEW a \in Posting, Accepts(a), hist' = Publish(a),
         store' = StoreArtefact(store, a),
         Kept' \subseteq Kept, Kept \subseteq Kept' \cup {<<a.d, a.n>>}, UNCHANGED <<loop, work>>
  PROVE  Does
<1> DEFINE r == <<a.d, a.n>>
<1>1. a \in Artefact /\ r \in Runs
  BY DEF Posting, Accepts, Spools, Artefact, Runs
<1>2. /\ hist'.published = hist.published \cup {r}
      /\ hist'.subs = hist.subs /\ hist'.started = hist.started
  BY <1>1, Typed, PublishTyped DEF Good
<1>3. r \in Known
  BY <1>1 DEF Backlog, Spooled, RunInv, Backed
<1>4. store'.inputs = store.inputs /\ store'.done = store.done
  BY <1>1, Typed, StoreSheds DEF Good
<1>5. SameFiles
  BY <1>4 DEF SameFiles, Queue, Record
<1>6. Sending' = Sending /\ SameWork
  BY DEF Sending, Main, SameWork, HeldBy, RunOf
<1>7. Reports(r)
  BY <1>2, <1>3, <1>5, <1>6 DEF Reports
<1> QED BY <1>1, <1>7 DEF Does

\* time,
LEMMA TimeDoes ==
  ASSUME Good, RunInv, "rollback" \notin LateOps, Time
  PROVE  Does /\ Follows
<1>1. store \in Directory /\ late \subseteq Requests /\ \A q \in late : q.op \in LateOps
  BY Typed DEF Good, Shape
<1>2. loop' = loop /\ drain' = drain /\ late' \subseteq late /\ work' = work /\ disk' = disk
  BY DEF Time, Age, MarkerExpires, InflightStales, CircuitCloses, BackoffEnds, ServeLate, procVars
<1>3. Follows
  BY <1>2, FollowsStill
<1>4. LoopAside /\ Kept' = Kept
  BY <1>2 DEF LoopAside, Kept, Spooled
<1>5. ASSUME Sheds(store, store'), hist' = hist PROVE Does
  BY <1>2, <1>4, <1>5, StandsAside DEF Does
<1>6. ASSUME NEW d \in Digests, Age(d) PROVE Does
  BY <1>1, <1>5, <1>6, AgeSheds DEF Age
<1>7. ASSUME NEW d \in Digests, MarkerExpires(d) PROVE Does
  BY <1>1, <1>5, <1>7, AgeSheds DEF MarkerExpires
<1>8. CASE InflightStales
  <2>1. store'.inputs = store.inputs /\ store'.done = store.done
    BY <1>1, <1>8 DEF InflightStales, Directory
  <2>2. Sheds(store, store') /\ hist' = hist
    BY <1>8, <2>1, ShedsNothing DEF InflightStales
  <2> QED BY <1>3, <1>5, <2>2
<1>9. CASE CircuitCloses
  <2>1. Sheds(store, store') /\ hist' = hist
    BY <1>9, ShedsNothing DEF CircuitCloses
  <2> QED BY <1>3, <1>5, <2>1
<1>10. ASSUME NEW a \in net.backoff, BackoffEnds(a) PROVE Does
  BY <1>5, <1>10, ShedsNothing DEF BackoffEnds
<1>11. ASSUME NEW r \in late, ServeLate(r) PROVE Does
  <2>1. r \in Requests /\ r.op # "rollback"
    BY <1>1
  <2>2. CASE r.op = "upload" /\ Accepts(r.a)
    <3>1. r.a \in Posting
      BY <2>1, <2>2 DEF Requests, Posting
    <3>2. store' = StoreArtefact(store, r.a) /\ hist' = Publish(r.a)
      BY <1>11, <2>2 DEF ServeLate, Serve
    <3> QED BY <1>2, <1>4, <2>2, <3>1, <3>2, PublishDoes
  <2>3. CASE ~(r.op = "upload" /\ Accepts(r.a))
    BY <1>1, <1>5, <1>11, <2>1, <2>3, ServeTyped DEF ServeLate
  <2> QED BY <2>2, <2>3
<1> QED BY <1>3, <1>6, <1>7, <1>8, <1>9, <1>10, <1>11 DEF Time

\* the main thread, when it is not at a transfer,
LEMMA TickDoes ==
  ASSUME Good,
         \/ PullCancelMarkers \/ PullCancelsFails \/ PostStale
         \/ \E d \in Digests : SkipSignaled(d) \/ SignalCancel(d) \/ NoLiveSession(d)
         \/ KickAndLook \/ TakeSnapshot \/ PushInflight \/ PushSkipped \/ NothingToDo \/ GetPlanFails
         \/ LastDrain \/ Restart \/ StartupDrained \/ ListOrphansFails \/ StartupDone
  PROVE  Does /\ Follows
<1>1. store \in Directory /\ work \in [Workers -> Jobs] /\ drain \in [Drainers -> Drains]
  BY Typed DEF Good
<1>2. disk' = disk /\ hist' = hist
  BY DEF PullCancelMarkers, PullCancelsFails, PostStale, SkipSignaled, SignalCancel, NoLiveSession,
         KickAndLook, TakeSnapshot, PushInflight, PushSkipped, NothingToDo, GetPlanFails, LastDrain,
         Restart, StartupDrained, ListOrphansFails, StartupDone
<1>3. loop.pc # "transfer"
  BY DEF PullCancelMarkers, PullCancelsFails, PostStale, SkipSignaled, SignalCancel, NoLiveSession,
         KickAndLook, TakeSnapshot, PushInflight, PushSkipped, NothingToDo, GetPlanFails, LastDrain,
         Restart, StartupDrained, ListOrphansFails, StartupDone, Main
<1>4. \A d : NextMarker(d).pc \in {"publish", "signal"} /\ NextMarker(d).orphans = {}
  BY DEF NextMarker, AtPC
<1>5. loop'.pc # "transfer" /\ loop'.orphans \subseteq loop.orphans
  <2>1. CASE PullCancelMarkers \/ PullCancelsFails \/ KickAndLook \/ LastDrain \/ Restart
    BY <2>1 DEF PullCancelMarkers, PullCancelsFails, KickAndLook, LastDrain, Restart, AtPC
  <2>2. CASE PostStale \/ \E d \in Digests : SkipSignaled(d) \/ SignalCancel(d)
    BY <1>4, <2>2 DEF PostStale, SkipSignaled, SignalCancel
  <2>3. CASE \E d \in Digests : NoLiveSession(d)
    BY <2>3, Typed DEF NoLiveSession, Good, Loops
  <2>4. CASE TakeSnapshot
    <3>1. loop \in Loops
      BY Typed DEF Good
    <3>2. \/ loop' = [loop EXCEPT !.pc = "push", !.todo = {d \in Digests : active[d] # None}]
          \/ loop' = AtPC("plan")
      BY <2>4 DEF TakeSnapshot
    <3>3. CASE loop' = AtPC("plan")
      BY <3>3 DEF AtPC
    <3>4. ASSUME NEW todo, loop' = [loop EXCEPT !.pc = "push", !.todo = todo]
          PROVE  loop'.pc # "transfer" /\ loop'.orphans = loop.orphans
      BY <3>1, <3>4 DEF Loops
    <3> QED BY <3>2, <3>3, <3>4
  <2>5. CASE PushInflight \/ PushSkipped \/ NothingToDo \/ GetPlanFails \/ StartupDrained
             \/ ListOrphansFails \/ StartupDone
    BY <2>5 DEF PushInflight, PushSkipped, NothingToDo, GetPlanFails, StartupDrained,
                ListOrphansFails, StartupDone, AtPC
  <2> QED BY <2>1, <2>2, <2>3, <2>4, <2>5
<1>6. work' = work \/ WorkAside
  <2>1. ASSUME NEW d \in Digests, SignalCancel(d) PROVE WorkAside
    <3>1. active[d] \in Workers
      BY <2>1, Typed DEF SignalCancel, Good
    <3> QED BY <1>1, <2>1, <3>1 DEF SignalCancel, WorkAside, Jobs
  <2>2. CASE ~(\E d \in Digests : SignalCancel(d))
    BY <2>2 DEF PullCancelMarkers, PullCancelsFails, PostStale, SkipSignaled, NoLiveSession,
         KickAndLook, TakeSnapshot, PushInflight, PushSkipped, NothingToDo, GetPlanFails, LastDrain,
         Restart, StartupDrained, ListOrphansFails, StartupDone
  <2> QED BY <2>1, <2>2
<1>7. Sheds(store, store') /\ \A q \in late' : q.op = "upload" => q \in late
  <2>1. CASE PullCancelMarkers
    BY <1>1, <2>1, PullSheds DEF PullCancelMarkers
  <2>2. CASE PostStale
    <3> DEFINE r == [op |-> "stale", d |-> loop.cur]
    <3>1. r \in Requests /\ r.op = "stale"
      BY <2>2 DEF PostStale, Good, Shape, LoopShape, Main, Requests
    <3>2. CASE store' = Serve(store, r) /\ UNCHANGED <<late, net>>
      BY <1>1, <3>1, <3>2, ServeTyped
    <3>3. CASE Fail(r)
      BY <3>1, <3>3, ShedsNothing DEF Fail
    <3> QED BY <2>2, <3>2, <3>3 DEF PostStale
  <2>3. CASE PushInflight
    <3> DEFINE r == [op |-> "push", snap |-> loop.todo]
    <3>1. r \in Requests /\ r.op = "push"
      BY Typed DEF Good, Loops, Requests
    <3>2. CASE store' = Serve(store, r) /\ UNCHANGED <<late, net>>
      BY <1>1, <3>1, <3>2, ServeTyped
    <3>3. CASE Fail(r)
      BY <3>1, <3>3, ShedsNothing DEF Fail
    <3> QED BY <2>3, <3>2, <3>3 DEF PushInflight
  <2>4. CASE ~(PullCancelMarkers \/ PostStale \/ PushInflight)
    <3>1. store' = store /\ late' = late
      BY <2>4 DEF PullCancelsFails, SkipSignaled, SignalCancel, NoLiveSession,
         KickAndLook, TakeSnapshot, PushSkipped, NothingToDo, GetPlanFails, LastDrain,
         Restart, StartupDrained, ListOrphansFails, StartupDone
    <3> QED BY <3>1, ShedsNothing
  <2> QED BY <2>1, <2>2, <2>3, <2>4 DEF PullCancelMarkers
<1>8. \A p \in Drainers : drain'[p].pc = "post" => drain'[p] = drain[p]
  <2>1. CASE KickAndLook \/ LastDrain \/ Restart
    BY <1>1, <2>1 DEF KickAndLook, LastDrain, Restart, Drainers, Drains
  <2>2. CASE ~(KickAndLook \/ LastDrain \/ Restart)
    BY <2>2 DEF PullCancelMarkers, PullCancelsFails, PostStale, SkipSignaled, SignalCancel,
         NoLiveSession, TakeSnapshot, PushInflight, PushSkipped, NothingToDo, GetPlanFails,
         StartupDrained, ListOrphansFails, StartupDone
  <2> QED BY <2>1, <2>2
<1>9. Kept' = Kept
  BY <1>2 DEF Kept, Spooled
<1>10. Aside
  BY <1>2, <1>3, <1>5, <1>6, <1>7, <1>9, StandsAside DEF LoopAside
<1>11. Backlog' \subseteq Backlog \cup Known'
  BY <1>7, <1>8, BacklogMoves
<1> QED BY <1>5, <1>10, <1>11 DEF Does, Follows

\* the pickup,
LEMMA ClaimDoes ==
  ASSUME Good, RunInv, NEW d \in Digests, ClaimPlan(d)
  PROVE  Does /\ Follows
<1> DEFINE n == store.inputs[d].n
           r == <<d, n>>
<1>1. store \in Directory /\ store.inputs \in [Digests -> PlanFile] /\ store.done \in [Digests -> PlanFile]
  BY Typed DEF Good, Directory
<1>2. n \in Subs /\ r \in Runs /\ r[1] = d /\ r[2] = n
  BY <1>1, Values, RunsAre DEF ClaimPlan, Queued, PlanFile
<1>3. /\ store'.done = [store.done EXCEPT ![d] = store.inputs[d]]
      /\ store'.inputs = [store.inputs EXCEPT ![d] = NoFile]
  BY <1>1, PlanMoves DEF ClaimPlan
<1>4. loop' = [AtPC("transfer") EXCEPT !.cur = d, !.n = n] /\ loop.pc = "plan"
  BY DEF ClaimPlan, Main
<1>5. late' = late /\ work' = work /\ drain' = drain /\ disk' = disk /\ hist' = hist
  BY DEF ClaimPlan
<1>6. r \in Queue
  BY <1>2 DEF Queue
<1> HIDE DEF n
<1>7. Queue' = Queue \ {r}
  BY <1>1, <1>2, <1>3, <1>6, Values, RunsAre DEF Queue
<1>8. \A q \in Record : q[1] # d
  <2> SUFFICES ASSUME NEW q \in Record, q[1] = d PROVE FALSE
    OBVIOUS
  <2>1. q[2] = hist.subs[d] /\ r[2] = hist.subs[d]
    BY <1>2, <1>6 DEF RunInv, Latest
  <2>2. q = r
    BY <1>2, <2>1, RunsAre DEF Record
  <2> QED BY <1>6, <2>2 DEF RunInv, Unstarted
<1>9. Record' = Record \cup {r}
  BY <1>1, <1>2, <1>3, <1>8, RunsAre DEF Record, n
<1>10. Sending = {} /\ Sending' = {r}
  BY <1>2, <1>4 DEF Sending, Main, AtPC
<1>11. SameWork /\ Kept' = Kept /\ SameBooks
  BY <1>5 DEF SameWork, HeldBy, RunOf, Kept, Spooled, SameBooks
<1>12. Backlog' \subseteq Backlog \cup Known'
  BY <1>5, BacklogMoves
<1>13. loop'.orphans = {}
  BY <1>4 DEF AtPC
<1>14. Claims(r)
  BY <1>6, <1>7, <1>9, <1>10, <1>11 DEF Claims
<1> QED BY <1>2, <1>12, <1>13, <1>14 DEF Does, Follows

\* the run that is on its way,
LEMMA OnItsWay ==
  ASSUME Good, Main("transfer")
  PROVE  /\ <<loop.cur, loop.n>> \in Runs /\ Sending = {<<loop.cur, loop.n>>}
         /\ loop.cur \in Digests /\ loop.n \in Subs
<1>1. loop.cur \in Digests /\ loop.n \in Subs
  BY DEF Good, Shape, LoopShape, Main
<1> QED BY <1>1, RunsAre DEF Sending

\* and what becomes of it when the transfer fails,
LEMMA CutDoes ==
  ASSUME Good, RunInv, Main("transfer"), TransferCut
  PROVE  SameFiles \/ GoesBack(<<loop.cur, loop.n>>)
<1> DEFINE d == loop.cur
           r == <<loop.cur, loop.n>>
<1>1. store \in Directory /\ store.inputs \in [Digests -> PlanFile] /\ store.done \in [Digests -> PlanFile]
  BY Typed DEF Good, Directory
<1>2. r \in Runs /\ Sending = {r} /\ d \in Digests /\ loop.n \in Subs /\ r[1] = d /\ r[2] = loop.n
  BY OnItsWay, RunsAre
<1>3. CASE store' = store
  BY <1>3 DEF SameFiles, Queue, Record
<1>4. CASE store' = Rollback(store, d) /\ ~PickedUp(store, d)
  <2>1. store' = store
    BY <1>1, <1>2, <1>4, PlanMoves
  <2> QED BY <1>3, <2>1
<1>5. CASE store' = Rollback(store, d) /\ PickedUp(store, d)
  <2> DEFINE q == <<d, store.done[d].n>>
  <2>1. store.done[d].n \in Subs
    BY <1>1, <1>2, <1>5, Values DEF PickedUp, PlanFile
  <2>2. q \in Record /\ q[1] = d
    BY <1>2, <2>1, RunsAre DEF Record
  <2>3. q = r
    BY <1>2, <2>2 DEF RunInv, Unstarted
  <2>4. r \in Record /\ store.done[d].n = loop.n
    BY <1>2, <2>1, <2>2, <2>3, RunsAre
  <2>5. /\ store'.inputs = [store.inputs EXCEPT ![d] = store.done[d]]
        /\ store'.done = [store.done EXCEPT ![d] = NoFile]
    BY <1>1, <1>2, <1>5, PlanMoves
  <2> HIDE DEF q
  <2> HIDE DEF d
  <2>6. Record' = Record \ {r}
    BY <1>1, <1>2, <2>4, <2>5, Values, RunsAre DEF Record
  <2>7. \A p \in Queue : p[1] # d
    <3> SUFFICES ASSUME NEW p \in Queue, p[1] = d PROVE FALSE
      OBVIOUS
    <3>1. p[2] = hist.subs[d] /\ r[2] = hist.subs[d]
      BY <1>2, <2>4 DEF RunInv, Latest
    <3>2. p = r
      BY <1>2, <3>1, RunsAre DEF Queue, d
    <3> QED BY <2>4, <3>2 DEF RunInv, Unstarted
  <2>8. Queue' = Queue \cup {r}
    BY <1>1, <1>2, <2>4, <2>5, <2>7, RunsAre DEF Queue
  <2> QED BY <2>4, <2>6, <2>8 DEF GoesBack
<1> QED BY <1>3, <1>4, <1>5 DEF TransferCut

\* the end of a transfer,
LEMMA TransferDoes ==
  ASSUME Good, RunInv, "rollback" \notin LateOps,
         TransferFails \/ \E w \in Workers : PlanDelivered(w) \/ TransferTruncated(w)
  PROVE  Does /\ Follows
<1> DEFINE r == <<loop.cur, loop.n>>
<1>1. Main("transfer")
  BY DEF TransferFails, PlanDelivered, TransferTruncated
<1>2. r \in Runs /\ Sending = {r} /\ loop.cur \in Digests /\ loop.n \in Subs
  BY <1>1, OnItsWay
<1>3. loop' = AtPC("cancels") /\ drain' = drain /\ disk' = disk
  BY DEF TransferFails, PlanDelivered, TransferTruncated, Spawn
<1>4. Sending' = {} /\ loop'.orphans = {}
  BY <1>3 DEF Sending, Main, AtPC
<1>5. Kept' = Kept
  BY <1>3 DEF Kept, Spooled
<1>6. late' = late
  BY DEF TransferFails, PlanDelivered, TransferTruncated, TransferCut
<1>7. Backlog' \subseteq Backlog \cup Known'
  BY <1>3, <1>6, BacklogMoves
<1>8. Follows
  BY <1>4, <1>7 DEF Follows
<1>9. work \in [Workers -> Jobs] /\ hist \in Hists
  BY Typed DEF Good
<1> HIDE DEF r
<1>10. ASSUME TransferCut, SameWork, hist' = hist PROVE Does
  <2>1. SameFiles \/ GoesBack(r)
    BY <1>1, <1>10, CutDoes DEF r
  <2>2. Cuts(r)
    BY <1>2, <1>4, <1>5, <1>10, <2>1 DEF Cuts, SameBooks
  <2> QED BY <1>2, <2>2 DEF Does
<1>11. CASE TransferFails
  <2>1. SameWork
    BY <1>11 DEF TransferFails, SameWork, HeldBy, RunOf
  <2> QED BY <1>8, <1>10, <1>11, <2>1 DEF TransferFails
<1>12. ASSUME NEW w \in Workers, TransferTruncated(w) PROVE Does
  <2>1. \A v \in Workers : v # w => work'[v] = work[v]
    BY <1>9, <1>12 DEF TransferTruncated, Spawn
  <2>2. work[w].pc = "free" /\ work'[w].d = None
    BY <1>9, <1>12 DEF TransferTruncated, Spawn, Idle
  <2>3. HeldBy(w) = {} /\ HeldBy(w)' = {}
    BY <2>2, RunsAre DEF HeldBy, RunOf
  <2>4. \A v \in Workers : v # w => HeldBy(v)' = HeldBy(v)
    BY <2>1 DEF HeldBy, RunOf
  <2>5. SameWork
    BY <2>3, <2>4 DEF SameWork
  <2> QED BY <1>10, <1>12, <2>5 DEF TransferTruncated
<1>13. ASSUME NEW w \in Workers, PlanDelivered(w) PROVE Does
  <2>1. \A v \in Workers : v # w => work'[v] = work[v]
    BY <1>9, <1>13 DEF PlanDelivered, Spawn
  <2>2. /\ work[w].pc = "free"
        /\ work'[w].pc = "load" /\ work'[w].d = loop.cur /\ work'[w].n = loop.n
    BY <1>9, <1>13 DEF PlanDelivered, Spawn, Idle
  <2>3. HeldBy(w) = {} /\ HeldBy(w)' = {r}
    BY <1>2, <2>2 DEF HeldBy, RunOf, r
  <2>4. \A v \in Workers \ {w} : HeldBy(v)' = HeldBy(v)
    BY <2>1 DEF HeldBy, RunOf
  <2>5. /\ hist'.started = hist.started \cup {r}
        /\ hist'.subs = hist.subs /\ hist'.published = hist.published
    BY <1>9, <1>13 DEF PlanDelivered, Hists, r
  <2>6. SameFiles
    BY <1>13 DEF PlanDelivered, SameFiles, Queue, Record
  <2>7. Hands(r, w)
    BY <1>2, <1>4, <1>5, <2>3, <2>4, <2>5, <2>6 DEF Hands
  <2> QED BY <1>2, <2>7 DEF Does
<1> QED BY <1>8, <1>11, <1>12, <1>13

\* a worker,
LEMMA WorkDoes ==
  ASSUME Good, NEW w \in Workers, WorkStep(w)
  PROVE  Does /\ Follows
<1>1. work \in [Workers -> Jobs] /\ disk \in Disks
  BY Typed DEF Good
<1>2. UNCHANGED <<store, late, loop, drain, hist>>
  BY DEF WorkStep, Reject, Register, Pack, Pop, Spool, Worker
<1>3. LoopAside /\ Sheds(store, store') /\ Follows
  BY <1>2, ShedsNothing, FollowsStill DEF LoopAside
<1>4. CASE ~Spool(w)
  <2>1. disk' = disk
    BY <1>4 DEF WorkStep, Reject, Register, Pack, Pop
  <2>2. Kept' = Kept
    BY <2>1 DEF Kept, Spooled
  <2>3. \A v \in Workers : v # w => work'[v] = work[v]
    BY <1>1, <1>4 DEF WorkStep, Reject, Register, Pack, Pop
  <2>4. /\ work[w].pc # "free" /\ work'[w].pc # "free"
        /\ work'[w].d = work[w].d /\ work'[w].n = work[w].n
    BY <1>1, <1>4 DEF WorkStep, Reject, Register, Pack, Pop, Jobs
  <2>5. WorkAside
    BY <2>3, <2>4 DEF WorkAside
  <2> QED BY <1>2, <1>3, <2>2, <2>5, StandsAside DEF Does
<1>5. CASE Spool(w)
  <2>1. /\ disk' = [disk EXCEPT !.pending = @ \cup {Result(w)}]
        /\ work' = [work EXCEPT ![w] = Idle] /\ work[w].pc = "spool"
    BY <1>5 DEF Spool
  <2>2. disk'.pending = disk.pending \cup {Result(w)} /\ disk'.refused = disk.refused
    BY <1>1, <2>1 DEF Disks
  <2>3. HeldBy(w) = {r \in Runs : r = <<work[w].d, work[w].n>>}
    BY <2>1 DEF HeldBy, RunOf
  <2>4. Result(w).d = work[w].d /\ Result(w).n = work[w].n
    BY DEF Result
  <2>5. Kept' = Kept \cup HeldBy(w)
    BY <2>2, <2>3, <2>4 DEF Kept, Spooled
  <2>6. HeldBy(w)' = {}
    BY <1>1, <2>1, IdleTyped DEF HeldBy
  <2>7. \A v \in Workers \ {w} : HeldBy(v)' = HeldBy(v)
    BY <1>1, <2>1 DEF HeldBy, RunOf
  <2>8. SameFiles /\ Sending' = Sending /\ SameBooks
    BY <1>2, <1>3, SendingStays DEF SameFiles, Queue, Record, SameBooks
  <2>9. Finishes(w)
    BY <2>5, <2>6, <2>7, <2>8 DEF Finishes
  <2> QED BY <1>3, <2>9 DEF Does
<1> QED BY <1>4, <1>5

\* a drain,
LEMMA DrainDoes ==
  ASSUME Good, RunInv, NEW p \in Drainers, DrainStep(p) \/ UploadFails(p)
  PROVE  Does /\ Follows
<1>1. drain \in [Drainers -> Drains] /\ disk \in Disks
  BY Typed DEF Good
<1>2. UNCHANGED <<loop, work>>
  BY DEF DrainStep, ListPending, DrainDone, OpenSpool, UploadAccepted, UploadRefused, UploadParked,
         UploadFails
<1>3. LoopAside
  BY <1>2 DEF LoopAside
<1>4. \A q \in Drainers : q # p => drain'[q] = drain[q]
  BY <1>1 DEF DrainStep, ListPending, DrainDone, OpenSpool, UploadAccepted, UploadRefused, UploadParked,
              UploadFails, Posted
<1>5. drain'[p].pc = "post" => drain'[p].cur \in disk'.pending
  <2>1. CASE ListPending(p) \/ DrainDone(p)
    <3>1. CASE ListPending(p)
      BY <1>1, <3>1 DEF ListPending, NoDrain
    <3>2. CASE DrainDone(p)
      BY <1>1, <3>2, OffTyped DEF DrainDone
    <3> QED BY <2>1, <3>1, <3>2
  <2>2. CASE \E a \in drain[p].todo : OpenSpool(p, a)
    BY <1>1, <2>2 DEF OpenSpool, Drains
  <2>3. CASE Posted(p)
    BY <1>1, <2>3 DEF Posted, Drains
  <2> QED BY <2>1, <2>2, <2>3 DEF DrainStep, UploadAccepted, UploadRefused, UploadParked, UploadFails
<1>6. \A q \in late' : q.op = "upload" =>
            \/ q \in late
            \/ \E x \in Drainers : Drain(x, "post") /\ q.a = drain[x].cur
  <2>1. CASE UploadFails(p)
    <3>1. late' \subseteq late \cup {[op |-> "upload", a |-> drain[p].cur]} /\ Drain(p, "post")
      BY <2>1 DEF UploadFails, Fail
    <3> QED BY <3>1
  <2>2. CASE ~UploadFails(p)
    BY <2>2 DEF DrainStep, ListPending, DrainDone, OpenSpool, UploadAccepted, UploadRefused,
                UploadParked
  <2> QED BY <2>1, <2>2
<1>7. Backlog' \subseteq Backlog \cup Known'
  BY <1>4, <1>5, <1>6, BacklogMoves
<1>8. Follows
  BY <1>2, <1>7 DEF Follows
<1>9. CASE UploadAccepted(p)
  <2> DEFINE a == drain[p].cur
  <2>1. Drain(p, "post") /\ Accepts(a)
    BY <1>9 DEF UploadAccepted
  <2>2. a \in Posting
    BY <2>1, PostTyped DEF Posting
  <2>3. disk'.pending = disk.pending \ {a} /\ disk'.refused = disk.refused
    BY <1>1, <1>9 DEF UploadAccepted, Disks
  <2> HIDE DEF a
  <2>4. Kept' \subseteq Kept /\ Kept \subseteq Kept' \cup {<<a.d, a.n>>}
    BY <2>3 DEF Kept, Spooled
  <2>5. hist' = Publish(a) /\ store' = StoreArtefact(store, a)
    BY <1>9 DEF UploadAccepted, a
  <2>6. Does
    BY <1>2, <2>1, <2>2, <2>4, <2>5, PublishDoes
  <2> QED BY <1>8, <2>6
<1>10. CASE ~UploadAccepted(p)
  <2>1. store' = store /\ hist' = hist
    BY <1>10 DEF DrainStep, ListPending, DrainDone, OpenSpool, UploadRefused, UploadParked,
                 UploadFails, Fail
  <2>2. Kept' = Kept
    <3>1. CASE UploadParked(p)
      <4>1. /\ disk'.pending = disk.pending \ {drain[p].cur}
            /\ disk'.refused = disk.refused \cup ({drain[p].cur} \cap disk.pending)
        BY <1>1, <3>1 DEF UploadParked, Disks
      <4>2. disk'.pending \cup disk'.refused = disk.pending \cup disk.refused
        BY <4>1
      <4> QED BY <4>2 DEF Kept, Spooled
    <3>2. CASE ~UploadParked(p)
      <4>1. disk' = disk
        BY <1>10, <3>2 DEF DrainStep, ListPending, DrainDone, OpenSpool, UploadRefused, UploadFails
      <4> QED BY <4>1 DEF Kept, Spooled
    <3> QED BY <3>1, <3>2
  <2>3. Sheds(store, store')
    BY <2>1, ShedsNothing
  <2>4. Aside
    BY <1>2, <1>3, <2>1, <2>2, <2>3, StandsAside
  <2> QED BY <1>8, <2>4 DEF Does
<1> QED BY <1>9, <1>10

\* start-up,
LEMMA OrphansDo ==
  ASSUME Good, ListOrphans \/ \E r \in loop.orphans : FailOrphan(r)
  PROVE  Does /\ Follows
<1>1. /\ drain \in [Drainers -> Drains] /\ disk \in Disks /\ store \in Directory /\ loop \in Loops
      /\ "main" \in Drainers
  BY Typed DEF Good, Drainers
<1>2. UNCHANGED <<store, late, work, hist>>
  BY DEF ListOrphans, FailOrphan
<1>3. Sheds(store, store')
  BY <1>2, ShedsNothing
<1>4. CASE ListOrphans
  <2> DEFINE rows == RowsOf({d \in Digests : Running(store, d)} \ {a.d : a \in disk.pending})
  <2>1. rows \subseteq Record
    <3>1. ASSUME NEW d \in Digests, Running(store, d) PROVE <<d, store.done[d].n>> \in Record
      <4>1. store.done[d].n \in Subs
        BY <1>1, <3>1, Values DEF Running, PickedUp, Directory, PlanFile
      <4> QED BY <4>1, RunsAre DEF Record
    <3> QED BY <3>1 DEF RowsOf
  <2> HIDE DEF rows
  <2>2. loop' = [AtPC("b_orphans") EXCEPT !.orphans = rows] /\ loop.pc = "b_jobs"
    BY <1>4 DEF ListOrphans, Main, rows
  <2>3. loop'.orphans = rows /\ loop'.pc = "b_orphans"
    BY <2>2 DEF AtPC
  <2>4. Sending = {}
    BY <2>2 DEF Sending, Main
  <2>5. LoopAside
    BY <2>1, <2>2, <2>3, <2>4 DEF LoopAside
  <2>6. drain' = drain /\ disk' = disk
    BY <1>4 DEF ListOrphans
  <2>7. Kept' = Kept
    BY <2>6 DEF Kept, Spooled
  <2>8. Backlog' \subseteq Backlog \cup Known'
    BY <1>2, <2>6, BacklogMoves
  <2>9. Aside
    BY <1>2, <1>3, <2>5, <2>7, StandsAside
  <2> QED BY <2>5, <2>8, <2>9 DEF Does, Follows, LoopAside
<1>5. ASSUME NEW r \in loop.orphans, FailOrphan(r) PROVE Does /\ Follows
  <2> DEFINE a == [d |-> r[1], n |-> r[2], st |-> "failed"]
  <2>1. r \in Runs /\ <<a.d, a.n>> = r
    BY <1>1, RunsAre DEF Loops
  <2>2. disk'.pending = disk.pending \cup {a} /\ disk'.refused = disk.refused
    BY <1>1, <1>5 DEF FailOrphan, Disks
  <2>3. /\ drain'["main"].cur = a
        /\ \A p \in Drainers : p # "main" => drain'[p] = drain[p]
    BY <1>1, <1>5 DEF FailOrphan, NoDrain
  <2>4. loop'.orphans = loop.orphans \ {r} /\ loop'.pc = "b_orphans" /\ loop.pc = "b_orphans"
    BY <1>1, <1>5 DEF FailOrphan, Loops, Main
  <2>5. Held = {}
    BY <2>4 DEF Good, Shape, Booting, Held, HeldBy
  <2> HIDE DEF a
  <2>6. Kept' = Kept \cup {r}
    BY <2>1, <2>2 DEF Kept, Spooled
  <2>7. Sending' = Sending
    BY <2>4 DEF Sending, Main
  <2>8. SameFiles /\ SameWork /\ SameBooks
    BY <1>2 DEF SameFiles, Queue, Record, SameWork, HeldBy, RunOf, SameBooks
  <2>9. GivesUp(r)
    BY <2>5, <2>6, <2>7, <2>8 DEF GivesUp
  <2>10. Backlog' \subseteq Backlog \cup Known'
    <3>1. a \in disk'.pending
      BY <2>2
    <3>2. \A p \in Drainers : drain'[p] = drain[p] \/ drain'[p].cur \in disk'.pending
      BY <2>3, <3>1
    <3> QED BY <1>2, <3>2, BacklogMoves
  <2> QED BY <2>1, <2>4, <2>9, <2>10 DEF Does, Follows
<1> QED BY <1>4, <1>5

\* and a death.
LEMMA DeathDoes ==
  ASSUME Good, RunInv, "rollback" \notin LateOps, Crash \/ Interrupt \/ Exit
  PROVE  Does /\ Follows
<1>1. work \in [Workers -> Jobs] /\ late \subseteq Requests
  BY Typed DEF Good
<1>2. disk' = disk /\ hist' = hist
  BY DEF Crash, Interrupt, Exit
<1>3. Kept' = Kept /\ SameBooks
  BY <1>2 DEF Kept, Spooled, SameBooks
<1>4. loop'.pc \in {"down", "i_wait"} /\ loop'.orphans = {}
  BY DEF Crash, Interrupt, Exit, Die, AtPC
<1>5. Sending' = {}
  BY <1>4 DEF Sending, Main
<1>6. ASSUME NEW s, Leaves(s), s \subseteq OnLoop \cup OnDrains
      PROVE  \A q \in late' : q.op = "upload" =>
                \/ q \in late
                \/ \E x \in Drainers : Drain(x, "post") /\ q.a = drain[x].cur
  <2>1. late' \subseteq late \cup s
    BY <1>6 DEF Leaves
  <2>2. \A q \in s : q.op = "upload" => \E x \in Drainers : Drain(x, "post") /\ q.a = drain[x].cur
    BY <1>6, LeftTyped
  <2> QED BY <2>1, <2>2
<1>7. \A q \in late' : q.op = "upload" =>
                \/ q \in late
                \/ \E x \in Drainers : Drain(x, "post") /\ q.a = drain[x].cur
  <2>1. CASE TransferCut
    BY <2>1 DEF TransferCut
  <2>2. CASE Leaves(OnLoop \cup OnDrains)
    BY <1>6, <2>2
  <2>3. CASE Leaves(OnLoop)
    BY <1>6, <2>3
  <2>4. CASE Leaves(OnDrains)
    BY <1>6, <2>4
  <2> QED BY <2>1, <2>2, <2>3, <2>4 DEF Crash, Interrupt, Exit
<1>8. \A p \in Drainers : drain'[p].pc = "post" => drain'[p] = drain[p]
  <2>1. CASE Interrupt
    BY <2>1 DEF Interrupt
  <2>2. CASE Die
    BY <2>2, OffTyped DEF Die
  <2> QED BY <2>1, <2>2 DEF Crash, Exit
<1>9. Backlog' \subseteq Backlog \cup Known'
  BY <1>7, <1>8, BacklogMoves
<1>10. Follows
  BY <1>4, <1>9 DEF Follows
<1>11. Main("transfer") => <<loop.cur, loop.n>> \in Runs /\ Sending = {<<loop.cur, loop.n>>}
  BY OnItsWay
<1>12. ~Main("transfer") => Sending = {}
  BY DEF Sending
<1>13. \/ ~Main("transfer") /\ SameFiles
       \/ Main("transfer") /\ (SameFiles \/ GoesBack(<<loop.cur, loop.n>>))
  <2>1. CASE store' = store /\ ~Main("transfer")
    BY <2>1 DEF SameFiles, Queue, Record
  <2>2. CASE Main("transfer") /\ TransferCut
    BY <2>2, CutDoes
  <2> QED BY <2>1, <2>2 DEF Crash, Interrupt, Exit, Main
<1>14. CASE Die
  <2>1. \A w \in Workers : HeldBy(w)' = {}
    BY <1>14, IdleTyped DEF Die, HeldBy
  <2>2. Dies
    BY <1>3, <1>5, <1>11, <1>13, <2>1 DEF Dies
  <2> QED BY <1>10, <2>2 DEF Does
<1>15. CASE Interrupt
  <2>1. \A w \in Workers : work'[w] \in {work[w], [work[w] EXCEPT !.canceled = TRUE]}
    BY <1>15 DEF Interrupt
  <2>2. WorkAside
    BY <1>1, <2>1 DEF Jobs, WorkAside
  <2>3. SameWork
    BY <2>2, WorkStays
  <2>4. CASE Main("transfer")
    <3>1. Cuts(<<loop.cur, loop.n>>)
      BY <1>3, <1>5, <1>11, <1>13, <2>3, <2>4 DEF Cuts
    <3> QED BY <1>10, <1>11, <2>4, <3>1 DEF Does
  <2>5. CASE ~Main("transfer")
    <3>1. Aside
      BY <1>3, <1>5, <1>12, <1>13, <2>3, <2>5 DEF Aside, SameFiles
    <3> QED BY <1>10, <3>1 DEF Does
  <2> QED BY <2>4, <2>5
<1> QED BY <1>14, <1>15 DEF Crash, Exit

\* Every step is one of these.
LEMMA StepsDo ==
  ASSUME Good, RunInv, "rollback" \notin LateOps, [Next]_vars
  PROVE  Does /\ Follows
<1>1. CASE Users
  BY <1>1, UsersDo
<1>2. CASE Time
  BY <1>2, TimeDoes
<1>3. CASE LoopStep
  BY <1>3, TickDoes, ClaimDoes, TransferDoes, OrphansDo, DeathDoes DEF LoopStep
<1>4. CASE LoopFails
  BY <1>4, TickDoes, TransferDoes DEF LoopFails
<1>5. ASSUME NEW w \in Workers, WorkStep(w) PROVE Does /\ Follows
  BY <1>5, WorkDoes
<1>6. ASSUME NEW p \in Drainers, DrainStep(p) \/ UploadFails(p) PROVE Does /\ Follows
  BY <1>6, DrainDoes
<1>7. CASE Restart \/ Crash \/ Interrupt
  BY <1>7, TickDoes, DeathDoes
<1>8. CASE UNCHANGED vars
  <2>1. UNCHANGED <<store, late, loop, work, drain, disk, hist>>
    BY <1>8 DEF vars
  <2>2. LoopAside /\ Sheds(store, store') /\ Follows
    BY <2>1, ShedsNothing, FollowsStill DEF LoopAside
  <2>3. Kept' = Kept
    BY <2>1 DEF Kept, Spooled
  <2> QED BY <2>1, <2>2, <2>3, StandsAside DEF Does
<1> QED BY <1>1, <1>2, <1>3, <1>4, <1>5, <1>6, <1>7, <1>8 DEF Next, System

-----------------------------------------------------------------------------
(* What each of them leaves true *)

\* The sets of a step and the next are sets of runs.
LEMMA SetsOfRuns ==
  /\ Queue \subseteq Runs /\ Record \subseteq Runs /\ Sending \subseteq Runs /\ Kept \subseteq Runs
  /\ \A w \in Workers : HeldBy(w) \subseteq Held
  /\ \A r \in Held : \E w \in Workers : r \in HeldBy(w)
  BY DEF Queue, Record, Sending, Kept, Spooled, HeldBy, Held

\* Workers that stay, or let go, hold no more than they held.
LEMMA HeldFollows ==
  ASSUME \A w \in Workers : HeldBy(w)' = HeldBy(w) \/ HeldBy(w)' = {}
  PROVE  Held' \subseteq Held
<1>1. Held' = {r \in Runs : \E w \in Workers : r \in HeldBy(w)'}
  BY DEF Held
<1> QED BY <1>1 DEF Held

\* Submissions count up.
LEMMA SubsGrow ==
  ASSUME Good, NEW r \in Runs, Submits(r)
  PROVE  /\ hist.subs \in [Digests -> Int]
         /\ \A q \in Runs : hist.subs'[q[1]] >= hist.subs[q[1]]
         /\ \A q \in Runs : q[1] # r[1] => hist.subs'[q[1]] = hist.subs[q[1]]
         /\ hist.subs'[r[1]] = r[2]
<1>1. hist.subs \in [Digests -> Int]
  BY Typed, Values DEF Good, Hists
<1> QED BY <1>1, RunsAre DEF Submits

\* Workers: no run is with two of them, or with one of them and reported.
LEMMA WorkplaceKept ==
  ASSUME RunInv, Does, Follows
  PROVE  Workplace'
<1>1. Held \subseteq hist.started /\ Held \cap Known = {}
  BY DEF RunInv, Workplace
<1>2. \A v, w \in Workers : v # w => HeldBy(v) \cap HeldBy(w) = {}
  BY DEF RunInv, Workplace
<1>3. CASE Aside \/ Dies \/ \E r \in Runs : Submits(r) \/ Claims(r) \/ Cuts(r)
  <2>1. \A w \in Workers : HeldBy(w)' = HeldBy(w) \/ HeldBy(w)' = {}
    BY <1>3 DEF Aside, Dies, Submits, Claims, Cuts, SameWork
  <2>2. Held' \subseteq Held
    BY <2>1, HeldFollows
  <2>3. Known' = Known /\ hist'.started = hist.started
    BY <1>3 DEF Aside, Dies, Submits, Claims, Cuts, SameBooks, Known
  <2> QED BY <1>1, <1>2, <2>1, <2>2, <2>3 DEF Workplace
<1>4. ASSUME NEW r \in Runs, Reports(r) PROVE Workplace'
  <2>1. \A w \in Workers : HeldBy(w)' = HeldBy(w)
    BY <1>4 DEF Reports, SameWork
  <2>2. Held' \subseteq Held
    BY <2>1, HeldFollows
  <2>3. Known' \subseteq Known /\ hist'.started = hist.started
    BY <1>4 DEF Reports, Known
  <2> QED BY <1>1, <1>2, <2>1, <2>2, <2>3 DEF Workplace
<1>5. ASSUME NEW r \in Runs, GivesUp(r) PROVE Workplace'
  <2>1. \A w \in Workers : HeldBy(w)' = HeldBy(w)
    BY <1>5 DEF GivesUp, SameWork
  <2>2. Held' \subseteq Held
    BY <2>1, HeldFollows
  <2>3. Held = {} /\ hist'.started = hist.started
    BY <1>5 DEF GivesUp, SameBooks
  <2> QED BY <1>2, <2>1, <2>2, <2>3 DEF Workplace
<1>6. ASSUME NEW w \in Workers, Finishes(w) PROVE Workplace'
  <2>1. \A v \in Workers : HeldBy(v)' = HeldBy(v) \/ HeldBy(v)' = {}
    BY <1>6 DEF Finishes
  <2>2. Held' \subseteq Held /\ Held' \cap HeldBy(w) = {}
    <3>1. Held' = {r \in Runs : \E v \in Workers : r \in HeldBy(v)'}
      BY DEF Held
    <3>2. \A v \in Workers : HeldBy(v)' \cap HeldBy(w) = {}
      BY <1>2, <1>6 DEF Finishes
    <3> QED BY <2>1, <3>1, <3>2, HeldFollows
  <2>3. Known' = Known \cup HeldBy(w) /\ hist'.started = hist.started
    BY <1>6 DEF Finishes, Known, SameBooks
  <2> QED BY <1>1, <1>2, <2>1, <2>2, <2>3 DEF Workplace
<1>7. ASSUME NEW r \in Runs, NEW w \in Workers, Hands(r, w) PROVE Workplace'
  <2>1. r \in Sending /\ r \notin hist.started /\ r \notin Known
    BY <1>7 DEF Hands, RunInv, Unstarted
  <2>2. \A v \in Workers : v # w => HeldBy(v)' = HeldBy(v)
    BY <1>7 DEF Hands
  <2>3. HeldBy(w)' = {r} /\ Known' = Known /\ hist'.started = hist.started \cup {r}
    BY <1>7 DEF Hands, Known
  <2>4. Held' \subseteq Held \cup {r}
    <3>1. Held' = {q \in Runs : \E v \in Workers : q \in HeldBy(v)'}
      BY DEF Held
    <3> QED BY <2>2, <2>3, <3>1 DEF Held
  <2>5. \A v \in Workers : r \notin HeldBy(v)
    BY <1>1, <2>1, SetsOfRuns
  <2> QED BY <1>1, <1>2, <2>1, <2>2, <2>3, <2>4, <2>5 DEF Workplace
<1> QED BY <1>3, <1>4, <1>5, <1>6, <1>7 DEF Does

\* Plans that wait are fresh.
LEMMA UnstartedKept ==
  ASSUME Good, RunInv, Does, Follows
  PROVE  Unstarted'
<1> DEFINE Old == hist.started \cup Known \cup loop.orphans
<1>1. /\ (Queue \cup Sending) \cap Old = {}
      /\ Queue \cap (Sending \cup Record) = {}
      /\ \A r \in Sending, q \in Record : q[1] = r[1] => q = r
  BY DEF RunInv, Unstarted
<1>2. loop'.orphans \subseteq loop.orphans \cup (Record \ Sending)
  BY DEF Follows
<1>3. \A r \in Queue \cup Record : r[2] = hist.subs[r[1]]
  BY DEF RunInv, Latest
<1>4. \A r \in Sending \cup Old : r[2] <= hist.subs[r[1]]
  BY DEF RunInv, Latest
<1>5. Held \subseteq hist.started
  BY DEF RunInv, Workplace
<1> HIDE DEF Old
<1>6. ASSUME Queue' \subseteq Queue, Record' \subseteq Record, Sending' \subseteq Sending,
             hist'.started \cup Known' \subseteq Old
      PROVE  Unstarted'
  <2>1. (hist'.started \cup Known' \cup loop'.orphans) \subseteq Old \cup (Record \ Sending)
    BY <1>2, <1>6 DEF Old
  <2> QED BY <1>1, <1>6, <2>1 DEF Unstarted
<1>7. CASE Aside
  BY <1>6, <1>7 DEF Aside, SameBooks, Known, Old
<1>8. ASSUME NEW r \in Runs, Submits(r) PROVE Unstarted'
  <2>1. r \notin Sending /\ r \notin Old /\ r \notin Record /\ r \notin Queue
    <3>1. hist.subs[r[1]] \in Int
      BY SubsGrow, <1>8, RunsAre
    <3> QED BY <1>3, <1>4, <1>8, <3>1 DEF Submits
  <2>2. Queue' = Queue \cup {r} /\ Record' = Record /\ Sending' = Sending
    BY <1>8 DEF Submits
  <2>3. (hist'.started \cup Known' \cup loop'.orphans) \subseteq Old \cup (Record \ Sending)
    BY <1>2, <1>8 DEF Submits, Known, Old
  <2> QED BY <1>1, <2>1, <2>2, <2>3 DEF Unstarted
<1>9. ASSUME NEW r \in Runs, Claims(r) PROVE Unstarted'
  <2>1. Queue' = Queue \ {r} /\ Record' = Record \cup {r} /\ Sending' = {r} /\ r \in Queue
    BY <1>9 DEF Claims
  <2>2. (hist'.started \cup Known' \cup loop'.orphans) \subseteq Old \cup (Record \ Sending)
    BY <1>2, <1>9 DEF Claims, Known, Old, SameBooks
  <2>3. \A q \in Record : q[1] = r[1] => q = r
    BY <1>3, <2>1, RunsAre, SetsOfRuns
  <2> QED BY <1>1, <2>1, <2>2, <2>3 DEF Unstarted
<1>10. ASSUME NEW r \in Runs, GoesBack(r), Sending = {r}, Sending' = {}, SameBooks, Kept' = Kept
       PROVE  Unstarted'
  <2>1. Queue' = Queue \cup {r} /\ Record' = Record \ {r} /\ r \notin Old
    BY <1>1, <1>10 DEF GoesBack
  <2>2. (hist'.started \cup Known' \cup loop'.orphans) \subseteq Old \cup (Record \ Sending)
    BY <1>2, <1>10 DEF Known, Old, SameBooks
  <2> QED BY <1>1, <1>10, <2>1, <2>2 DEF Unstarted
<1>11. ASSUME NEW r \in Runs, Cuts(r) PROVE Unstarted'
  <2>1. CASE SameFiles
    BY <1>6, <1>11, <2>1 DEF Cuts, SameFiles, SameBooks, Known, Old
  <2>2. CASE GoesBack(r)
    BY <1>10, <1>11, <2>2 DEF Cuts
  <2> QED BY <1>11, <2>1, <2>2 DEF Cuts
<1>12. CASE Dies
  <2>1. CASE SameFiles
    BY <1>6, <1>12, <2>1 DEF Dies, SameFiles, SameBooks, Known, Old
  <2>2. ASSUME NEW r \in Runs, Sending = {r}, GoesBack(r) PROVE Unstarted'
    BY <1>10, <1>12, <2>2 DEF Dies
  <2> QED BY <1>12, <2>1, <2>2 DEF Dies
<1>13. ASSUME NEW w \in Workers, Finishes(w) PROVE Unstarted'
  <2>1. hist'.started \cup Known' \subseteq Old
    BY <1>5, <1>13, SetsOfRuns DEF Finishes, Known, Old, SameBooks
  <2> QED BY <1>6, <1>13, <2>1 DEF Finishes, SameFiles
<1>14. ASSUME NEW r \in Runs, Reports(r) PROVE Unstarted'
  <2>1. hist'.started \cup Known' \subseteq Old
    BY <1>14 DEF Reports, Known, Old
  <2> QED BY <1>6, <1>14, <2>1 DEF Reports, SameFiles
<1>15. ASSUME NEW r \in Runs, GivesUp(r) PROVE Unstarted'
  <2>1. hist'.started \cup Known' \subseteq Old
    BY <1>15 DEF GivesUp, Known, Old, SameBooks
  <2> QED BY <1>6, <1>15, <2>1 DEF GivesUp, SameFiles
<1>16. ASSUME NEW r \in Runs, NEW w \in Workers, Hands(r, w) PROVE Unstarted'
  <2>1. Queue' = Queue /\ Record' = Record /\ Sending' = {} /\ Sending = {r}
    BY <1>16 DEF Hands, SameFiles
  <2>2. (hist'.started \cup Known' \cup loop'.orphans) \subseteq Old \cup {r} \cup (Record \ Sending)
    BY <1>2, <1>16 DEF Hands, Known, Old
  <2> QED BY <1>1, <2>1, <2>2 DEF Unstarted
<1> QED BY <1>7, <1>8, <1>9, <1>11, <1>12, <1>13, <1>14, <1>15, <1>16 DEF Does

\* Files are those of the latest submission.
LEMMA LatestKept ==
  ASSUME Good, RunInv, Does, Follows
  PROVE  Latest'
<1> DEFINE Old == hist.started \cup Known \cup loop.orphans
           New == hist'.started \cup Known' \cup loop'.orphans
<1>1. \A r \in Queue \cup Record : r[2] = hist.subs[r[1]]
  BY DEF RunInv, Latest
<1>2. \A r \in Sending \cup Old : r[2] <= hist.subs[r[1]]
  BY DEF RunInv, Latest
<1>3. loop'.orphans \subseteq loop.orphans \cup (Record \ Sending)
  BY DEF Follows
<1>4. hist.subs \in [Digests -> Int] /\ hist.started \subseteq Runs /\ hist.published \subseteq Runs
      /\ loop.orphans \subseteq Runs
  BY Typed, Values DEF Good, Hists, Loops
<1>5. Old \subseteq Runs /\ Queue \subseteq Runs /\ Record \subseteq Runs /\ Sending \subseteq Runs
  BY <1>4, SetsOfRuns DEF Known
<1>6. Held \subseteq hist.started
  BY DEF RunInv, Workplace
<1> HIDE DEF Old
<1>7. \A r \in Queue \cup Record : r[2] <= hist.subs[r[1]]
  BY <1>1, <1>5, RunsAre
<1>8. ASSUME Queue' \cup Record' \subseteq Queue \cup Record, Sending' \subseteq Sending \cup Queue,
             hist'.started \cup Known' \subseteq Old \cup Sending, hist'.subs = hist.subs
      PROVE  Latest'
  <2>1. New \subseteq Old \cup Sending \cup Record
    BY <1>3, <1>8 DEF Old
  <2> QED BY <1>1, <1>2, <1>7, <1>8, <2>1 DEF Latest
<1>9. CASE Aside
  BY <1>8, <1>9 DEF Aside, SameBooks, Known, Old
<1>10. ASSUME NEW r \in Runs, Submits(r) PROVE Latest'
  <2>1. New \subseteq Old \cup Record
    BY <1>3, <1>10 DEF Submits, Known, Old
  <2>2. \A q \in Queue' \cup Record' : q[2] = hist.subs'[q[1]]
    BY <1>1, <1>5, <1>10, SubsGrow DEF Submits
  <2>3. \A q \in Sending \cup Old \cup Record : q[2] <= hist.subs'[q[1]]
    <3> SUFFICES ASSUME NEW q \in Sending \cup Old \cup Record PROVE q[2] <= hist.subs'[q[1]]
      OBVIOUS
    <3>1. q \in Runs /\ q[2] <= hist.subs[q[1]]
      BY <1>2, <1>5, <1>7
    <3>2. hist.subs'[q[1]] >= hist.subs[q[1]] /\ hist.subs[q[1]] \in Int /\ hist.subs'[q[1]] \in Int
      <4>1. hist.subs' \in [Digests -> Int]
        BY <1>4, <1>10, RunsAre DEF Submits
      <4> QED BY <1>4, <1>10, <3>1, <4>1, SubsGrow, RunsAre
    <3> QED BY <3>1, <3>2, RunsAre
  <2>4. Sending' = Sending /\ hist'.subs = hist.subs'
    BY <1>10 DEF Submits
  <2> QED BY <2>1, <2>2, <2>3, <2>4 DEF Latest
<1>11. ASSUME NEW r \in Runs, Claims(r) PROVE Latest'
  <2>1. hist'.started \cup Known' \subseteq Old
    BY <1>11 DEF Claims, Known, Old, SameBooks
  <2> QED BY <1>8, <1>11, <2>1 DEF Claims, SameBooks
<1>12. ASSUME NEW r \in Runs, Cuts(r) PROVE Latest'
  <2>1. hist'.started \cup Known' \subseteq Old
    BY <1>12 DEF Cuts, Known, Old, SameBooks
  <2>2. Queue' \cup Record' \subseteq Queue \cup Record
    BY <1>12 DEF Cuts, SameFiles, GoesBack
  <2> QED BY <1>8, <1>12, <2>1, <2>2 DEF Cuts, SameBooks
<1>13. CASE Dies
  <2>1. hist'.started \cup Known' \subseteq Old
    BY <1>13 DEF Dies, Known, Old, SameBooks
  <2>2. Queue' \cup Record' \subseteq Queue \cup Record
    BY <1>13 DEF Dies, SameFiles, GoesBack
  <2> QED BY <1>8, <1>13, <2>1, <2>2 DEF Dies, SameBooks
<1>14. ASSUME NEW w \in Workers, Finishes(w) PROVE Latest'
  <2>1. hist'.started \cup Known' \subseteq Old
    BY <1>6, <1>14, SetsOfRuns DEF Finishes, Known, Old, SameBooks
  <2> QED BY <1>8, <1>14, <2>1 DEF Finishes, SameFiles, SameBooks
<1>15. ASSUME NEW r \in Runs, Reports(r) PROVE Latest'
  <2>1. hist'.started \cup Known' \subseteq Old
    BY <1>15 DEF Reports, Known, Old
  <2> QED BY <1>8, <1>15, <2>1 DEF Reports, SameFiles
<1>16. ASSUME NEW r \in Runs, GivesUp(r) PROVE Latest'
  <2>1. hist'.started \cup Known' \subseteq Old
    BY <1>16 DEF GivesUp, Known, Old, SameBooks
  <2> QED BY <1>8, <1>16, <2>1 DEF GivesUp, SameFiles, SameBooks
<1>17. ASSUME NEW r \in Runs, NEW w \in Workers, Hands(r, w) PROVE Latest'
  <2>1. hist'.started \cup Known' \subseteq Old \cup Sending
    BY <1>17 DEF Hands, Known, Old
  <2> QED BY <1>8, <1>17, <2>1 DEF Hands, SameFiles
<1> QED BY <1>9, <1>10, <1>11, <1>12, <1>13, <1>14, <1>15, <1>16, <1>17 DEF Does

\* Uploads are backed by a file, or were made.
LEMMA BackedKept ==
  ASSUME RunInv, Does, Follows
  PROVE  Backed'
<1>1. Backlog \subseteq Known /\ Backlog' \subseteq Backlog \cup Known'
  BY DEF RunInv, Backed, Follows
<1>2. Known \subseteq Known'
  BY DEF Does, Aside, Dies, Submits, Claims, Cuts, Reports, GivesUp, Hands, Finishes, SameBooks, Known
<1> QED BY <1>1, <1>2 DEF Backed

\* The invariant of the runs holds at the start,
LEMMA RunFirst == Init => RunInv
<1> SUFFICES ASSUME Init PROVE RunInv
  OBVIOUS
<1>1. \A d \in Digests : store.inputs[d].n = 0 /\ store.done[d].n = 0
  BY Values DEF Init, EmptyDirectory
<1>2. Queue = {} /\ Record = {}
  BY <1>1, RunsAre DEF Queue, Record
<1>3. Sending = {} /\ loop.orphans = {}
  BY DEF Init, AtPC, Sending, Main
<1>4. Held = {} /\ \A w \in Workers : HeldBy(w) = {}
  BY IdleTyped DEF Init, Held, HeldBy
<1>5. Known = {} /\ hist.started = {}
  BY DEF Init, Known, Kept, Spooled
<1>6. Backlog = {}
  BY OffTyped DEF Init, Backlog, Spooled, Posting, Drain
<1> QED BY <1>2, <1>3, <1>4, <1>5, <1>6 DEF RunInv, Workplace, Unstarted, Latest, Backed

\* every kind of step keeps it,
LEMMA RunKept ==
  ASSUME Good, RunInv, Does, Follows
  PROVE  RunInv'
  BY WorkplaceKept, UnstartedKept, LatestKept, BackedKept DEF RunInv

\* and so does every step.
LEMMA RunNext == "rollback" \notin LateOps /\ Good /\ RunInv /\ [Next]_vars => RunInv'
  BY StepsDo, RunKept

-----------------------------------------------------------------------------
(* JobSystem implements JobLedger *)

\* The stage of a run, from the sets it is in.
Place(r, held, published, kept, started, claimed, queued, subs) ==
    IF r \in held THEN "running"
    ELSE IF r \in published THEN "reported"
    ELSE IF r \in kept THEN "kept"
    ELSE IF r \in started THEN "lost"
    ELSE IF r \in claimed THEN "claimed"
    ELSE IF r \in queued THEN "queued"
    ELSE IF r[2] > subs[r[1]] THEN "none" ELSE "withdrawn"

\* A run is at one stage, the one its places say.
LEMMA StageIs ==
  ASSUME NEW r \in Runs
  PROVE  Stage(r) = Place(r, Held, hist.published, Kept, hist.started, Sending \cup Record,
                          Queue, hist.subs)
<1>1. r \in Held <=> \E w \in Workers : work[w].pc # "free" /\ RunOf(w) = r
  BY DEF Held, HeldBy
<1>2. r \in Kept <=> \E a \in disk.pending \cup disk.refused : <<a.d, a.n>> = r
  BY DEF Kept, Spooled
<1>3. r \in Sending <=> Main("transfer") /\ loop.cur = r[1] /\ loop.n = r[2]
  BY RunsAre DEF Sending
<1>4. (r \in Record <=> store.done[r[1]].n = r[2]) /\ (r \in Queue <=> store.inputs[r[1]].n = r[2])
  BY DEF Record, Queue
<1> QED BY <1>1, <1>2, <1>3, <1>4 DEF Stage, Place

\* The same after a step.
LEMMA StageIsNext ==
  ASSUME NEW r \in Runs
  PROVE  Stage(r)' = Place(r, Held', hist'.published, Kept', hist'.started, Sending' \cup Record',
                           Queue', hist'.subs)
<1>1. r \in Held' <=> (\E w \in Workers : work[w].pc # "free" /\ RunOf(w) = r)'
  BY DEF Held, HeldBy
<1>2. r \in Kept' <=> (\E a \in disk.pending \cup disk.refused : <<a.d, a.n>> = r)'
  BY DEF Kept, Spooled
<1>3. r \in Sending' <=> (Main("transfer") /\ loop.cur = r[1] /\ loop.n = r[2])'
  BY RunsAre DEF Sending
<1>4. (r \in Record' <=> store'.done[r[1]].n = r[2]) /\ (r \in Queue' <=> store'.inputs[r[1]].n = r[2])
  BY DEF Record, Queue
<1> QED BY <1>1, <1>2, <1>3, <1>4 DEF Stage, Place

\* One run moves.
LEMMA OneMoves ==
  ASSUME NEW r \in Runs, NEW to, Stage(r)' = to, \A q \in Runs : q # r => Stage(q)' = Stage(q)
  PROVE  Life' = [Life EXCEPT ![r] = to] /\ Life[r] = Stage(r)
  BY DEF Life

\* A step in which no run changes its place is a stutter of the ledger.
LEMMA NoneMoves ==
  ASSUME \A q \in Runs : Stage(q)' = Stage(q)
  PROVE  Life' = Life
  BY DEF Life

\* Some are withdrawn.
LEMMA SomeGo ==
  ASSUME \A q \in Runs : \/ Stage(q)' = Stage(q)
                         \/ Stage(q) \in {"queued", "claimed"} /\ Stage(q)' = "withdrawn"
  PROVE  Ledger!Withdraw
<1> DEFINE gone == {q \in Runs : Stage(q)' # Stage(q)}
<1>1. gone \in SUBSET {q \in Runs : Life[q] \in {"queued", "claimed"}}
  BY DEF Life
<1>2. Life' = [q \in Runs |-> IF q \in gone THEN "withdrawn" ELSE Life[q]]
  BY DEF Life
<1> HIDE DEF gone
<1> QED BY <1>1, <1>2 DEF Ledger!Withdraw

\* What the sets say of one another.
LEMMA SetsApart ==
  ASSUME Good, RunInv, NEW r \in Runs
  PROVE  /\ r \in Held => r \in hist.started /\ r \notin hist.published /\ r \notin Kept
         /\ r \in Queue \cup Sending => /\ r \notin Held /\ r \notin hist.published /\ r \notin Kept
                                        /\ r \notin hist.started /\ r \notin loop.orphans
         /\ r \in Queue => r \notin Sending /\ r \notin Record
         /\ r \in Queue \cup Record \cup Sending \cup loop.orphans => ~(r[2] > hist.subs[r[1]])
<1>1. /\ r \in Held => r \in hist.started /\ r \notin hist.published /\ r \notin Kept
      /\ r \in Queue \cup Sending => /\ r \notin Held /\ r \notin hist.published /\ r \notin Kept
                                     /\ r \notin hist.started /\ r \notin loop.orphans
      /\ r \in Queue => r \notin Sending /\ r \notin Record
  BY DEF RunInv, Workplace, Unstarted, Known
<1>2. hist.subs[r[1]] \in Int
  BY Typed, Values, RunsAre DEF Good, Hists
<1>3. r \in Queue \cup Record => r[2] = hist.subs[r[1]]
  BY DEF RunInv, Latest
<1>4. r \in Sending \cup loop.orphans => r[2] <= hist.subs[r[1]]
  BY DEF RunInv, Latest
<1> QED BY <1>1, <1>2, <1>3, <1>4, RunsAre

\* Workers that stay.
LEMMA HeldStays ==
  ASSUME SameWork
  PROVE  Held' = Held
<1>1. Held' = {r \in Runs : \E w \in Workers : r \in HeldBy(w)'}
  BY DEF Held
<1> QED BY <1>1 DEF SameWork, Held

\* Steps aside withdraw some, or none;
LEMMA AsideRefines ==
  ASSUME Good, RunInv, Aside
  PROVE  Ledger!Withdraw
<1>1. Held' = Held /\ Kept' = Kept /\ Sending' = Sending /\ SameBooks
  BY HeldStays DEF Aside
<1>2. ASSUME NEW q \in Runs
      PROVE  \/ Stage(q)' = Stage(q)
             \/ Stage(q) \in {"queued", "claimed"} /\ Stage(q)' = "withdrawn"
  BY <1>1, StageIs, StageIsNext, SetsApart DEF Aside, SameBooks, Place
<1> QED BY <1>2, SomeGo

\* a submission,
LEMMA SubmitsRefines ==
  ASSUME Good, RunInv, NEW r \in Runs, Submits(r)
  PROVE  Ledger!Submit(r)
<1>1. Held' = Held /\ Kept' = Kept /\ Sending' = Sending /\ Record' = Record /\ Queue' = Queue \cup {r}
      /\ hist'.started = hist.started /\ hist'.published = hist.published /\ hist'.subs = hist.subs'
  BY HeldStays DEF Submits
<1>2. hist.subs[r[1]] \in Int /\ r[2] = hist.subs[r[1]] + 1
  BY SubsGrow, RunsAre DEF Submits
<1>3. \A q \in hist.started \cup Known : q[2] <= hist.subs[q[1]]
  BY DEF RunInv, Latest
<1>4. /\ r \notin Held /\ r \notin hist.published /\ r \notin Kept /\ r \notin hist.started
      /\ r \notin Sending \cup Record /\ r \notin Queue /\ r[2] > hist.subs[r[1]]
  BY <1>2, <1>3, SetsApart DEF Known
<1>5. Stage(r) = "none" /\ Stage(r)' = "queued"
  BY <1>1, <1>4, StageIs, StageIsNext DEF Place
<1>6. ASSUME NEW q \in Runs, q # r PROVE Stage(q)' = Stage(q)
  <2>1. q[2] > hist.subs[q[1]] <=> q[2] > hist'.subs[q[1]]
    <3>1. CASE q[1] = r[1]
      <4>1. q[2] # r[2] /\ q[2] \in Int
        BY <1>6, <3>1, RunsAre
      <4>2. hist'.subs[q[1]] = r[2]
        BY <1>1, <3>1, SubsGrow
      <4> QED BY <1>2, <3>1, <4>1, <4>2
    <3>2. CASE q[1] # r[1]
      BY <1>1, <3>2, SubsGrow
    <3> QED BY <3>1, <3>2
  <2> QED BY <1>1, <1>6, <2>1, StageIs, StageIsNext DEF Place
<1> QED BY <1>5, <1>6, OneMoves DEF Ledger!Submit, Ledger!Move

\* a claim,
LEMMA ClaimsRefines ==
  ASSUME Good, RunInv, NEW r \in Runs, Claims(r)
  PROVE  Ledger!Claim(r)
<1>1. /\ Held' = Held /\ Kept' = Kept /\ Sending = {} /\ Sending' = {r} /\ SameBooks
      /\ Record' = Record \cup {r} /\ Queue' = Queue \ {r} /\ r \in Queue
  BY HeldStays DEF Claims
<1>2. Stage(r) = "queued" /\ Stage(r)' = "claimed"
  BY <1>1, StageIs, StageIsNext, SetsApart DEF Place, SameBooks
<1>3. ASSUME NEW q \in Runs, q # r PROVE Stage(q)' = Stage(q)
  BY <1>1, <1>3, StageIs, StageIsNext DEF Place, SameBooks
<1> QED BY <1>2, <1>3, OneMoves DEF Ledger!Claim, Ledger!Move

\* a plan that reaches a worker,
LEMMA HandsRefines ==
  ASSUME Good, RunInv, NEW r \in Runs, NEW w \in Workers, Hands(r, w)
  PROVE  Ledger!Hand(r)
<1>1. /\ Kept' = Kept /\ Sending = {r} /\ Sending' = {} /\ Queue' = Queue /\ Record' = Record
      /\ hist'.started = hist.started \cup {r}
      /\ hist'.subs = hist.subs /\ hist'.published = hist.published
  BY DEF Hands, SameFiles
<1>2. Held' = Held \cup {r}
  <2>1. Held' = {q \in Runs : \E v \in Workers : q \in HeldBy(v)'}
    BY DEF Held
  <2>2. \A v \in Workers : HeldBy(v)' = IF v = w THEN {r} ELSE HeldBy(v)
    BY DEF Hands
  <2>3. HeldBy(w) = {}
    BY DEF Hands
  <2> QED BY <2>1, <2>2, <2>3 DEF Held
<1>3. Stage(r) = "claimed" /\ Stage(r)' = "running"
  BY <1>1, <1>2, StageIs, StageIsNext, SetsApart DEF Place
<1>4. ASSUME NEW q \in Runs, q # r PROVE Stage(q)' = Stage(q)
  BY <1>1, <1>2, <1>4, StageIs, StageIsNext DEF Place
<1> QED BY <1>3, <1>4, OneMoves DEF Ledger!Hand, Ledger!Move

\* one that does not,
LEMMA CutsRefines ==
  ASSUME Good, RunInv, NEW r \in Runs, Cuts(r)
  PROVE  Ledger!GiveBack(r) \/ Ledger!Withdraw
<1>1. /\ Held' = Held /\ Kept' = Kept /\ Sending = {r} /\ Sending' = {} /\ SameBooks
  BY HeldStays DEF Cuts
<1>2. Stage(r) = "claimed"
  BY <1>1, StageIs, SetsApart DEF Place
<1>3. CASE SameFiles
  <2>1. ASSUME NEW q \in Runs
        PROVE  \/ Stage(q)' = Stage(q)
               \/ Stage(q) \in {"queued", "claimed"} /\ Stage(q)' = "withdrawn"
    BY <1>1, <1>3, StageIs, StageIsNext, SetsApart DEF SameFiles, Place, SameBooks
  <2> QED BY <2>1, SomeGo
<1>4. CASE GoesBack(r)
  <2>1. Stage(r)' = "queued"
    BY <1>1, <1>4, StageIsNext, SetsApart DEF GoesBack, Place, SameBooks
  <2>2. ASSUME NEW q \in Runs, q # r PROVE Stage(q)' = Stage(q)
    BY <1>1, <1>4, <2>2, StageIs, StageIsNext DEF GoesBack, Place, SameBooks
  <2> QED BY <1>2, <2>1, <2>2, OneMoves DEF Ledger!GiveBack, Ledger!Move
<1> QED BY <1>3, <1>4 DEF Cuts

\* a result that is spooled,
LEMMA FinishesRefines ==
  ASSUME Good, RunInv, NEW w \in Workers, Finishes(w)
  PROVE  (\E r \in Runs : Ledger!Finish(r)) \/ Life' = Life
<1>1. Queue' = Queue /\ Record' = Record /\ Sending' = Sending /\ SameBooks
  BY DEF Finishes, SameFiles
<1>2. \A v \in Workers : HeldBy(v)' = IF v = w THEN {} ELSE HeldBy(v)
  BY DEF Finishes
<1>3. \A v \in Workers : v # w => HeldBy(v) \cap HeldBy(w) = {}
  BY DEF RunInv, Workplace
<1>4. Held' = Held \ HeldBy(w)
  <2>1. Held' = {q \in Runs : \E v \in Workers : q \in HeldBy(v)'}
    BY DEF Held
  <2> QED BY <1>2, <1>3, <2>1 DEF Held
<1>5. Kept' = Kept \cup HeldBy(w)
  BY DEF Finishes
<1>6. CASE HeldBy(w) = {}
  <2>1. ASSUME NEW q \in Runs PROVE Stage(q)' = Stage(q)
    BY <1>1, <1>4, <1>5, <1>6, StageIs, StageIsNext DEF Place, SameBooks
  <2> QED BY <2>1, NoneMoves
<1>7. ASSUME NEW r \in HeldBy(w) PROVE \E q \in Runs : Ledger!Finish(q)
  <2>1. r \in Runs /\ HeldBy(w) = {r} /\ r \in Held
    BY <1>7, SetsOfRuns DEF HeldBy
  <2>2. Stage(r) = "running" /\ Stage(r)' = "kept"
    BY <1>1, <1>4, <1>5, <2>1, StageIs, StageIsNext, SetsApart DEF Place, SameBooks
  <2>3. ASSUME NEW q \in Runs, q # r PROVE Stage(q)' = Stage(q)
    BY <1>1, <1>4, <1>5, <2>1, <2>3, StageIs, StageIsNext DEF Place, SameBooks
  <2>4. Ledger!Finish(r)
    BY <2>1, <2>2, <2>3, OneMoves DEF Ledger!Finish, Ledger!Move
  <2> QED BY <2>1, <2>4
<1> QED BY <1>6, <1>7

\* that reaches the server,
LEMMA ReportsRefines ==
  ASSUME Good, RunInv, NEW r \in Runs, Reports(r)
  PROVE  Ledger!Report(r) \/ Life' = Life
<1>1. /\ Held' = Held /\ Queue' = Queue /\ Record' = Record /\ Sending' = Sending
      /\ hist'.started = hist.started /\ hist'.subs = hist.subs
      /\ hist'.published = hist.published \cup {r}
      /\ Kept' \subseteq Kept /\ Kept \subseteq Kept' \cup {r} /\ r \in Known
  BY HeldStays DEF Reports, SameFiles
<1>2. ASSUME NEW q \in Runs, q # r PROVE Stage(q)' = Stage(q)
  BY <1>1, <1>2, StageIs, StageIsNext DEF Place
<1>3. CASE r \in hist.published
  <2>1. Stage(r)' = Stage(r)
    BY <1>1, <1>3, StageIs, StageIsNext DEF Place
  <2> QED BY <1>2, <2>1, NoneMoves
<1>4. CASE r \notin hist.published
  <2>1. Stage(r) = "kept" /\ Stage(r)' = "reported"
    BY <1>1, <1>4, StageIs, StageIsNext, SetsApart DEF Place, Known
  <2> QED BY <1>2, <2>1, OneMoves DEF Ledger!Report, Ledger!Move
<1> QED BY <1>3, <1>4

\* a run that is given up,
LEMMA GivesUpRefines ==
  ASSUME Good, RunInv, NEW r \in Runs, GivesUp(r)
  PROVE  Ledger!GiveUp(r) \/ Life' = Life
<1>1. /\ Held' = Held /\ Held = {} /\ Queue' = Queue /\ Record' = Record /\ Sending' = Sending
      /\ SameBooks /\ Kept' = Kept \cup {r} /\ r \in loop.orphans
  BY HeldStays DEF GivesUp, SameFiles
<1>2. ASSUME NEW q \in Runs, q # r PROVE Stage(q)' = Stage(q)
  BY <1>1, <1>2, StageIs, StageIsNext DEF Place, SameBooks
<1>3. CASE r \in Known
  <2>1. Stage(r)' = Stage(r)
    BY <1>1, <1>3, StageIs, StageIsNext DEF Place, SameBooks, Known
  <2> QED BY <1>2, <2>1, NoneMoves
<1>4. CASE r \notin Known
  <2>1. Stage(r) \in {"claimed", "lost", "withdrawn"} /\ Stage(r)' = "kept"
    BY <1>1, <1>4, StageIs, StageIsNext, SetsApart DEF Place, Known, SameBooks
  <2> QED BY <1>2, <2>1, OneMoves DEF Ledger!GiveUp, Ledger!Move
<1> QED BY <1>3, <1>4

\* and the death of the process.
LEMMA DiesRefines ==
  ASSUME Good, RunInv, Dies
  PROVE  Ledger!Crash
<1>1. Sending' = {} /\ Kept' = Kept /\ SameBooks
  BY DEF Dies
<1>2. Held' = {}
  BY DEF Dies, Held
<1>3. \A p, q \in Sending : p = q
  BY DEF Sending
<1>4. \A q \in Runs : Stage(q) = "running" <=> q \in Held
  BY StageIs DEF Place
<1>5. \A q \in Runs : q \in Held => Stage(q)' = "lost"
  BY <1>1, <1>2, StageIsNext, SetsApart DEF Place, SameBooks
<1>6. \A q \in Runs : q \in Sending => Stage(q) = "claimed"
  BY StageIs, SetsApart DEF Place
<1>7. ASSUME NEW to \in {"queued", "withdrawn"}, NEW cut \in SUBSET Sending,
             \A q \in cut : Stage(q)' = to,
             \A q \in Runs : q \notin Held /\ q \notin cut => Stage(q)' = Stage(q)
      PROVE  Ledger!Crash
  <2>1. cut \in SUBSET {q \in Runs : Life[q] = "claimed"}
    BY <1>6, <1>7, SetsOfRuns DEF Life
  <2>2. \A p, q \in cut : p = q
    BY <1>3
  <2>3. ASSUME NEW q \in Runs
        PROVE  Stage(q)' = CASE Life[q] = "running" -> "lost" [] q \in cut -> to [] OTHER -> Life[q]
    <3>1. Life[q] = Stage(q)
      BY DEF Life
    <3>2. CASE q \in Held
      BY <1>4, <1>5, <1>6, <3>1, <3>2
    <3>3. CASE q \in cut
      BY <1>6, <1>7, <3>1, <3>3
    <3>4. CASE q \notin Held /\ q \notin cut
      BY <1>4, <1>7, <3>1, <3>4
    <3> QED BY <3>2, <3>3, <3>4
  <2>4. Life' = [q \in Runs |-> CASE Life[q] = "running" -> "lost" [] q \in cut -> to
                                  [] OTHER -> Life[q]]
    BY <2>3 DEF Life
  <2> QED BY <2>1, <2>2, <2>4 DEF Ledger!Crash
<1>8. CASE SameFiles
  <2> DEFINE cut == {q \in Sending : q \notin Record}
  <2>1. \A q \in cut : Stage(q)' = "withdrawn"
    BY <1>1, <1>2, <1>8, StageIsNext, SetsApart, SetsOfRuns DEF Place, SameFiles, SameBooks
  <2>2. ASSUME NEW q \in Runs, q \notin Held, q \notin cut PROVE Stage(q)' = Stage(q)
    BY <1>1, <1>2, <1>8, <2>2, StageIs, StageIsNext DEF Place, SameFiles, SameBooks
  <2> HIDE DEF cut
  <2>3. cut \in SUBSET Sending
    BY DEF cut
  <2> QED BY <1>7, <2>1, <2>2, <2>3
<1>9. ASSUME NEW r \in Runs, Sending = {r}, GoesBack(r) PROVE Ledger!Crash
  <2>1. Stage(r)' = "queued"
    BY <1>1, <1>2, <1>9, StageIsNext, SetsApart DEF Place, GoesBack, SameBooks
  <2>2. ASSUME NEW q \in Runs, q \notin Held, q \notin Sending PROVE Stage(q)' = Stage(q)
    BY <1>1, <1>2, <1>9, <2>2, StageIs, StageIsNext DEF Place, GoesBack, SameBooks
  <2> QED BY <1>7, <1>9, <2>1, <2>2
<1> QED BY <1>8, <1>9 DEF Dies

\* The ledger starts empty,
LEMMA LedgerFirst == Init => Ledger!Init
<1> SUFFICES ASSUME Init PROVE Ledger!Init
  OBVIOUS
<1>1. \A d \in Digests : store.inputs[d].n = 0 /\ store.done[d].n = 0 /\ hist.subs[d] = 0
  BY Values DEF Init, EmptyDirectory
<1>2. Queue = {} /\ Record = {}
  BY <1>1, RunsAre DEF Queue, Record
<1>3. Sending = {} /\ Held = {} /\ Kept = {} /\ hist.published = {} /\ hist.started = {}
  BY IdleTyped DEF Init, AtPC, Sending, Main, Held, HeldBy, Kept, Spooled
<1>4. ASSUME NEW r \in Runs PROVE Stage(r) = "none"
  <2>1. r[2] > hist.subs[r[1]]
    BY <1>1, RunsAre, Values DEF Subs
  <2> QED BY <1>2, <1>3, <2>1, StageIs DEF Place
<1> QED BY <1>4 DEF Ledger!Init, Life

\* every kind of step is one of the ledger,
LEMMA DoesRefines ==
  ASSUME Good, RunInv, Does
  PROVE  Ledger!Next \/ Life' = Life
<1>1. CASE Aside
  BY <1>1, AsideRefines DEF Ledger!Next
<1>2. CASE Dies
  BY <1>2, DiesRefines DEF Ledger!Next
<1>3. ASSUME NEW r \in Runs, Submits(r) PROVE Ledger!Next
  BY <1>3, SubmitsRefines DEF Ledger!Next
<1>4. ASSUME NEW r \in Runs, Claims(r) PROVE Ledger!Next
  BY <1>4, ClaimsRefines DEF Ledger!Next
<1>5. ASSUME NEW r \in Runs, Cuts(r) PROVE Ledger!Next
  BY <1>5, CutsRefines DEF Ledger!Next
<1>6. ASSUME NEW r \in Runs, Reports(r) PROVE Ledger!Next \/ Life' = Life
  BY <1>6, ReportsRefines DEF Ledger!Next
<1>7. ASSUME NEW r \in Runs, GivesUp(r) PROVE Ledger!Next \/ Life' = Life
  BY <1>7, GivesUpRefines DEF Ledger!Next
<1>8. ASSUME NEW r \in Runs, NEW w \in Workers, Hands(r, w) PROVE Ledger!Next
  BY <1>8, HandsRefines DEF Ledger!Next
<1>9. ASSUME NEW w \in Workers, Finishes(w) PROVE Ledger!Next \/ Life' = Life
  BY <1>9, FinishesRefines DEF Ledger!Next
<1> QED BY <1>1, <1>2, <1>3, <1>4, <1>5, <1>6, <1>7, <1>8, <1>9 DEF Does

\* and so is every step.
LEMMA LedgerNext ==
  "rollback" \notin LateOps /\ Good /\ RunInv /\ [Next]_vars => [Ledger!Next]_Life
  BY StepsDo, DoesRefines

\* The server, the poller, its spool and its drains together implement the ledger
\* of runs, when no rollback of a claim is served after the poller gave up on the
\* transfer: a plan is handed to a worker at most once, only the death of the
\* process loses a run, and a result once spooled stays until it is reported.
THEOREM LedgerIsKept ==
  ASSUME "rollback" \notin LateOps
  PROVE  Spec => KeepsTheLedger
<1>1. Init => Good /\ RunInv
  BY GoodFirst, RunFirst
<1>2. Good /\ RunInv /\ [Next]_vars => (Good /\ RunInv)'
  BY GoodNext, RunNext
<1>3. Spec => [](Good /\ RunInv)
  BY <1>1, <1>2, PTL DEF Spec
<1>4. Good /\ RunInv /\ [Next]_vars => [Ledger!Next]_Life
  BY LedgerNext
<1> QED BY <1>3, <1>4, LedgerFirst, PTL DEF Spec, KeepsTheLedger, Ledger!Spec

\* What a submission may come to after each stage.  One that a worker once had is
\* never queued, claimed or run again, one that was withdrawn never runs, and from
\* the spool the only way on is to the server, where it stays.
After(stage) ==
    CASE stage = "none"      -> {"queued"}
      [] stage = "queued"    -> {"claimed", "withdrawn"}
      [] stage = "claimed"   -> {"queued", "running", "kept", "withdrawn"}
      [] stage = "withdrawn" -> {"kept"}
      [] stage = "running"   -> {"kept", "lost"}
      [] stage = "lost"      -> {"kept"}
      [] stage = "kept"      -> {"reported"}
      [] OTHER               -> {}

RunsOnce == [][\A r \in Runs : Life'[r] = Life[r] \/ Life'[r] \in After(Life[r])]_Life

\* One run moves on, and the others stay.
LEMMA MovesOn ==
  ASSUME NEW r \in Runs, NEW q \in Runs, NEW from, NEW to, Ledger!Move(r, from, to),
         \A stage \in from : to \in After(stage)
  PROVE  Life'[q] = Life[q] \/ Life'[q] \in After(Life[q])
<1>1. Life[r] \in from /\ Life'[q] = IF q = r THEN to ELSE Life[q]
  BY DEF Ledger!Move, Life
<1> QED BY <1>1

\* A step of the ledger takes each run to a stage that may come next.
LEMMA LedgerOnwards ==
  ASSUME Ledger!Next, NEW q \in Runs
  PROVE  Life'[q] = Life[q] \/ Life'[q] \in After(Life[q])
<1>1. ASSUME NEW r \in Runs, Ledger!Submit(r) \/ Ledger!Claim(r) \/ Ledger!GiveBack(r)
      PROVE  Life'[q] = Life[q] \/ Life'[q] \in After(Life[q])
  <2>1. CASE Ledger!Submit(r)
    BY <2>1, MovesOn DEF Ledger!Submit, After
  <2>2. CASE Ledger!Claim(r)
    BY <2>2, MovesOn DEF Ledger!Claim, After
  <2>3. CASE Ledger!GiveBack(r)
    BY <2>3, MovesOn DEF Ledger!GiveBack, After
  <2> QED BY <1>1, <2>1, <2>2, <2>3
<1>2. ASSUME NEW r \in Runs, Ledger!Hand(r) \/ Ledger!Finish(r)
      PROVE  Life'[q] = Life[q] \/ Life'[q] \in After(Life[q])
  <2>1. CASE Ledger!Hand(r)
    BY <2>1, MovesOn DEF Ledger!Hand, After
  <2>2. CASE Ledger!Finish(r)
    BY <2>2, MovesOn DEF Ledger!Finish, After
  <2> QED BY <1>2, <2>1, <2>2
<1>3. ASSUME NEW r \in Runs, Ledger!Report(r) \/ Ledger!GiveUp(r)
      PROVE  Life'[q] = Life[q] \/ Life'[q] \in After(Life[q])
  <2>1. CASE Ledger!Report(r)
    BY <2>1, MovesOn DEF Ledger!Report, After
  <2>2. CASE Ledger!GiveUp(r)
    BY <2>2, MovesOn DEF Ledger!GiveUp, After
  <2> QED BY <1>3, <2>1, <2>2
<1>4. CASE Ledger!Withdraw
  <2>1. PICK gone \in SUBSET {r \in Runs : Life[r] \in {"queued", "claimed"}} :
            Life' = [r \in Runs |-> IF r \in gone THEN "withdrawn" ELSE Life[r]]
    BY <1>4 DEF Ledger!Withdraw
  <2>2. CASE q \in gone
    <3>1. Life'[q] = "withdrawn" /\ Life[q] \in {"queued", "claimed"}
      BY <2>1, <2>2
    <3> QED BY <3>1 DEF After
  <2> QED BY <2>1, <2>2
<1>5. CASE Ledger!Crash
  <2>1. PICK cut \in SUBSET {r \in Runs : Life[r] = "claimed"}, to \in {"queued", "withdrawn"} :
            Life' = [r \in Runs |-> CASE Life[r] = "running" -> "lost"
                                       [] r \in cut -> to
                                       [] OTHER -> Life[r]]
    BY <1>5 DEF Ledger!Crash
  <2>2. CASE Life[q] = "running"
    <3>1. Life'[q] = "lost"
      BY <2>1, <2>2
    <3> QED BY <2>2, <3>1 DEF After
  <2>3. CASE Life[q] # "running" /\ q \in cut
    <3>1. Life'[q] = to /\ Life[q] = "claimed"
      BY <2>1, <2>3
    <3> QED BY <3>1 DEF After
  <2>4. CASE Life[q] # "running" /\ q \notin cut
    BY <2>1, <2>4
  <2> QED BY <2>2, <2>3, <2>4
<1> QED BY <1>1, <1>2, <1>3, <1>4, <1>5 DEF Ledger!Next

\* Server and poller together never run a submission a second time, never run one
\* that was withdrawn (canceled, deleted or pruned before a worker had it), and
\* never lose or repeat the result that is in the spool: the claim-by-rename of
\* _pickup, its rollback and the spool that is cleared only after an answer.
THEOREM SubmissionsRunOnce ==
  ASSUME "rollback" \notin LateOps
  PROVE  Spec => RunsOnce
<1>1. Init => Good /\ RunInv
  BY GoodFirst, RunFirst
<1>2. Good /\ RunInv /\ [Next]_vars => (Good /\ RunInv)'
  BY GoodNext, RunNext
<1>3. Good /\ RunInv /\ [Next]_vars
        => [\A r \in Runs : Life'[r] = Life[r] \/ Life'[r] \in After(Life[r])]_Life
  BY LedgerNext, LedgerOnwards
<1> QED BY <1>1, <1>2, <1>3, PTL DEF Spec, RunsOnce

-----------------------------------------------------------------------------
(* The system undisturbed *)

\* Nobody cancels, prunes or wipes, the poller is not asked to go, and neither an
\* upload nor a rollback it gave up on is served after all.
Calm ==
    /\ UserOps \cap {"cancel", "prune", "wipe"} = {}
    /\ LateOps \cap {"upload", "rollback"} = {}
    /\ "int" \notin Signals

\* Results that are spooled, digests that have an artefact on the server.
Pending  == Spooled(disk.pending)
Answered == {d \in Digests : HasOutput(store, d)}

\* Runs the poller will bring an artefact of.
Owed == Sending \cup Held \cup Pending \cup loop.orphans

\* No plan is marked for cancellation.
Unmarked ==
    /\ \A d \in Digests : store.cancel[d] = "none"
    /\ loop.pc \notin {"signal", "stale", "i_wait", "i_drain"}
    /\ \A q \in late : q.op = "push"

\* The main thread drains at start-up only, the drain thread later only, and what
\* is being uploaded is still spooled.
InTurn ==
    /\ drain["main"].pc # "off" => loop.pc \in {"b_drain", "b_orphans"}
    /\ loop.pc \in Booting => drain["thread"].pc = "off"
    /\ \A p \in Drainers : Drain(p, "post") => drain[p].cur \in disk.pending

\* A run that is owed has its record and its digest no artefact, and it will be
\* answered once.
Answerable ==
    /\ \A r \in Owed : r \in Record /\ r[1] \notin Answered
    /\ \A r \in Queue : r[1] \notin Answered
    /\ loop.orphans \cap Pending = {}
    /\ \A a, b \in disk.pending : a.d # None /\ a.d = b.d /\ a.n = b.n => a = b

Undisturbed == Unmarked /\ InTurn /\ Answerable

-----------------------------------------------------------------------------
(* What that leaves out, step by step *)

\* A handler that takes away no more than an artefact, and the record of the job
\* it answered.
Keeps(f, g) ==
    \A d \in Digests : /\ g.cancel[d] = f.cancel[d]
                       /\ g.inputs[d].n = f.inputs[d].n
                       /\ g.done[d].n = f.done[d].n \/ HasOutput(f, d)
                       /\ g.outputs[d] \in {f.outputs[d], NoArt}

\* A directory that does not change keeps everything.
LEMMA KeepsItself ==
  ASSUME NEW f, NEW g, g.cancel = f.cancel, g.inputs = f.inputs, g.done = f.done, g.outputs = f.outputs
  PROVE  Keeps(f, g)
  BY DEF Keeps

\* A deletion,
LEMMA DeleteKeeps ==
  ASSUME NEW f \in Directory, NEW d \in Digests, NEW wholeJob \in BOOLEAN
  PROVE  Keeps(f, DeleteOutputs(f, d, wholeJob))
<1> DEFINE p == IF wholeJob /\ HasOutput(f, d) THEN NoFile ELSE f.done[d]
           g == DeleteOutputs(f, d, wholeJob)
<1>1. p = f.done[d] \/ HasOutput(f, d)
  OBVIOUS
<1>2. g = [f EXCEPT !.outputs[d] = NoArt, !.done[d] = p]
  BY DEF DeleteOutputs, Directory
<1> HIDE DEF p, g
<1>3. /\ g.cancel = f.cancel /\ g.inputs = f.inputs /\ g.done = [f.done EXCEPT ![d] = p]
      /\ g.outputs = [f.outputs EXCEPT ![d] = NoArt]
  BY <1>2 DEF Directory
<1>4. Keeps(f, g)
  BY <1>1, <1>3 DEF Keeps, Directory
<1> QED BY <1>4 DEF g

\* an mtime or a snapshot that gets old,
LEMMA AgeKeeps ==
  ASSUME NEW f \in Directory, NEW d \in Digests
  PROVE  /\ Keeps(f, [f EXCEPT !.inputs[d].old = TRUE])
         /\ Keeps(f, [f EXCEPT !.done[d].old = TRUE])
         /\ Keeps(f, [f EXCEPT !.stale = TRUE])
<1>1. Keeps(f, [f EXCEPT !.inputs[d].old = TRUE])
  BY DEF Directory, PlanFile, Keeps
<1>2. Keeps(f, [f EXCEPT !.done[d].old = TRUE])
  BY DEF Directory, PlanFile, Keeps
<1>3. Keeps(f, [f EXCEPT !.stale = TRUE])
  BY DEF Directory, Keeps
<1> QED BY <1>1, <1>2, <1>3

\* A snapshot takes nothing,
LEMMA ReceiveKeeps ==
  ASSUME NEW f \in Directory, NEW s
  PROVE  Keeps(f, ReceiveInflight(f, s))
  BY DEF ReceiveInflight, Directory, Keeps

\* GET /cancels without a marker takes nothing.
LEMMA PullKeeps ==
  ASSUME NEW f \in Directory, \A d \in Digests : f.cancel[d] = "none"
  PROVE  Keeps(f, PullCancels(f)) /\ LiveMarkers(f) = {}
<1>1. LiveMarkers(f) = {}
  BY DEF LiveMarkers
<1>2. /\ \A d \in Digests : PullCancels(f).cancel[d] = "none"
      /\ PullCancels(f).inputs = f.inputs /\ PullCancels(f).done = f.done
      /\ PullCancels(f).outputs = f.outputs
  BY DEF PullCancels, Directory
<1> QED BY <1>1, <1>2 DEF Keeps

\* Requests that are left are snapshots.
LEMMA OnlySnapshots ==
  ASSUME Good, Calm, Undisturbed
  PROVE  \A q \in late : q.op = "push" /\ q.snap \in SUBSET Digests
<1>1. late \subseteq Requests /\ \A q \in late : q.op = "push"
  BY Typed DEF Good, Undisturbed, Unmarked
<1> QED BY <1>1 DEF Requests

\* Where the markers and the threads are.
LEMMA MarksKept ==
  ASSUME Unmarked, Keeps(store, store'),
         loop'.pc \notin {"signal", "stale", "i_wait", "i_drain"}, \A q \in late' : q.op = "push"
  PROVE  Unmarked'
  BY DEF Unmarked, Keeps

\* The turns stay when neither loop nor drain moves.
LEMMA TurnKept ==
  ASSUME InTurn, drain' = drain, disk' = disk, loop' = loop
  PROVE  InTurn'
  BY DEF InTurn, Drain

\* What is owed by fewer, or to fewer.
LEMMA RestKept ==
  ASSUME Answerable, Keeps(store, store'), Sending' \cup Held' \subseteq Sending \cup Held,
         disk'.pending \subseteq disk.pending, loop'.orphans \subseteq loop.orphans
  PROVE  Answerable'
<1>1. Pending' \subseteq Pending
  BY DEF Pending, Spooled
<1>2. Owed' \subseteq Owed
  BY <1>1 DEF Owed
<1>3. Answered' \subseteq Answered
  BY DEF Keeps, Answered, HasOutput
<1>4. Queue' = Queue
  BY RunsAre DEF Queue, Keeps
<1>5. \A r \in Record : r[1] \notin Answered => r \in Record'
  BY RunsAre DEF Record, Keeps, Answered
<1>6. \A r \in Owed' : r \in Record' /\ r[1] \notin Answered'
  BY <1>2, <1>3, <1>5 DEF Answerable
<1>7. \A r \in Queue' : r[1] \notin Answered'
  BY <1>3, <1>4 DEF Answerable
<1>8. loop'.orphans \cap Pending' = {}
  BY <1>1 DEF Answerable
<1>9. \A a, b \in disk'.pending : a.d # None /\ a.d = b.d /\ a.n = b.n => a = b
  BY DEF Answerable
<1> QED BY <1>6, <1>7, <1>8, <1>9 DEF Answerable

\* A step that brings no artefact.
LEMMA KeepsBrings ==
  ASSUME Keeps(store, store')
  PROVE  \A d \in Digests : store'.outputs[d] \in {store.outputs[d], NoArt}
  BY DEF Keeps

-----------------------------------------------------------------------------
(* Every step leaves the system undisturbed *)

\* A submission, a deletion,
LEMMA PlansCalm ==
  ASSUME Good, RunInv, Undisturbed, NEW d \in Digests, Plans(d)
  PROVE  Undisturbed'
<1> DEFINE r == <<d, hist.subs[d] + 1>>
<1>1. r \in Runs /\ Submits(r) /\ r[1] = d
  BY PlansDo
<1>2. loop' = loop /\ drain' = drain /\ late' = late /\ disk' = disk
  BY DEF Plans, UserStep, procVars
<1>3. store \in Directory /\ d \notin Answered
  BY Typed DEF Good, Plans, Refuses, Answered
<1>4. /\ store'.cancel = [store.cancel EXCEPT ![d] = "none"]
      /\ store'.outputs = store.outputs
  BY <1>3 DEF Plans, UserStep, QueueJob, Directory
<1> HIDE DEF r
<1>5. Unmarked'
  BY <1>2, <1>3, <1>4 DEF Undisturbed, Unmarked, Directory
<1>6. InTurn'
  BY <1>2, TurnKept DEF Undisturbed
<1>7. Pending' = Pending /\ Answered' = Answered
  BY <1>2, <1>4 DEF Pending, Spooled, Answered, HasOutput
<1>8. Sending' = Sending /\ Held' = Held /\ Record' = Record /\ Queue' = Queue \cup {r}
  BY <1>1, HeldStays DEF Submits
<1>9. Owed' = Owed
  BY <1>2, <1>7, <1>8 DEF Owed
<1>10. Answerable'
  BY <1>1, <1>2, <1>3, <1>7, <1>8, <1>9 DEF Undisturbed, Answerable
<1> QED BY <1>5, <1>6, <1>10 DEF Undisturbed

\* A deletion leaves the system undisturbed.
LEMMA DeletesCalm ==
  ASSUME Good, RunInv, Undisturbed, NEW d \in Digests, NEW wholeJob \in BOOLEAN, Deletes(d, wholeJob)
  PROVE  Undisturbed' /\ Keeps(store, store')
<1>1. loop' = loop /\ drain' = drain /\ late' = late /\ disk' = disk /\ work' = work
  BY DEF Deletes, UserStep, procVars
<1>2. Keeps(store, store')
  BY Typed, DeleteKeeps DEF Good, Deletes, UserStep
<1>3. Unmarked' /\ InTurn'
  BY <1>1, <1>2, MarksKept, TurnKept DEF Undisturbed, Unmarked
<1>4. Sending' = Sending /\ Held' = Held
  BY <1>1 DEF Sending, Main, Held, HeldBy, RunOf
<1>5. Answerable'
  BY <1>1, <1>2, <1>4, RestKept DEF Undisturbed
<1> QED BY <1>2, <1>3, <1>5 DEF Undisturbed

\* time: no late request but snapshots,
LEMMA TimeCalm ==
  ASSUME Good, RunInv, Calm, Undisturbed, Time
  PROVE  Undisturbed' /\ store'.outputs = store.outputs /\ hist' = hist
<1>1. store \in Directory
  BY Typed DEF Good
<1>2. loop' = loop /\ drain' = drain /\ late' \subseteq late /\ work' = work /\ disk' = disk
  BY DEF Time, Age, MarkerExpires, InflightStales, CircuitCloses, BackoffEnds, ServeLate, procVars
<1>3. ASSUME Keeps(store, store') PROVE Undisturbed'
  <2>1. Unmarked' /\ InTurn'
    BY <1>2, <1>3, MarksKept, TurnKept DEF Undisturbed, Unmarked
  <2>2. Sending' = Sending /\ Held' = Held
    BY <1>2 DEF Sending, Main, Held, HeldBy, RunOf
  <2>3. Answerable'
    BY <1>2, <1>3, <2>2, RestKept DEF Undisturbed
  <2> QED BY <2>1, <2>3 DEF Undisturbed
<1>4. ASSUME NEW d \in Digests, Age(d)
      PROVE  Keeps(store, store') /\ store'.outputs = store.outputs /\ hist' = hist
  BY <1>1, <1>4, AgeKeeps DEF Age, Directory
<1>5. ASSUME NEW d \in Digests, MarkerExpires(d) PROVE FALSE
  BY <1>5 DEF MarkerExpires, Undisturbed, Unmarked
<1>6. ASSUME InflightStales
      PROVE  Keeps(store, store') /\ store'.outputs = store.outputs /\ hist' = hist
  <2>1. store' = [store EXCEPT !.stale = TRUE] /\ hist' = hist
    BY <1>6 DEF InflightStales
  <2> QED BY <1>1, <2>1, KeepsItself DEF Directory
<1>7. ASSUME CircuitCloses \/ \E a \in net.backoff : BackoffEnds(a)
      PROVE  Keeps(store, store') /\ store'.outputs = store.outputs /\ hist' = hist
  BY <1>7, KeepsItself DEF CircuitCloses, BackoffEnds
<1>8. ASSUME NEW r \in late, ServeLate(r)
      PROVE  Keeps(store, store') /\ store'.outputs = store.outputs /\ hist' = hist
  <2>1. r.op = "push"
    BY OnlySnapshots
  <2>2. store' = ReceiveInflight(store, r.snap) /\ hist' = hist
    BY <1>8, <2>1 DEF ServeLate, Serve
  <2> QED BY <1>1, <2>2, ReceiveKeeps DEF ReceiveInflight, Directory
<1> QED BY <1>3, <1>4, <1>5, <1>6, <1>7, <1>8 DEF Time

\* A step of the running loop: the main thread uploads nothing.
LEMMA LoopTurns ==
  ASSUME Good, InTurn, loop'.pc \notin Booting, loop.pc \notin {"b_drain",
         "b_orphans"} \/ Drain("main", "off"),
         disk' = disk, \A p \in Drainers : drain'[p] = drain[p] \/ drain'[p].pc \in {"off", "list"},
         drain'["main"] = drain["main"]
  PROVE  InTurn'
<1>1. drain'["main"].pc = "off"
  BY DEF InTurn, Drain
<1>2. \A p \in Drainers : drain'[p].pc = "post" => drain'[p].cur \in disk'.pending
  BY DEF InTurn, Drain
<1> QED BY <1>1, <1>2 DEF InTurn, Drain

\* the main thread up to the pickup: no marker, no cancel;
LEMMA TickCalm ==
  ASSUME Good, RunInv, Calm, Undisturbed,
         \/ PullCancelMarkers \/ PullCancelsFails \/ PostStale
         \/ \E d \in Digests : SkipSignaled(d) \/ SignalCancel(d) \/ NoLiveSession(d)
         \/ KickAndLook \/ TakeSnapshot \/ PushInflight \/ PushSkipped \/ NothingToDo \/ GetPlanFails
         \/ LastDrain \/ StartupDone \/ ListOrphansFails
  PROVE  Undisturbed' /\ store'.outputs = store.outputs /\ hist' = hist
<1>1. /\ store \in Directory /\ drain \in [Drainers -> Drains] /\ "main" \in Drainers
      /\ \A d \in Digests : store.cancel[d] = "none"
      /\ loop.pc \notin {"signal", "stale", "i_wait", "i_drain"}
      /\ loop \in Loops
  BY Typed DEF Good, Undisturbed, Unmarked, Drainers
<1>2. ~PostStale /\ ~LastDrain
  BY <1>1 DEF PostStale, LastDrain, Main
<1>3. ASSUME NEW d \in Digests PROVE ~SkipSignaled(d) /\ ~SignalCancel(d) /\ ~NoLiveSession(d)
  BY <1>1 DEF SkipSignaled, SignalCancel, NoLiveSession, Main
<1>4. disk' = disk /\ hist' = hist /\ work' = work
  BY <1>2, <1>3 DEF PullCancelMarkers, PullCancelsFails, KickAndLook, TakeSnapshot, PushInflight,
         PushSkipped, NothingToDo, GetPlanFails, StartupDone, ListOrphansFails
<1>5. /\ loop'.pc \in {"cancels", "publish", "snap", "push", "plan"}
      /\ loop.pc # "transfer" /\ loop'.orphans \subseteq loop.orphans
  <2>1. CASE TakeSnapshot
    <3>1. \/ loop' = [loop EXCEPT !.pc = "push", !.todo = {d \in Digests : active[d] # None}]
          \/ loop' = AtPC("plan")
      BY <2>1 DEF TakeSnapshot
    <3>2. loop.pc = "snap"
      BY <2>1 DEF TakeSnapshot, Main
    <3>3. CASE loop' = AtPC("plan")
      BY <3>2, <3>3 DEF AtPC
    <3>4. ASSUME NEW s, loop' = [loop EXCEPT !.pc = "push", !.todo = s]
          PROVE  loop'.pc = "push" /\ loop'.orphans = loop.orphans
      BY <1>1, <3>4 DEF Loops
    <3> QED BY <3>1, <3>2, <3>3, <3>4
  <2>2. CASE PullCancelMarkers
    <3>1. loop' = AtPC("publish") /\ loop.pc = "cancels"
      BY <1>1, <2>2, PullKeeps DEF PullCancelMarkers, Main
    <3> QED BY <3>1 DEF AtPC
  <2>3. CASE \/ PullCancelsFails \/ KickAndLook \/ PushInflight \/ PushSkipped \/ NothingToDo
             \/ GetPlanFails \/ StartupDone \/ ListOrphansFails
    BY <2>3 DEF PullCancelsFails, KickAndLook, PushInflight, PushSkipped, NothingToDo, GetPlanFails,
                StartupDone, ListOrphansFails, Main, AtPC
  <2> QED BY <1>2, <1>3, <2>1, <2>2, <2>3
<1>6. /\ Keeps(store, store') /\ store'.outputs = store.outputs
      /\ \A q \in late' : q.op = "push"
  <2>1. CASE PushInflight
    <3>1. \A q \in late : q.op = "push"
      BY OnlySnapshots
    <3>2. \/ store' = ReceiveInflight(store, loop.todo) /\ late' = late
          \/ store' = store /\ late' \subseteq late \cup {[op |-> "push", snap |-> loop.todo]}
      BY <2>1 DEF PushInflight, Fail, Serve
    <3>3. \A q \in late' : q.op = "push"
      BY <3>1, <3>2
    <3>4. CASE store' = ReceiveInflight(store, loop.todo)
      BY <1>1, <3>3, <3>4, ReceiveKeeps DEF ReceiveInflight, Directory
    <3>5. CASE store' = store
      BY <3>3, <3>5, KeepsItself
    <3> QED BY <3>2, <3>4, <3>5
  <2>2. CASE PullCancelMarkers
    BY <1>1, <2>2, PullKeeps, OnlySnapshots DEF PullCancelMarkers, PullCancels, Directory
  <2>3. CASE ~PushInflight /\ ~PullCancelMarkers
    <3>1. store' = store /\ late' = late
      BY <1>2, <1>3, <2>3 DEF PullCancelsFails, KickAndLook, TakeSnapshot, PushSkipped, NothingToDo,
             GetPlanFails, StartupDone, ListOrphansFails
    <3> QED BY <3>1, KeepsItself, OnlySnapshots
  <2> QED BY <2>1, <2>2, <2>3
<1>7. InTurn'
  <2>1. loop.pc \notin {"b_drain", "b_orphans"} \/ Drain("main", "off")
    BY <1>2, <1>3 DEF PullCancelMarkers, PullCancelsFails, KickAndLook, TakeSnapshot, PushInflight,
         PushSkipped, NothingToDo, GetPlanFails, StartupDone, ListOrphansFails, Main
  <2>2. \A p \in Drainers : drain'[p] = drain[p] \/ drain'[p].pc \in {"off", "list"}
    <3>1. CASE KickAndLook
      BY <1>1, <3>1 DEF KickAndLook, Drainers, Drains
    <3>2. CASE ~KickAndLook
      BY <1>2, <1>3, <3>2 DEF PullCancelMarkers, PullCancelsFails, TakeSnapshot, PushInflight,
         PushSkipped, NothingToDo, GetPlanFails, StartupDone, ListOrphansFails
    <3> QED BY <3>1, <3>2
  <2>3. drain'["main"] = drain["main"]
    <3>1. CASE KickAndLook
      BY <1>1, <3>1 DEF KickAndLook, Drainers, Drains
    <3>2. CASE ~KickAndLook
      BY <1>2, <1>3, <3>2 DEF PullCancelMarkers, PullCancelsFails, TakeSnapshot, PushInflight,
         PushSkipped, NothingToDo, GetPlanFails, StartupDone, ListOrphansFails
    <3> QED BY <3>1, <3>2
  <2> QED BY <1>4, <1>5, <2>1, <2>2, <2>3, LoopTurns DEF Undisturbed, Booting
<1>8. Sending' = Sending /\ Held' = Held
  BY <1>4, <1>5 DEF Sending, Main, Held, HeldBy, RunOf
<1>9. Unmarked' /\ Answerable'
  BY <1>4, <1>5, <1>6, <1>8, MarksKept, RestKept DEF Undisturbed
<1> QED BY <1>4, <1>6, <1>7, <1>9 DEF Undisturbed

\* the pickup,
LEMMA ClaimCalm ==
  ASSUME Good, RunInv, Calm, Undisturbed, NEW d \in Digests, ClaimPlan(d)
  PROVE  Undisturbed' /\ store'.outputs = store.outputs /\ hist' = hist
<1>1. store \in Directory /\ store' = Claim(store, d)
  BY Typed DEF Good, ClaimPlan
<1>2. loop' = [AtPC("transfer") EXCEPT !.cur = d, !.n = store.inputs[d].n] /\ loop.pc = "plan"
  BY DEF ClaimPlan, Main
<1>3. late' = late /\ work' = work /\ drain' = drain /\ disk' = disk /\ hist' = hist
  BY DEF ClaimPlan
<1>4. store'.cancel = store.cancel /\ store'.outputs = store.outputs
  BY <1>1 DEF Claim, Directory
<1>5. loop'.pc = "transfer" /\ loop'.orphans = {}
  BY <1>2 DEF AtPC
<1>6. Unmarked'
  BY <1>3, <1>4, <1>5 DEF Undisturbed, Unmarked
<1>7. InTurn'
  BY <1>2, <1>3, <1>5 DEF Undisturbed, InTurn, Booting, Drain
<1>8. PICK r \in Runs : Claims(r)
  <2>1. Does /\ Sending = {} /\ Sending' # {}
    <3>1. Sending = {}
      BY <1>2 DEF Sending, Main
    <3>2. store.inputs[d].n \in Subs
      BY <1>1, Values DEF ClaimPlan, Queued, Directory, PlanFile
    <3>3. loop'.cur = d /\ loop'.n = store.inputs[d].n
      BY <1>2 DEF AtPC
    <3>4. <<d, store.inputs[d].n>> \in Sending'
      BY <1>5, <3>2, <3>3, RunsAre DEF Sending, Main
    <3> QED BY <3>1, <3>4, ClaimDoes
  <2> QED BY <2>1 DEF Does, Aside, Dies, Submits, Cuts, Reports, GivesUp, Hands, Finishes
<1>9. /\ Queue' = Queue \ {r} /\ Record' = Record \cup {r} /\ Sending' = {r} /\ r \in Queue
      /\ Held' = Held
  BY <1>8, HeldStays DEF Claims
<1>10. Pending' = Pending /\ Answered' = Answered
  BY <1>3, <1>4 DEF Pending, Spooled, Answered, HasOutput
<1>11. Owed' \subseteq Owed \cup {r} /\ loop'.orphans \cap Pending' = {}
  BY <1>5, <1>9, <1>10 DEF Owed
<1>12. Answerable'
  BY <1>3, <1>9, <1>10, <1>11 DEF Undisturbed, Answerable
<1> QED BY <1>3, <1>4, <1>6, <1>7, <1>12 DEF Undisturbed

\* A plan that goes back to the queue is owed by nobody.
LEMMA BackKept ==
  ASSUME Good, RunInv, Answerable, NEW r \in Runs, Sending = {r}, GoesBack(r), Sending' = {},
         Held' \subseteq Held, Pending' = Pending, Answered' = Answered, disk' = disk,
         loop'.orphans \subseteq loop.orphans
  PROVE  Answerable'
<1>1. r \notin Held /\ r \notin Pending /\ r \notin loop.orphans
  BY DEF RunInv, Unstarted, Workplace, Known, Kept, Pending, Spooled
<1>2. Owed' \subseteq Owed \ {r} /\ r \in Owed
  BY <1>1 DEF Owed
<1>3. Queue' = Queue \cup {r} /\ Record' = Record \ {r}
  BY DEF GoesBack
<1>4. \A q \in Owed' : q \in Record' /\ q[1] \notin Answered'
  BY <1>2, <1>3 DEF Answerable
<1>5. \A q \in Queue' : q[1] \notin Answered'
  BY <1>2, <1>3 DEF Answerable
<1>6. loop'.orphans \cap Pending' = {}
  BY DEF Answerable
<1>7. \A a, b \in disk'.pending : a.d # None /\ a.d = b.d /\ a.n = b.n => a = b
  BY DEF Answerable
<1> QED BY <1>4, <1>5, <1>6, <1>7 DEF Answerable

\* What a cut transfer does to the directory.
LEMMA CutStore ==
  ASSUME Good, Calm, Main("transfer"), TransferCut
  PROVE  /\ late' = late /\ store'.cancel = store.cancel /\ store'.outputs = store.outputs
         /\ store' = store \/ store' = Rollback(store, loop.cur)
<1>1. store \in Directory
  BY Typed DEF Good
<1>2. late' = late /\ (store' = store \/ store' = Rollback(store, loop.cur))
  BY DEF TransferCut, Calm
<1> QED BY <1>1, <1>2 DEF Rollback, Directory

\* the end of a transfer, whole or cut,
LEMMA CutCalm ==
  ASSUME Good, RunInv, Calm, Undisturbed, Main("transfer"), TransferCut,
         Sending' = {}, Held' \subseteq Held, disk' = disk, loop'.orphans = {},
         loop'.pc \in {"cancels", "down"}, InTurn'
  PROVE  Undisturbed' /\ store'.outputs = store.outputs
<1> DEFINE r == <<loop.cur, loop.n>>
<1>1. r \in Runs /\ Sending = {r}
  BY OnItsWay
<1>2. /\ late' = late /\ store'.cancel = store.cancel /\ store'.outputs = store.outputs
      /\ store' = store \/ store' = Rollback(store, loop.cur)
  BY CutStore
<1>3. Unmarked'
  BY <1>2 DEF Undisturbed, Unmarked
<1>4. Pending' = Pending /\ Answered' = Answered
  BY <1>2 DEF Pending, Spooled, Answered, HasOutput
<1>5. SameFiles \/ GoesBack(r)
  BY CutDoes
<1> HIDE DEF r
<1>6. CASE GoesBack(r)
  <2>1. Answerable'
    BY <1>1, <1>4, <1>6, BackKept DEF Undisturbed
  <2> QED BY <1>2, <1>3, <2>1 DEF Undisturbed
<1>7. CASE SameFiles
  <2>1. Owed' \subseteq Owed
    BY <1>4 DEF Owed
  <2>2. Answerable'
    BY <1>4, <1>7, <2>1 DEF SameFiles, Undisturbed, Answerable
  <2> QED BY <1>2, <1>3, <2>2 DEF Undisturbed
<1> QED BY <1>5, <1>6, <1>7

\* A transfer, whole or cut short, leaves the system undisturbed.
LEMMA TransferCalm ==
  ASSUME Good, RunInv, Calm, Undisturbed,
         TransferFails \/ \E w \in Workers : PlanDelivered(w) \/ TransferTruncated(w)
  PROVE  Undisturbed' /\ store'.outputs = store.outputs /\ hist'.published = hist.published
<1>1. work \in [Workers -> Jobs] /\ hist \in Hists
  BY Typed DEF Good
<1>2. /\ Main("transfer") /\ loop' = AtPC("cancels") /\ drain' = drain /\ disk' = disk
  BY DEF TransferFails, PlanDelivered, TransferTruncated, Spawn
<1>3. loop'.pc = "cancels" /\ loop'.orphans = {} /\ Sending' = {}
  BY <1>2 DEF AtPC, Sending, Main
<1>4. hist'.published = hist.published
  BY <1>1 DEF TransferFails, PlanDelivered, TransferTruncated, Hists
<1>5. InTurn'
  BY <1>2, <1>3 DEF Undisturbed, InTurn, Booting, Drain, Main
<1>6. CASE TransferFails
  <2>1. TransferCut /\ Held' = Held
    BY <1>6 DEF TransferFails, Held, HeldBy, RunOf
  <2> QED BY <1>2, <1>3, <1>4, <1>5, <2>1, CutCalm
<1>7. ASSUME NEW w \in Workers, TransferTruncated(w) PROVE Undisturbed' /\ store'.outputs = store.outputs
  <2>1. /\ work'[w].d = None
        /\ \A v \in Workers : v # w => work'[v] = work[v]
    BY <1>1, <1>7 DEF TransferTruncated, Spawn, Idle
  <2>2. \A v \in Workers : HeldBy(v)' = HeldBy(v) \/ HeldBy(v)' = {}
    BY <2>1, RunsAre DEF HeldBy, RunOf
  <2>3. TransferCut /\ Held' \subseteq Held
    BY <1>7, <2>2, HeldFollows DEF TransferTruncated
  <2> QED BY <1>2, <1>3, <1>5, <2>3, CutCalm
<1>8. ASSUME NEW w \in Workers, PlanDelivered(w) PROVE Undisturbed' /\ store'.outputs = store.outputs
  <2>1. /\ work'[w].d = loop.cur /\ work'[w].n = loop.n
        /\ \A v \in Workers : v # w => work'[v] = work[v]
    BY <1>1, <1>8 DEF PlanDelivered, Spawn, Idle
  <2>2. ASSUME NEW q \in Held' PROVE q \in Held \cup Sending
    <3>1. PICK v \in Workers : q \in HeldBy(v)'
      BY DEF Held, HeldBy
    <3>2. CASE v = w
      BY <1>2, <2>1, <3>1, <3>2 DEF HeldBy, RunOf, Sending
    <3>3. CASE v # w
      BY <2>1, <3>1, <3>3 DEF HeldBy, RunOf, Held
    <3> QED BY <3>2, <3>3
  <2>3. store' = store /\ late' = late
    BY <1>8 DEF PlanDelivered
  <2>4. Keeps(store, store')
    BY <2>3, KeepsItself
  <2>5. Unmarked'
    BY <1>3, <2>3, <2>4, MarksKept DEF Undisturbed, Unmarked
  <2>6. Answerable'
    BY <1>2, <1>3, <2>2, <2>4, RestKept DEF Undisturbed
  <2> QED BY <1>5, <2>3, <2>5, <2>6 DEF Undisturbed
<1> QED BY <1>4, <1>6, <1>7, <1>8

\* a worker,
LEMMA WorkCalm ==
  ASSUME Good, RunInv, Calm, Undisturbed, NEW w \in Workers, WorkStep(w)
  PROVE  Undisturbed' /\ store'.outputs = store.outputs /\ hist' = hist
<1>1. work \in [Workers -> Jobs] /\ disk \in Disks
  BY Typed DEF Good
<1>2. store' = store /\ late' = late /\ loop' = loop /\ drain' = drain /\ hist' = hist
  BY DEF WorkStep, Reject, Register, Pack, Pop, Spool, Worker
<1>3. Keeps(store, store') /\ Sending' = Sending
  BY <1>2, KeepsItself DEF Sending, Main
<1>4. Unmarked'
  BY <1>2, <1>3, MarksKept DEF Undisturbed, Unmarked
<1>5. CASE ~Spool(w)
  <2>1. disk' = disk
    BY <1>5 DEF WorkStep, Reject, Register, Pack, Pop
  <2>2. InTurn'
    BY <1>2, <2>1, TurnKept DEF Undisturbed
  <2>3. \A v \in Workers : v # w => work'[v] = work[v]
    BY <1>1, <1>5 DEF WorkStep, Reject, Register, Pack, Pop
  <2>4. /\ work'[w].pc = "free" <=> work[w].pc = "free"
        /\ work'[w].d = work[w].d /\ work'[w].n = work[w].n
    BY <1>1, <1>5 DEF WorkStep, Reject, Register, Pack, Pop, Jobs
  <2>5. Held' = Held
    BY <2>3, <2>4, WorkStays, HeldStays DEF WorkAside
  <2>6. Answerable'
    BY <1>2, <1>3, <2>1, <2>5, RestKept DEF Undisturbed
  <2> QED BY <1>2, <1>4, <2>2, <2>6 DEF Undisturbed
<1>6. CASE Spool(w)
  <2>1. /\ disk' = [disk EXCEPT !.pending = @ \cup {Result(w)}]
        /\ work' = [work EXCEPT ![w] = Idle] /\ work[w].pc = "spool"
    BY <1>6 DEF Spool
  <2>2. disk'.pending = disk.pending \cup {Result(w)}
    BY <1>1, <2>1 DEF Disks
  <2>3. \A r \in Runs : r \in HeldBy(w) <=> r = <<Result(w).d, Result(w).n>>
    BY <2>1 DEF HeldBy, RunOf, Result
  <2>4. Pending' = Pending \cup HeldBy(w)
    BY <2>2, <2>3 DEF Pending, Spooled, HeldBy
  <2>5. HeldBy(w) \subseteq Held /\ HeldBy(w) \cap Pending = {}
    BY DEF HeldBy, Held, RunInv, Workplace, Known, Kept, Pending, Spooled
  <2>6. Held' \subseteq Held
    <3>1. \A v \in Workers : HeldBy(v)' = HeldBy(v) \/ HeldBy(v)' = {}
      BY <1>1, <2>1, IdleTyped DEF HeldBy, RunOf
    <3> QED BY <3>1, HeldFollows
  <2>7. Owed' \subseteq Owed
    BY <1>2, <1>3, <2>4, <2>5, <2>6 DEF Owed
  <2>8. loop.orphans = {}
    BY <2>1 DEF Good, Shape, LoopShape, Booting
  <2>9. Queue' = Queue /\ Record' = Record /\ Answered' = Answered
    BY <1>2 DEF Queue, Record, Answered
  <2>10. ASSUME NEW a \in disk.pending, a.d # None, a.d = Result(w).d, a.n = Result(w).n PROVE FALSE
    <3>1. <<a.d, a.n>> \in Runs
      BY <1>1, <2>10 DEF Disks, Spools, Runs
    <3>2. <<a.d, a.n>> \in Pending /\ <<a.d, a.n>> \in HeldBy(w)
      BY <2>3, <2>10, <3>1 DEF Pending, Spooled
    <3> QED BY <2>5, <3>2
  <2>11. \A a, b \in disk'.pending : a.d # None /\ a.d = b.d /\ a.n = b.n => a = b
    BY <2>2, <2>10 DEF Undisturbed, Answerable
  <2>12. Answerable'
    BY <1>2, <2>7, <2>8, <2>9, <2>11 DEF Undisturbed, Answerable
  <2>13. InTurn'
    BY <1>2, <2>2 DEF Undisturbed, InTurn, Drain
  <2> QED BY <1>2, <1>4, <2>12, <2>13 DEF Undisturbed
<1> QED BY <1>5, <1>6

\* One drain is at work at a time.
LEMMA DrainTurns ==
  ASSUME Good, InTurn, NEW p \in Drainers, drain[p].pc # "off", loop' = loop,
         \A q \in Drainers : q # p => drain'[q] = drain[q],
         drain'[p].pc = "post" => drain'[p].cur \in disk'.pending
  PROVE  InTurn'
<1>1. \A q \in Drainers : q # p => drain[q].pc = "off"
  BY DEF InTurn, Booting, Drainers
<1>2. \A q \in Drainers : drain'[q].pc = "post" => drain'[q].cur \in disk'.pending
  BY <1>1
<1> QED BY <1>1, <1>2 DEF InTurn, Drain, Booting, Drainers

\* An artefact answers the record of the run it is of, and that run only.
LEMMA AnswerKept ==
  ASSUME Good, RunInv, Answerable, NEW a \in disk.pending, a.d \in Digests,
         store'.outputs = [store.outputs EXCEPT ![a.d] = a],
         store'.inputs = store.inputs, store'.done = store.done,
         Sending' = Sending, Held' = Held, loop'.orphans = loop.orphans,
         disk'.pending = disk.pending \ {a}
  PROVE  Answerable' /\ <<a.d, a.n>> \in Record /\ a.d \notin Answered
<1> DEFINE r == <<a.d, a.n>>
<1>1. a.n \in Subs /\ a # NoArt
  BY Typed, Values DEF Good, Disks, Spools, NoArt
<1>2. r \in Runs /\ r[1] = a.d /\ r[2] = a.n
  BY <1>1, RunsAre
<1>3. r \in Pending
  BY <1>2 DEF Pending, Spooled
<1>4. r \in Record /\ r[1] \notin Answered
  BY <1>3 DEF Answerable, Owed
<1>5. ASSUME NEW q \in Queue \cup Record, q[1] = a.d PROVE q = r
  <2>1. q \in Runs
    BY DEF Queue, Record
  <2>2. q[2] = hist.subs[q[1]] /\ r[2] = hist.subs[r[1]]
    BY <1>4 DEF RunInv, Latest
  <2> QED BY <1>2, <1>5, <2>1, <2>2, RunsAre
<1>6. Answered' \subseteq Answered \cup {a.d}
  BY Typed DEF Good, Directory, Answered, HasOutput
<1>7. Queue' = Queue /\ Record' = Record
  BY DEF Queue, Record
<1>8. Pending' \subseteq Pending \ {r}
  <2>1. ASSUME NEW q \in Pending' PROVE q \in Pending /\ q # r
    <3>1. PICK b \in disk.pending \ {a} : q = <<b.d, b.n>>
      BY DEF Pending, Spooled
    <3>2. q \in Pending
      BY <3>1 DEF Pending, Spooled
    <3>3. q # r
      BY <1>2, <3>1, Values DEF Answerable
    <3> QED BY <3>2, <3>3
  <2> QED BY <2>1
<1> HIDE DEF r
<1>9. r \notin Sending /\ r \notin Held /\ r \notin loop.orphans
  BY <1>3 DEF RunInv, Unstarted, Workplace, Known, Kept, Pending, Spooled, Answerable
<1>10. Owed' \subseteq Owed \ {r}
  BY <1>8, <1>9 DEF Owed
<1>11. ASSUME NEW q \in Owed' PROVE q \in Record' /\ q[1] \notin Answered'
  BY <1>5, <1>6, <1>7, <1>10, <1>11 DEF Answerable
<1>12. ASSUME NEW q \in Queue' PROVE q[1] \notin Answered'
  <2>1. q # r
    BY <1>4, <1>7, <1>12 DEF RunInv, Unstarted
  <2> QED BY <1>5, <1>6, <1>7, <1>12, <2>1 DEF Answerable
<1>13. loop'.orphans \cap Pending' = {}
  BY <1>8 DEF Answerable
<1>14. \A b, c \in disk'.pending : b.d # None /\ b.d = c.d /\ b.n = c.n => b = c
  BY DEF Answerable
<1> QED BY <1>2, <1>4, <1>11, <1>12, <1>13, <1>14 DEF Answerable, r

\* How an artefact comes to be on the server: once, and for the record there is.
Brings(r) ==
    /\ r \in Record /\ r[1] \notin Answered
    /\ hist'.published = hist.published \cup {r}
    /\ \E a \in Artefact : /\ a.d = r[1] /\ a.n = r[2]
                           /\ store'.outputs = [store.outputs EXCEPT ![r[1]] = a]

BringsNone == store'.outputs = store.outputs /\ hist'.published = hist.published

\* a drain,
LEMMA DrainCalm ==
  ASSUME Good, RunInv, Calm, Undisturbed, NEW p \in Drainers, DrainStep(p) \/ UploadFails(p)
  PROVE  Undisturbed' /\ (BringsNone \/ \E r \in Runs : Brings(r))
<1>1. drain \in [Drainers -> Drains] /\ disk \in Disks /\ hist \in Hists /\ store \in Directory
  BY Typed DEF Good
<1>2. loop' = loop /\ work' = work
  BY DEF DrainStep, ListPending, DrainDone, OpenSpool, UploadAccepted, UploadRefused, UploadParked,
         UploadFails
<1>3. Sending' = Sending /\ Held' = Held
  BY <1>2 DEF Sending, Main, Held, HeldBy, RunOf
<1>4. \A q \in Drainers : q # p => drain'[q] = drain[q]
  BY <1>1 DEF DrainStep, ListPending, DrainDone, OpenSpool, UploadAccepted, UploadRefused, UploadParked,
              UploadFails, Posted
<1>5. drain[p].pc # "off"
  BY DEF DrainStep, ListPending, DrainDone, OpenSpool, UploadAccepted, UploadRefused, UploadParked,
         UploadFails, Drain
<1>6. drain'[p].pc = "post" => drain'[p].cur \in disk'.pending
  <2>1. CASE ListPending(p)
    BY <1>1, <2>1 DEF ListPending, NoDrain
  <2>2. CASE DrainDone(p)
    BY <1>1, <2>2, OffTyped DEF DrainDone
  <2>3. ASSUME NEW a \in drain[p].todo, OpenSpool(p, a)
        PROVE  drain'[p].pc = "post" => drain'[p].cur \in disk'.pending
    BY <1>1, <2>3 DEF OpenSpool, Drains
  <2>4. CASE UploadAccepted(p) \/ UploadRefused(p) \/ UploadParked(p) \/ UploadFails(p)
    <3>1. Posted(p)
      BY <2>4 DEF UploadAccepted, UploadRefused, UploadParked, UploadFails
    <3> QED BY <1>1, <3>1 DEF Posted, Drains
  <2> QED BY <2>1, <2>2, <2>3, <2>4 DEF DrainStep
<1>7. InTurn'
  BY <1>2, <1>4, <1>5, <1>6, DrainTurns DEF Undisturbed
<1>8. late' = late
  BY DEF Calm, DrainStep, ListPending, DrainDone, OpenSpool, UploadAccepted, UploadRefused,
         UploadParked,
         UploadFails, Fail
<1>9. CASE ~UploadAccepted(p)
  <2>1. store' = store /\ hist' = hist
    BY <1>9 DEF DrainStep, ListPending, DrainDone, OpenSpool, UploadRefused, UploadParked,
                UploadFails, Fail
  <2>2. disk'.pending \subseteq disk.pending
    <3>1. CASE UploadParked(p)
      BY <1>1, <3>1 DEF UploadParked, Disks
    <3>2. CASE ~UploadParked(p)
      BY <1>9, <3>2 DEF DrainStep, ListPending, DrainDone, OpenSpool, UploadRefused, UploadFails
    <3> QED BY <3>1, <3>2
  <2>3. Keeps(store, store')
    BY <2>1, KeepsItself
  <2>4. Unmarked' /\ Answerable'
    BY <1>2, <1>3, <1>8, <2>2, <2>3, MarksKept, RestKept DEF Undisturbed, Unmarked
  <2> QED BY <1>7, <2>1, <2>4 DEF Undisturbed, BringsNone
<1>10. CASE UploadAccepted(p)
  <2> DEFINE a == drain[p].cur
             r == <<a.d, a.n>>
  <2>1. Drain(p, "post") /\ Accepts(a)
    BY <1>10 DEF UploadAccepted
  <2>2. a \in disk.pending /\ a \in Artefact /\ r \in Runs
    BY <2>1, PostTyped DEF Undisturbed, InTurn
  <2>3. a.d \in Digests /\ r[1] = a.d /\ r[2] = a.n
    BY <2>2 DEF Artefact
  <2>4. /\ store' = StoreArtefact(store, a) /\ disk' = [disk EXCEPT !.pending = @ \ {a}]
        /\ hist' = Publish(a)
    BY <1>10 DEF UploadAccepted
  <2> HIDE DEF a
  <2>5. /\ store'.outputs = [store.outputs EXCEPT ![a.d] = a]
        /\ store'.cancel = [store.cancel EXCEPT ![a.d] = "none"]
        /\ store'.inputs = store.inputs /\ store'.done = store.done
    BY <1>1, <2>3, <2>4 DEF StoreArtefact, Directory
  <2>6. disk'.pending = disk.pending \ {a} /\ hist'.published = hist.published \cup {r}
    BY <1>1, <2>2, <2>4, PublishTyped DEF Disks
  <2>7. Answerable' /\ r \in Record /\ a.d \notin Answered
    BY <1>2, <1>3, <2>2, <2>3, <2>5, <2>6, AnswerKept DEF Undisturbed
  <2>8. Unmarked'
    BY <1>1, <1>2, <1>8, <2>5 DEF Undisturbed, Unmarked, Directory
  <2>9. Brings(r)
    BY <2>2, <2>3, <2>5, <2>6, <2>7 DEF Brings
  <2> QED BY <1>7, <2>2, <2>7, <2>8, <2>9 DEF Undisturbed
<1> QED BY <1>9, <1>10

\* start-up,
LEMMA BootCalm ==
  ASSUME Good, RunInv, Calm, Undisturbed,
         Restart \/ StartupDrained \/ ListOrphans \/ \E r \in loop.orphans : FailOrphan(r)
  PROVE  Undisturbed' /\ store'.outputs = store.outputs /\ hist' = hist
<1>1. /\ drain \in [Drainers -> Drains] /\ disk \in Disks /\ store \in Directory /\ loop \in Loops
      /\ "main" \in Drainers /\ "thread" \in Drainers
      /\ loop.orphans # {} => loop.pc = "b_orphans"
  BY Typed DEF Good, Drainers, Shape, LoopShape
<1>2. store' = store /\ late' = late /\ work' = work /\ hist' = hist
  BY DEF Restart, StartupDrained, ListOrphans, FailOrphan
<1>3. Keeps(store, store') /\ Held' = Held
  BY <1>2, KeepsItself DEF Held, HeldBy, RunOf
<1>4. loop.pc \in Booting /\ loop'.pc \in {"b_drain", "b_jobs", "b_orphans"}
  <2>1. CASE Restart \/ StartupDrained \/ ListOrphans
    BY <2>1 DEF Restart, StartupDrained, ListOrphans, Main, AtPC, Booting
  <2>2. ASSUME NEW r \in loop.orphans, FailOrphan(r)
        PROVE  loop.pc = "b_orphans" /\ loop'.pc = "b_orphans"
    BY <1>1, <2>2 DEF FailOrphan, Main, Loops
  <2> QED BY <2>1, <2>2 DEF Booting
<1>5. Sending' = Sending
  BY <1>4 DEF Sending, Main, Booting
<1>6. Unmarked'
  BY <1>2, <1>3, <1>4, MarksKept DEF Undisturbed, Unmarked
<1>7. CASE Restart
  <2>1. /\ loop' = AtPC("b_drain") /\ disk' = disk
        /\ drain' = [drain EXCEPT !["main"].pc = "list"]
    BY <1>7 DEF Restart
  <2>2. drain'["main"].pc = "list" /\ drain'["thread"] = drain["thread"]
    BY <1>1, <2>1 DEF Drains
  <2>3. InTurn'
    BY <1>4, <2>1, <2>2 DEF Undisturbed, InTurn, AtPC, Drain, Drainers
  <2>4. Answerable'
    BY <1>3, <1>5, <2>1, RestKept DEF Undisturbed, AtPC
  <2> QED BY <1>2, <1>6, <2>3, <2>4 DEF Undisturbed
<1>8. CASE StartupDrained
  <2>1. loop' = AtPC("b_jobs") /\ disk' = disk /\ drain' = drain /\ Drain("main", "off")
    BY <1>8 DEF StartupDrained
  <2>2. InTurn'
    BY <1>4, <2>1 DEF Undisturbed, InTurn, AtPC, Drain
  <2>3. Answerable'
    BY <1>3, <1>5, <2>1, RestKept DEF Undisturbed, AtPC
  <2> QED BY <1>2, <1>6, <2>2, <2>3 DEF Undisturbed
<1>9. CASE ListOrphans
  <2> DEFINE spooled == {a.d : a \in disk.pending}
             rows == RowsOf({d \in Digests : Running(store, d)} \ spooled)
  <2>1. ASSUME NEW r \in rows PROVE r \in Record /\ r[1] \notin Answered /\ r \notin Pending
    <3>1. PICK d \in Digests : Running(store, d) /\ d \notin spooled /\ r = <<d, store.done[d].n>>
      BY DEF RowsOf
    <3>2. store.done[d].n \in Subs
      BY <1>1, <3>1, Values DEF Running, PickedUp, Directory, PlanFile
    <3>3. r \in Runs /\ r[1] = d /\ r[2] = store.done[d].n
      BY <3>1, <3>2, RunsAre
    <3>4. r \notin Pending
      BY <3>1, <3>3 DEF Pending, Spooled
    <3> QED BY <3>1, <3>3, <3>4 DEF Record, Answered, Running
  <2>2. /\ loop' = [AtPC("b_orphans") EXCEPT !.orphans = rows] /\ loop.pc = "b_jobs"
        /\ disk' = disk /\ drain' = drain
    BY <1>9 DEF ListOrphans, Main
  <2> HIDE DEF rows
  <2>3. loop'.orphans = rows /\ loop'.pc = "b_orphans"
    BY <2>2 DEF AtPC
  <2>4. InTurn'
    BY <1>4, <2>2, <2>3 DEF Undisturbed, InTurn, Drain, Booting
  <2>5. Pending' = Pending /\ Answered' = Answered /\ Queue' = Queue /\ Record' = Record
    BY <1>2, <2>2 DEF Pending, Spooled, Answered, Queue, Record
  <2>6. Owed' \subseteq Owed \cup rows
    BY <1>3, <1>5, <2>3, <2>5 DEF Owed
  <2>7. \A r \in Owed' : r \in Record' /\ r[1] \notin Answered'
    BY <2>1, <2>5, <2>6 DEF Undisturbed, Answerable
  <2>8. loop'.orphans \cap Pending' = {}
    BY <2>1, <2>3, <2>5
  <2>9. Answerable'
    BY <2>2, <2>5, <2>7, <2>8 DEF Undisturbed, Answerable
  <2> QED BY <1>2, <1>6, <2>4, <2>9 DEF Undisturbed
<1>10. ASSUME NEW r \in loop.orphans, FailOrphan(r)
       PROVE  Undisturbed' /\ store'.outputs = store.outputs /\ hist' = hist
  <2> DEFINE a == [d |-> r[1], n |-> r[2], st |-> "failed"]
  <2>1. r \in Runs /\ <<a.d, a.n>> = r
    BY <1>1, RunsAre DEF Loops
  <2>2. disk'.pending = disk.pending \cup {a}
    BY <1>1, <1>10 DEF FailOrphan, Disks
  <2>3. drain'["main"].cur = a /\ drain'["thread"] = drain["thread"]
    BY <1>1, <1>10 DEF FailOrphan, NoDrain
  <2>4. loop'.orphans = loop.orphans \ {r} /\ loop'.pc = "b_orphans" /\ loop.pc = "b_orphans"
    BY <1>1, <1>10 DEF FailOrphan, Loops, Main
  <2> HIDE DEF a
  <2>5. Pending' = Pending \cup {r}
    BY <2>1, <2>2 DEF Pending, Spooled
  <2>6. r \notin Pending
    BY DEF Undisturbed, Answerable
  <2>7. Owed' \subseteq Owed
    BY <1>3, <1>5, <2>4, <2>5 DEF Owed
  <2>8. Answered' = Answered /\ Queue' = Queue /\ Record' = Record
    BY <1>2 DEF Answered, Queue, Record
  <2>9. ASSUME NEW b \in disk.pending, b.d = a.d, b.n = a.n PROVE FALSE
    BY <2>1, <2>6, <2>9 DEF Pending, Spooled
  <2>10. \A b, c \in disk'.pending : b.d # None /\ b.d = c.d /\ b.n = c.n => b = c
    BY <2>2, <2>9 DEF Undisturbed, Answerable
  <2>11. Answerable'
    BY <2>4, <2>5, <2>7, <2>8, <2>10 DEF Undisturbed, Answerable
  <2>12. a \in disk'.pending
    BY <2>2
  <2>13. InTurn'
    BY <2>2, <2>3, <2>4, <2>12 DEF Undisturbed, InTurn, Drain, Drainers, Booting
  <2> QED BY <1>2, <1>6, <2>11, <2>13 DEF Undisturbed
<1> QED BY <1>7, <1>8, <1>9, <1>10

\* and a death.
LEMMA DeathCalm ==
  ASSUME Good, RunInv, Calm, Undisturbed, Crash \/ Interrupt \/ Exit
  PROVE  Undisturbed' /\ store'.outputs = store.outputs /\ hist' = hist
<1>1. Crash
  BY DEF Calm, Interrupt, Exit, Main, Undisturbed, Unmarked
<1>2. /\ loop'.pc = "down" /\ loop'.orphans = {} /\ disk' = disk /\ hist' = hist
      /\ \A p \in Drainers : drain'[p].pc = "off"
      /\ \A w \in Workers : work'[w].pc = "free"
  BY <1>1, OffTyped, IdleTyped DEF Crash, Die, AtPC
<1>3. Sending' = {} /\ Held' = {}
  BY <1>2 DEF Sending, Main, Held, HeldBy
<1>4. InTurn'
  BY <1>2 DEF InTurn, Drain, Drainers
<1>5. CASE Main("transfer") /\ TransferCut
  BY <1>2, <1>3, <1>4, <1>5, CutCalm
<1>6. CASE ~Main("transfer") /\ store' = store /\ Leaves(OnLoop \cup OnDrains)
  <2>1. \A q \in late' : q.op = "push"
    <3>1. \A q \in OnLoop \cup OnDrains : q.op \in LateOps => q.op = "push"
      BY DEF OnLoop, OnDrains, Main, Undisturbed, Unmarked, Calm
    <3>2. late' \subseteq late \cup {q \in OnLoop \cup OnDrains : q.op \in LateOps}
      BY <1>6 DEF Leaves
    <3> QED BY <3>1, <3>2, OnlySnapshots
  <2>2. Keeps(store, store')
    BY <1>6, KeepsItself
  <2>3. Unmarked' /\ Answerable'
    BY <1>2, <1>3, <2>1, <2>2, MarksKept, RestKept DEF Undisturbed
  <2> QED BY <1>2, <1>4, <1>6, <2>3 DEF Undisturbed
<1> QED BY <1>1, <1>5, <1>6 DEF Crash

-----------------------------------------------------------------------------
(* So it stays undisturbed *)

\* At the start the system is undisturbed,
LEMMA CalmFirst == Init => Undisturbed
<1> SUFFICES ASSUME Init PROVE Undisturbed
  OBVIOUS
<1>1. /\ \A d \in Digests : store.cancel[d] = "none" /\ store.inputs[d].n = 0
      /\ late = {} /\ disk.pending = {} /\ loop.pc = "cancels" /\ loop.orphans = {}
      /\ \A p \in Drainers : drain[p].pc = "off"
      /\ \A w \in Workers : work[w].pc = "free"
  BY Values, OffTyped, IdleTyped DEF Init, EmptyDirectory, AtPC
<1>2. Owed = {} /\ Queue = {}
  BY <1>1, RunsAre DEF Owed, Sending, Main, Held, HeldBy, Pending, Spooled, Queue
<1>3. Unmarked
  BY <1>1 DEF Unmarked
<1>4. InTurn
  BY <1>1 DEF InTurn, Booting, Drain, Drainers
<1>5. Answerable
  BY <1>1, <1>2 DEF Answerable
<1> QED BY <1>3, <1>4, <1>5 DEF Undisturbed

\* A step of the system brings at most an artefact,
LEMMA SystemCalm ==
  ASSUME Good, RunInv, Calm, Undisturbed, System
  PROVE  Undisturbed' /\ (BringsNone \/ \E r \in Runs : Brings(r))
<1>1. CASE Time
  BY <1>1, TimeCalm DEF BringsNone
<1>2. CASE LoopStep
  BY <1>2, TickCalm, ClaimCalm, TransferCalm, BootCalm, DeathCalm DEF LoopStep, BringsNone
<1>3. CASE LoopFails
  BY <1>3, TickCalm, TransferCalm DEF LoopFails, BringsNone
<1>4. ASSUME NEW w \in Workers, WorkStep(w) PROVE Undisturbed' /\ BringsNone
  BY <1>4, WorkCalm DEF BringsNone
<1>5. ASSUME NEW p \in Drainers, DrainStep(p) \/ UploadFails(p)
      PROVE  Undisturbed' /\ (BringsNone \/ \E r \in Runs : Brings(r))
  BY <1>5, DrainCalm
<1>6. CASE Restart \/ Crash \/ Interrupt
  BY <1>6, BootCalm, DeathCalm DEF BringsNone
<1> QED BY <1>1, <1>2, <1>3, <1>4, <1>5, <1>6 DEF System

\* and one of a user is a submission or a deletion.
LEMMA UsersCalm ==
  ASSUME Calm, Users
  PROVE  \E d \in Digests : Plans(d) \/ \E wholeJob \in BOOLEAN : Deletes(d, wholeJob)
<1>1. ~PruneStaleJobs /\ ~WipeAllJobs /\ \A d \in Digests : ~Cancel(d)
  BY DEF Calm, PruneStaleJobs, WipeAllJobs, Cancel
<1> QED BY <1>1 DEF Users, Submit, Plans, Delete, Deletes

\* and every step leaves it so.
LEMMA CalmNext ==
  ASSUME Good, RunInv, Calm, Undisturbed, [Next]_vars
  PROVE  Undisturbed'
<1>1. CASE Users
  BY <1>1, UsersCalm, PlansCalm, DeletesCalm
<1>2. CASE System
  BY <1>2, SystemCalm
<1>3. CASE UNCHANGED vars
  <2>1. /\ Unmarked' <=> Unmarked
        /\ InTurn' <=> InTurn
    BY <1>3 DEF vars, Unmarked, InTurn, Drain
  <2>2. Keeps(store, store') /\ Sending' = Sending /\ Held' = Held
    BY <1>3, KeepsItself DEF vars, Sending, Main, Held, HeldBy, RunOf
  <2>3. Answerable'
    BY <1>3, <2>2, RestKept DEF vars, Undisturbed
  <2> QED BY <2>1, <2>3 DEF Undisturbed
<1> QED BY <1>1, <1>2, <1>3 DEF Next

\* A session's run has its record, and no other session has.
LEMMA CalmSessions ==
  ASSUME Good, RunInv, Undisturbed
  PROVE  OneSessionPerDigest /\ SessionHasRecord
<1>1. ASSUME NEW w \in Workers, Live(w)
      PROVE  /\ work[w].d \in Digests /\ work[w].n # 0
             /\ RunOf(w) \in HeldBy(w) /\ store.done[work[w].d].n = work[w].n
  <2>1. work[w].d \in Digests /\ work[w].n \in Subs
    BY <1>1 DEF Good, Shape, WorkShape, Live
  <2>2. RunOf(w) \in HeldBy(w)
    BY <1>1, <2>1, RunsAre DEF HeldBy, RunOf, Live
  <2>3. RunOf(w) \in Record
    BY <2>2 DEF Undisturbed, Answerable, Owed, Held, HeldBy
  <2> QED BY <2>1, <2>2, <2>3, RunsAre, Values DEF Record, RunOf
<1>2. SessionHasRecord
  BY <1>1 DEF SessionHasRecord, PlanPresent, PickedUp
<1>3. ASSUME NEW v \in Workers, NEW w \in Workers, v # w, Live(v), Live(w), work[v].d = work[w].d
      PROVE  FALSE
  <2>1. RunOf(v) = RunOf(w)
    BY <1>1, <1>3 DEF RunOf
  <2> QED BY <1>1, <1>3, <2>1 DEF RunInv, Workplace
<1> QED BY <1>2, <1>3 DEF OneSessionPerDigest

\* Good, RunInv and Undisturbed are inductive together, in calm.
LEMMA SystemIsCalm ==
  ASSUME Calm
  PROVE  Spec => [](Good /\ RunInv /\ Undisturbed)
<1>1. Init => Good /\ RunInv /\ Undisturbed
  BY GoodFirst, RunFirst, CalmFirst
<1>2. "rollback" \notin LateOps
  BY DEF Calm
<1>3. Good /\ RunInv /\ Undisturbed /\ [Next]_vars => (Good /\ RunInv /\ Undisturbed)'
  BY <1>2, GoodNext, RunNext, CalmNext
<1> QED BY <1>1, <1>3, PTL DEF Spec

\* Among users who only submit and delete, and while no upload or rollback is served
\* after the poller gave up on it, two sessions never run the same plan at once,
\* whatever is lost and however often the poller dies.
THEOREM OneSessionInCalm ==
  ASSUME Calm
  PROVE  Spec => []OneSessionPerDigest
<1>1. Good /\ RunInv /\ Undisturbed => OneSessionPerDigest
  BY CalmSessions
<1> QED BY <1>1, SystemIsCalm, PTL

\* Under the same conditions the server has the record of every session's job, so
\* that the gate of _artefact will let its artefact in.
THEOREM RecordInCalm ==
  ASSUME Calm
  PROVE  Spec => []SessionHasRecord
<1>1. Good /\ RunInv /\ Undisturbed => SessionHasRecord
  BY CalmSessions
<1> QED BY <1>1, SystemIsCalm, PTL
=============================================================================
