-------------------------- MODULE JobServerProofs ---------------------------
(***************************************************************************)
(* What JobServer promises for any number of handler threads, digests and  *)
(* submissions, and for which mixes of requests.                           *)
(***************************************************************************)
EXTENDS JobServer, TLAPS

ThrRecord  == [pc : PCs, d : Digests \cup {None}, n : Sub0, x : {0, 1},
               rows : SUBSET (Digests \cup Subs), seen : SUBSET Runs]
HistRecord == [ops : Traffic, subs : [Digests -> Sub0], unqueued : SUBSET Runs,
               delivered : SUBSET Delivery, missed : BOOLEAN]

Metas      == [inputs : [Digests -> Sub0], done : [Digests -> Sub0]]
Pollers    == [live : SUBSET Runs, ended : SUBSET Runs]

\* Where a thread has a digest, and where it has the number of a submission.
OnDigest == SubmitPCs \cup PickupPCs \cup CancelPCs \cup DeletePCs \cup ArtefactPCs
            \cup {"p_plan", "p_meta"}
Numbered == {"g_readmeta", "g_write", "g_unmeta", "g_unplan"} \cup ArtefactPCs

Place(t) ==
    /\ thr[t].pc \in SubmitPCs => lock = t
    /\ thr[t].pc \in SubmitPCs \ {"s_uncancel"} => hist.subs[Me(t)] < MaxSubs
    /\ thr[t].pc \in OnDigest => Me(t) \in Digests
    /\ thr[t].pc \in Numbered => thr[t].n \in Subs
    /\ thr[t].pc = "g_write" => thr[t].rows \subseteq Subs
    /\ thr[t].pc \in PrunePCs => thr[t].rows \subseteq Digests
    /\ thr[t].pc \in {"g_claim", "g_meta"} => thr[t].x = 0

Inv == TypeOK /\ \A t \in Threads : Place(t)

Others(t) == \A u \in Threads \ {t} : thr'[u] = thr[u]

-----------------------------------------------------------------------------
(* The moves of a thread *)

\* An idle thread, and the labels it is not at.
LEMMA PCsDistinct ==
  /\ "idle" \notin OnDigest /\ "idle" \notin Numbered /\ "idle" \notin PrunePCs
  /\ Idle \in ThrRecord /\ Idle.pc = "idle" /\ Idle.d = None /\ Idle.n = 0
  /\ Idle.rows = {} /\ Idle.seen = {} /\ Idle.x = 0
  BY StoreAssumption DEF OnDigest, Numbered, PrunePCs, SubmitPCs, PickupPCs, CancelPCs, DeletePCs,
     ArtefactPCs, Idle, ThrRecord, PCs, Sub0, Subs

\* A thread goes on at another label,
LEMMA GotoDoes ==
  ASSUME thr \in [Threads -> ThrRecord], NEW t \in Threads, NEW pc \in PCs, Goto(t, pc)
  PROVE  /\ thr' \in [Threads -> ThrRecord] /\ Others(t)
         /\ thr'[t].pc = pc /\ thr'[t].d = thr[t].d /\ thr'[t].n = thr[t].n
         /\ thr'[t].x = thr[t].x /\ thr'[t].rows = thr[t].rows /\ thr'[t].seen = thr[t].seen
  BY DEF Goto, ThrRecord, Others

\* takes note of something on its way,
LEMMA PutDoes ==
  ASSUME thr \in [Threads -> ThrRecord], NEW t \in Threads, NEW r \in ThrRecord,
         thr' = [thr EXCEPT ![t] = r]
  PROVE  thr' \in [Threads -> ThrRecord] /\ Others(t) /\ thr'[t] = r
  BY DEF Others

\* its request is answered,
LEMMA ReturnDoes ==
  ASSUME thr \in [Threads -> ThrRecord], NEW t \in Threads, Return(t)
  PROVE  thr' \in [Threads -> ThrRecord] /\ Others(t) /\ thr'[t] = Idle
  BY PCsDistinct DEF Return, Others

\* or a request arrives.
LEMMA StartDoes ==
  ASSUME thr \in [Threads -> ThrRecord], NEW t \in Threads, NEW op, NEW pc \in PCs,
         NEW d \in Digests \cup {None}, Start(t, op, pc, d)
  PROVE  /\ thr' \in [Threads -> ThrRecord] /\ Others(t) /\ thr[t].pc = "idle" /\ op \in ServerOps
         /\ thr'[t].pc = pc /\ thr'[t].d = d /\ thr'[t].n = 0
         /\ thr'[t].x = 0 /\ thr'[t].rows = {} /\ thr'[t].seen = {}
<1>1. /\ Idle \in ThrRecord /\ Idle.n = 0 /\ Idle.x = 0 /\ Idle.rows = {} /\ Idle.seen = {}
  BY PCsDistinct
<1> DEFINE r == [Idle EXCEPT !.pc = pc, !.d = d]
<1>2. r \in ThrRecord /\ r.pc = pc /\ r.d = d /\ r.n = 0 /\ r.x = 0 /\ r.rows = {} /\ r.seen = {}
  BY <1>1 DEF ThrRecord
<1>3. thr' = [thr EXCEPT ![t] = r] /\ At(t, "idle") /\ op \in ServerOps
  BY DEF Start
<1> HIDE DEF r
<1> QED BY <1>2, <1>3 DEF Others, At

-----------------------------------------------------------------------------
(* The directory *)

\* One file of the directory changes,
LEMMA FileSet ==
  ASSUME NEW f \in Directory, NEW d \in Digests, NEW p \in PlanFile
  PROVE  /\ [f EXCEPT !.inputs[d] = p] \in Directory
         /\ [f EXCEPT !.inputs[d] = p].inputs = [f.inputs EXCEPT ![d] = p]
         /\ [f EXCEPT !.inputs[d] = p].done = f.done
         /\ [f EXCEPT !.done[d] = p] \in Directory
         /\ [f EXCEPT !.done[d] = p].done = [f.done EXCEPT ![d] = p]
         /\ [f EXCEPT !.done[d] = p].inputs = f.inputs
  BY DEF Directory

\* a marker,
LEMMA MarkSet ==
  ASSUME NEW f \in Directory, NEW d \in Digests, NEW m \in Marker
  PROVE  /\ [f EXCEPT !.cancel[d] = m] \in Directory
         /\ [f EXCEPT !.cancel[d] = m].inputs = f.inputs
         /\ [f EXCEPT !.cancel[d] = m].done = f.done
  BY DEF Directory

\* an artefact,
LEMMA OutputSet ==
  ASSUME NEW f \in Directory, NEW d \in Digests, NEW a \in Artefact \cup {NoArt}
  PROVE  /\ [f EXCEPT !.outputs[d] = a] \in Directory
         /\ [f EXCEPT !.outputs[d] = a].inputs = f.inputs
         /\ [f EXCEPT !.outputs[d] = a].done = f.done
  BY DEF Directory

\* the snapshot of the poller,
LEMMA SnapshotSet ==
  ASSUME NEW f \in Directory, NEW s \in SUBSET Digests
  PROVE  /\ ReceiveInflight(f, s) \in Directory
         /\ ReceiveInflight(f, s).inputs = f.inputs
         /\ ReceiveInflight(f, s).done = f.done
  BY DEF Directory, ReceiveInflight

\* or a plan moves between INPUTS and DONE.
LEMMA PlanMoves ==
  ASSUME NEW f \in Directory, NEW d \in Digests
  PROVE  /\ Claim(f, d) \in Directory /\ Rollback(f, d) \in Directory
         /\ Claim(f, d).done = [f.done EXCEPT ![d] = f.inputs[d]]
         /\ Claim(f, d).inputs = [f.inputs EXCEPT ![d] = NoFile]
         /\ PickedUp(f, d) =>
              /\ Rollback(f, d).inputs = [f.inputs EXCEPT ![d] = f.done[d]]
              /\ Rollback(f, d).done = [f.done EXCEPT ![d] = NoFile]
         /\ ~PickedUp(f, d) => Rollback(f, d) = f
<1>1. NoFile \in PlanFile /\ f.inputs[d] \in PlanFile /\ f.done[d] \in PlanFile
  BY StoreAssumption DEF NoFile, PlanFile, Sub0, Directory
<1>2. /\ Claim(f, d) \in Directory
      /\ Claim(f, d).done = [f.done EXCEPT ![d] = f.inputs[d]]
      /\ Claim(f, d).inputs = [f.inputs EXCEPT ![d] = NoFile]
  BY <1>1 DEF Directory, Claim
<1>3. ~PickedUp(f, d) => Rollback(f, d) = f
  BY DEF Rollback
<1>4. PickedUp(f, d) => /\ Rollback(f, d) \in Directory
                        /\ Rollback(f, d).inputs = [f.inputs EXCEPT ![d] = f.done[d]]
                        /\ Rollback(f, d).done = [f.done EXCEPT ![d] = NoFile]
  BY <1>1 DEF Directory, Rollback
<1> QED BY <1>2, <1>3, <1>4

-----------------------------------------------------------------------------
(* Types, the lock of queue_job, and what a thread has where it is *)

\* The values the model counts with.
LEMMA Values ==
  /\ None \notin Threads /\ None \notin Digests /\ MaxSubs \in Nat
  /\ NoFile \in PlanFile /\ NoFile.n = 0 /\ 0 \in Sub0 /\ Subs \subseteq Sub0
  /\ \A n \in Sub0 : n # 0 => n \in Subs
  /\ \A n \in Sub0 : n < MaxSubs => n + 1 \in Subs
  BY StoreAssumption, ServerAssumption DEF NoFile, PlanFile, Sub0, Subs

\* What TypeOK says of each variable.
LEMMA Typed ==
  ASSUME Inv
  PROVE  /\ fs \in Directory /\ meta \in Metas /\ lock \in Threads \cup {None}
         /\ thr \in [Threads -> ThrRecord] /\ poller \in Pollers /\ hist \in HistRecord
         /\ \A t \in Threads : /\ Place(t) /\ thr[t].pc \in PCs /\ thr[t].n \in Sub0
                               /\ thr[t].d \in Digests \cup {None} /\ thr[t].x \in {0, 1}
                               /\ thr[t].rows \subseteq Digests \cup Subs
                               /\ thr[t].seen \subseteq Runs
         /\ \A d \in Digests : /\ fs.inputs[d] \in PlanFile /\ fs.done[d] \in PlanFile
                               /\ fs.inputs[d].n \in Sub0 /\ fs.done[d].n \in Sub0
                               /\ meta.inputs[d] \in Sub0 /\ meta.done[d] \in Sub0
                               /\ hist.subs[d] \in Sub0
<1>1. /\ fs \in Directory /\ meta \in Metas /\ lock \in Threads \cup {None}
      /\ thr \in [Threads -> ThrRecord] /\ poller \in Pollers /\ hist \in HistRecord
      /\ \A t \in Threads : Place(t)
  BY DEF Inv, TypeOK, Metas, Pollers, ThrRecord, HistRecord
<1>2. \A t \in Threads : /\ thr[t].pc \in PCs /\ thr[t].n \in Sub0
                         /\ thr[t].d \in Digests \cup {None} /\ thr[t].x \in {0, 1}
                         /\ thr[t].rows \subseteq Digests \cup Subs
                         /\ thr[t].seen \subseteq Runs
  BY <1>1 DEF ThrRecord
<1>3. \A d \in Digests : /\ fs.inputs[d] \in PlanFile /\ fs.done[d] \in PlanFile
                         /\ meta.inputs[d] \in Sub0 /\ meta.done[d] \in Sub0
                         /\ hist.subs[d] \in Sub0
  BY <1>1 DEF Directory, Metas, HistRecord
<1>4. \A d \in Digests : fs.inputs[d].n \in Sub0 /\ fs.done[d].n \in Sub0
  BY <1>3 DEF PlanFile
<1> QED BY <1>1, <1>2, <1>3, <1>4

\* What is left to show of a step of one thread.
LEMMA StepKeeps ==
  ASSUME Inv, NEW t \in Threads, thr' \in [Threads -> ThrRecord], Others(t), Place(t)',
         fs' \in Directory, meta' \in Metas, poller' \in Pollers, hist' \in HistRecord,
         \/ lock' = lock
         \/ lock = None /\ lock' = t
         \/ lock = t /\ lock' = None,
         hist'.subs = hist.subs \/ lock = t
  PROVE  Inv'
<1>1. TypeOK'
  BY Typed DEF TypeOK, Metas, Pollers, HistRecord, ThrRecord
<1>2. ASSUME NEW u \in Threads PROVE Place(u)'
  <2>1. CASE u = t
    BY <2>1
  <2>2. CASE u # t
    <3>1. thr'[u] = thr[u] /\ Place(u)
      BY <2>2, Typed DEF Others
    <3>2. thr[u].pc \in SubmitPCs => lock' = lock /\ hist'.subs = hist.subs
      BY <2>2, <3>1, Values DEF Place
    <3> QED BY <3>1, <3>2 DEF Place, Me
  <2> QED BY <2>1, <2>2
<1> QED BY <1>1, <1>2 DEF Inv

\* A step that leaves lock and answers alone.
LEMMA QuietStepKeeps ==
  ASSUME Inv, NEW t \in Threads, thr' \in [Threads -> ThrRecord], Others(t), Place(t)',
         fs' \in Directory, meta' \in Metas, Files
  PROVE  Inv'
  BY Typed, StepKeeps DEF Files

\* A thread that is idle, or that looks around and goes on, has nothing to hold.
LEMMA PlaceIdle ==
  ASSUME NEW t \in Threads, thr'[t] = Idle
  PROVE  Place(t)'
  BY PCsDistinct DEF Place, Idle, SubmitPCs, OnDigest, Numbered, PrunePCs

\* A thread that reads, and goes on or is done.
LEMMA ReadKeeps ==
  ASSUME Inv, NEW t \in Threads, thr' \in [Threads -> ThrRecord], Others(t), Place(t)', Reads
  PROVE  Inv'
  BY Typed, StepKeeps DEF Reads

\* What carries over from one label to the next.
Follows(t) ==
    /\ thr'[t].pc \in SubmitPCs => thr[t].pc \in SubmitPCs \ {"s_uncancel"}
    /\ thr'[t].pc \in OnDigest  => thr[t].pc \in OnDigest
    /\ thr'[t].pc \in Numbered  => thr[t].pc \in Numbered
    /\ thr'[t].pc \in PrunePCs  => thr[t].pc \in PrunePCs
    /\ thr'[t].pc = "g_write"   => thr[t].pc = "g_write"
    /\ thr'[t].pc \in {"g_claim", "g_meta"} => thr[t].pc = "g_claim"

\* It carries what its place asks for from one label to the next,
LEMMA GotoKeeps ==
  ASSUME Inv, NEW t \in Threads, NEW pc \in PCs, Goto(t, pc), Follows(t),
         lock' = lock, hist'.subs = hist.subs
  PROVE  thr' \in [Threads -> ThrRecord] /\ Others(t) /\ Place(t)' /\ thr'[t].pc = pc
<1>1. /\ thr' \in [Threads -> ThrRecord] /\ Others(t)
      /\ thr'[t].pc = pc /\ thr'[t].d = thr[t].d /\ thr'[t].n = thr[t].n
      /\ thr'[t].rows = thr[t].rows /\ thr'[t].x = thr[t].x
  BY Typed, GotoDoes
<1>2. Place(t)
  BY DEF Inv
<1>3. Place(t)'
  BY <1>1, <1>2 DEF Place, Follows, Me
<1> QED BY <1>1, <1>3

\* and needs nothing once its request is answered.
LEMMA ReturnKeeps ==
  ASSUME Inv, NEW t \in Threads, Return(t)
  PROVE  thr' \in [Threads -> ThrRecord] /\ Others(t) /\ Place(t)'
  BY Typed, ReturnDoes, PlaceIdle

\* A request arrives.
LEMMA RequestKeeps ==
  ASSUME Inv, NEW t \in Threads, Request(t)
  PROVE  Inv'
<1> USE Typed DEF Reads
<1>1. ASSUME NEW d \in Digests, SubmitStart(t, d) PROVE Inv'
  <2>1. Start(t, "submit", "s_outputs", d)
    BY <1>1 DEF SubmitStart
  <2>2. "s_outputs" \in PCs /\ d \in Digests \cup {None} /\ thr \in [Threads -> ThrRecord]
    BY DEF PCs, SubmitPCs
  <2>3. /\ thr' \in [Threads -> ThrRecord] /\ Others(t)
        /\ thr'[t].pc = "s_outputs" /\ thr'[t].d = d
    BY ONLY <2>1, <2>2, StartDoes, t \in Threads
  <2>4. lock' = t /\ lock = None /\ hist.subs[d] < MaxSubs /\ UNCHANGED <<fs, meta, poller, hist>>
    BY <1>1 DEF SubmitStart
  <2>5. "s_outputs" \in SubmitPCs /\ "s_outputs" \notin ArtefactPCs \cup PrunePCs
    BY DEF SubmitPCs, ArtefactPCs, PrunePCs
  <2>6. "s_outputs" \notin Numbered
    BY DEF Numbered, ArtefactPCs
  <2>7. Place(t)'
    BY <2>3, <2>4, <2>5, <2>6 DEF Place, Me, OnDigest
  <2> QED BY <2>3, <2>4, <2>7, StepKeeps
<1>2. ASSUME NEW d \in Digests, NEW op, NEW pc \in {"g_claim", "c_plan", "r_cancel", "d_outputs"},
             Start(t, op, pc, d), Reads
      PROVE  Inv'
  <2>1. pc \in PCs
    BY DEF PCs, PickupPCs, CancelPCs, DeletePCs
  <2>2. /\ thr' \in [Threads -> ThrRecord] /\ Others(t) /\ thr'[t].pc = pc /\ thr'[t].d = d
        /\ thr'[t].x = 0
    BY <1>2, <2>1, StartDoes
  <2>3. Place(t)'
    BY <2>2 DEF Place, Me, SubmitPCs, OnDigest, Numbered, ArtefactPCs, PrunePCs
  <2> QED BY <1>2, <2>2, <2>3, ReadKeeps
<1>3. ASSUME NEW r \in poller.ended, ArtefactStart(t, r) PROVE Inv'
  <2> DEFINE a == [Idle EXCEPT !.pc = "a_done", !.d = r[1], !.n = r[2]]
  <2>1. r[1] \in Digests /\ r[2] \in Subs
    BY DEF Pollers, Runs
  <2>2. a \in ThrRecord /\ a.pc = "a_done" /\ a.d = r[1] /\ a.n = r[2]
    <3>1. Idle \in ThrRecord /\ r[2] \in Sub0 /\ "a_done" \in PCs
      BY <2>1, PCsDistinct, Values DEF PCs, ArtefactPCs
    <3> QED BY <2>1, <3>1 DEF ThrRecord
  <2>3. thr' = [thr EXCEPT ![t] = a] /\ Reads
    BY <1>3 DEF ArtefactStart
  <2> HIDE DEF a
  <2>4. thr' \in [Threads -> ThrRecord] /\ Others(t) /\ thr'[t] = a
    BY <2>2, <2>3 DEF Others
  <2>5. Place(t)'
    BY <2>1, <2>2, <2>4 DEF Place, Me, SubmitPCs, OnDigest, Numbered, ArtefactPCs, PrunePCs
  <2> QED BY <2>3, <2>4, <2>5, ReadKeeps
<1>4. CASE PruneStart(t)
  <2>1. "p_outputs" \in PCs /\ Start(t, "prune", "p_outputs", None) /\ Reads
    BY <1>4 DEF PCs, PrunePCs, PruneStart
  <2>2. /\ thr' \in [Threads -> ThrRecord] /\ Others(t) /\ thr'[t].pc = "p_outputs"
        /\ thr'[t].rows = {}
    BY <2>1, StartDoes
  <2>3. Place(t)'
    BY <2>2 DEF Place, SubmitPCs, PickupPCs, CancelPCs, DeletePCs, OnDigest, Numbered, ArtefactPCs,
                PrunePCs
  <2> QED BY <2>1, <2>2, <2>3, ReadKeeps
<1>5. CASE ListStart(t)
  <2> DEFINE a == [Idle EXCEPT !.pc = "j_inputs", !.seen = OnRecord]
  <2>1. a \in ThrRecord /\ a.pc = "j_inputs"
    BY PCsDistinct DEF ThrRecord, PCs, ListPCs, OnRecord
  <2>2. thr' = [thr EXCEPT ![t] = a] /\ Reads
    BY <1>5 DEF ListStart
  <2> HIDE DEF a
  <2>3. thr' \in [Threads -> ThrRecord] /\ Others(t) /\ thr'[t].pc = "j_inputs"
    BY <2>1, <2>2 DEF Others
  <2>4. Place(t)'
    BY <2>3 DEF Place, SubmitPCs, PickupPCs, CancelPCs, DeletePCs, OnDigest, Numbered, ArtefactPCs,
                PrunePCs
  <2> QED BY <2>2, <2>3, <2>4, ReadKeeps
<1> QED BY <1>1, <1>2, <1>3, <1>4, <1>5 DEF Request, PickupStart, CancelStart, ResolveStart,
           DeleteStart

\* queue_job, under its lock.
LEMMA SubmitKeeps ==
  ASSUME Inv, NEW t \in Threads, Submit(t)
  PROVE  Inv'
<1> USE DEF SubmitPCs, PickupPCs, CancelPCs, DeletePCs, ArtefactPCs, PrunePCs, OnDigest, Numbered,
            At, Follows
<1>1. CASE Refuse(t)
  <2>1. lock = t
    BY <1>1, Typed DEF Submit, SubmitCheck, SubmitMeta, SubmitPlan, SubmitUncancel, Place, Refuse,
           Return, Idle
  <2>2. thr' \in [Threads -> ThrRecord] /\ Others(t) /\ Place(t)'
    BY <1>1, ReturnKeeps DEF Refuse
  <2> QED BY <1>1, <2>1, <2>2, StepKeeps, Typed DEF Refuse
<1>2. CASE SubmitCheck(t) /\ ~Refuse(t)
  <2>1. PICK pc \in {"s_inputs", "s_done", "s_inflight", "s_meta"} :
             Goto(t, pc) /\ Reads /\ thr[t].pc \in SubmitPCs \ {"s_uncancel"}
    BY <1>2 DEF SubmitCheck
  <2>2. pc \in PCs /\ lock' = lock /\ hist'.subs = hist.subs
    BY <2>1 DEF PCs, Reads
  <2>3. thr'[t].pc = pc
    BY <2>1, <2>2, GotoDoes, Typed
  <2>4. Follows(t)
    BY <2>1, <2>3
  <2>5. thr' \in [Threads -> ThrRecord] /\ Others(t) /\ Place(t)'
    BY <2>1, <2>2, <2>4, GotoKeeps
  <2> QED BY <2>1, <2>5, ReadKeeps
<1>3. CASE SubmitMeta(t)
  <2>1. Goto(t, "s_plan") /\ fs' = fs /\ Files /\ thr[t].pc = "s_meta" /\ "s_plan" \in PCs
    BY <1>3 DEF SubmitMeta, PCs
  <2>2. thr'[t].pc = "s_plan" /\ lock' = lock /\ hist' = hist
    BY <2>1, GotoDoes, Typed DEF Files
  <2>3. thr' \in [Threads -> ThrRecord] /\ Others(t) /\ Place(t)'
    BY <2>1, <2>2, GotoKeeps
  <2>4. PICK m \in Sub0 : meta' = [meta EXCEPT !.inputs[Me(t)] = m]
    <3>1. hist.subs[Me(t)] \in Sub0 /\ hist.subs[Me(t)] < MaxSubs
      BY <2>1, Typed DEF Place
    <3> QED BY <1>3, <3>1, Values DEF SubmitMeta
  <2>5. meta' \in Metas
    BY <2>4, Typed DEF Metas
  <2> QED BY <2>1, <2>3, <2>5, Typed, QuietStepKeeps
<1>4. CASE SubmitPlan(t)
  <2> DEFINE n == hist.subs[Me(t)] + 1
  <2>1. /\ Goto(t, "s_uncancel") /\ thr[t].pc = "s_plan" /\ "s_uncancel" \in PCs
        /\ lock = t /\ Me(t) \in Digests /\ UNCHANGED <<meta, lock, poller>>
        /\ fs' = [fs EXCEPT !.inputs[Me(t)] = [n |-> n, old |-> FALSE]]
        /\ hist' = [hist EXCEPT !.subs[Me(t)] = n]
    BY <1>4, Typed DEF SubmitPlan, PCs, Place
  <2>2. n \in Subs
    <3>1. hist.subs[Me(t)] \in Sub0 /\ hist.subs[Me(t)] < MaxSubs
      BY <2>1, Typed DEF Place
    <3> QED BY <3>1, Values
  <2> HIDE DEF n
  <2>3. fs' \in Directory
    <3>1. [n |-> n, old |-> FALSE] \in PlanFile
      BY <2>2, Values DEF PlanFile
    <3> QED BY <2>1, <3>1, FileSet, Typed
  <2>4. hist' \in HistRecord
    BY <2>1, <2>2, Typed, Values DEF HistRecord
  <2>5. /\ thr' \in [Threads -> ThrRecord] /\ Others(t)
        /\ thr'[t].pc = "s_uncancel" /\ thr'[t].d = thr[t].d
    BY <2>1, GotoDoes, Typed
  <2>6. Place(t)'
    BY <2>1, <2>5 DEF Place, Me
  <2> QED BY <2>1, <2>3, <2>4, <2>5, <2>6, StepKeeps, Typed
<1>5. CASE SubmitUncancel(t)
  <2>1. /\ fs' = [fs EXCEPT !.cancel[Me(t)] = "none"] /\ lock' = None /\ Return(t)
        /\ UNCHANGED <<meta, poller, hist>> /\ lock = t /\ Me(t) \in Digests
    BY <1>5, Typed DEF SubmitUncancel, Place
  <2>2. fs' \in Directory
    BY <2>1, MarkSet, Typed DEF Marker
  <2>3. thr' \in [Threads -> ThrRecord] /\ Others(t) /\ Place(t)'
    BY <2>1, ReturnKeeps
  <2> QED BY <2>1, <2>2, <2>3, StepKeeps, Typed
<1> QED BY <1>1, <1>2, <1>3, <1>4, <1>5 DEF Submit

\* _pickup and _rollback_pickup.
LEMMA PickupKeeps ==
  ASSUME Inv, NEW t \in Threads, Pickup(t)
  PROVE  Inv'
<1> USE DEF SubmitPCs, PickupPCs, CancelPCs, DeletePCs, ArtefactPCs, PrunePCs, OnDigest, Numbered,
            At, Follows
<1>0. Me(t) \in Digests
  BY Typed DEF Pickup, PickupClaim, PickupMeta, PickupRead, PickupReadMeta, PickupDelivered,
     PickupCut, RollbackMeta, RollbackPlan, Place
<1>1. ASSUME NEW pc \in {"g_meta", "g_read", "g_unplan", "g_unmeta"}, Goto(t, pc),
             thr[t].pc \in PickupPCs, pc = "g_meta" => thr[t].pc = "g_claim",
             pc \in {"g_unplan", "g_unmeta"} => thr[t].pc \in Numbered,
             fs' \in Directory, meta' \in Metas, Files
      PROVE  Inv'
  <2>1. pc \in PCs /\ lock' = lock /\ hist'.subs = hist.subs
    BY <1>1 DEF PCs, Files
  <2>2. thr'[t].pc = pc
    BY <1>1, <2>1, GotoDoes, Typed
  <2>3. Follows(t)
    BY <1>1, <2>2
  <2>4. thr' \in [Threads -> ThrRecord] /\ Others(t) /\ Place(t)'
    BY <1>1, <2>1, <2>3, GotoKeeps
  <2> QED BY <1>1, <2>4, QuietStepKeeps
<1>2. ASSUME Return(t), fs' \in Directory, meta' \in Metas, Files
      PROVE  Inv'
  BY <1>2, ReturnKeeps, QuietStepKeeps
<1>3. CASE PickupClaim(t)
  <2>0. Claim(fs, Me(t)) \in Directory
    BY <1>0, PlanMoves, Typed
  <2>1. fs' \in Directory /\ meta' = meta /\ Files /\ thr[t].pc = "g_claim"
    BY <1>3, <2>0, Typed DEF PickupClaim
  <2>2. Goto(t, "g_meta") \/ Return(t)
    BY <1>3 DEF PickupClaim
  <2> QED BY <1>1, <1>2, <2>1, <2>2, Typed
<1>4. CASE PickupMeta(t)
  <2>1. thr[t].pc = "g_meta" /\ fs' = fs /\ Files
    BY <1>4 DEF PickupMeta
  <2>2. CASE meta.inputs[Me(t)] # 0
    <3> DEFINE m == [meta EXCEPT !.done[Me(t)] = meta.inputs[Me(t)], !.inputs[Me(t)] = 0]
    <3>1. meta' = m /\ thr' = [thr EXCEPT ![t].pc = "g_read", ![t].x = 1]
      BY <1>4, <2>2 DEF PickupMeta
    <3>2. m \in Metas
      BY <1>0, Typed, Values DEF Metas
    <3>3. /\ thr' \in [Threads -> ThrRecord] /\ Others(t)
          /\ thr'[t].pc = "g_read" /\ thr'[t].d = thr[t].d
      <4> DEFINE r == [thr[t] EXCEPT !.pc = "g_read", !.x = 1]
      <4>1. thr' = [thr EXCEPT ![t] = r]
        BY <3>1, Typed
      <4>a. thr[t] \in ThrRecord /\ "g_read" \in PCs
        BY Typed DEF PCs
      <4>2. r \in ThrRecord /\ r.pc = "g_read" /\ r.d = thr[t].d
        BY <4>a DEF ThrRecord
      <4> HIDE DEF r
      <4> QED BY <4>1, <4>2, PutDoes, Typed
    <3>4. Place(t)'
      BY <1>0, <3>3 DEF Place, Me
    <3> QED BY <2>1, <3>1, <3>2, <3>3, <3>4, QuietStepKeeps, Typed
  <2>3. CASE ~(meta.inputs[Me(t)] # 0)
    <3>1. meta' = meta /\ Goto(t, "g_read")
      BY <1>4, <2>3 DEF PickupMeta
    <3> QED BY <1>1, <2>1, <3>1, Typed
  <2> QED BY <2>2, <2>3
<1>5. CASE PickupRead(t)
  <2>1. thr[t].pc = "g_read" /\ Reads
    BY <1>5 DEF PickupRead
  <2>2. CASE PickedUp(fs, Me(t))
    <3>1. fs.done[Me(t)].n \in Subs /\ fs.done[Me(t)].n \in Sub0
      BY <1>0, <2>2, Typed, Values DEF PickedUp
    <3>2. thr' = [thr EXCEPT ![t].pc = "g_readmeta", ![t].n = fs.done[Me(t)].n]
      BY <1>5, <2>2 DEF PickupRead
    <3>3. /\ thr' \in [Threads -> ThrRecord] /\ Others(t) /\ thr'[t].pc = "g_readmeta"
          /\ thr'[t].d = thr[t].d /\ thr'[t].n = fs.done[Me(t)].n
      <4> DEFINE r == [thr[t] EXCEPT !.pc = "g_readmeta", !.n = fs.done[Me(t)].n]
      <4>1. thr' = [thr EXCEPT ![t] = r]
        BY <3>2, Typed
      <4>a. thr[t] \in ThrRecord /\ "g_readmeta" \in PCs
        BY Typed DEF PCs
      <4>2. r \in ThrRecord /\ r.pc = "g_readmeta" /\ r.d = thr[t].d /\ r.n = fs.done[Me(t)].n
        BY <3>1, <4>a DEF ThrRecord
      <4> HIDE DEF r
      <4> QED BY <4>1, <4>2, PutDoes, Typed
    <3>4. Place(t)'
      BY <1>0, <3>1, <3>3 DEF Place, Me
    <3> QED BY <2>1, <3>3, <3>4, ReadKeeps
  <2>3. CASE ~PickedUp(fs, Me(t))
    BY <1>5, <2>1, <2>3, ReturnKeeps, ReadKeeps DEF PickupRead
  <2> QED BY <2>2, <2>3
<1>6. CASE PickupReadMeta(t)
  <2> DEFINE rows == IF thr[t].x = 1 THEN {meta.done[Me(t)]} \ {0} ELSE {}
  <2>1. thr[t].pc = "g_readmeta" /\ Reads /\ thr[t].n \in Subs
    BY <1>6, Typed DEF PickupReadMeta, Place
  <2>2. rows \subseteq Subs
    BY <1>0, Typed, Values
  <2>3. thr' = [thr EXCEPT ![t].pc = "g_write", ![t].rows = rows]
    BY <1>6 DEF PickupReadMeta
  <2> HIDE DEF rows
  <2>4. /\ thr' \in [Threads -> ThrRecord] /\ Others(t) /\ thr'[t].pc = "g_write"
        /\ thr'[t].d = thr[t].d /\ thr'[t].n = thr[t].n /\ thr'[t].rows = rows
    <3> DEFINE r == [thr[t] EXCEPT !.pc = "g_write", !.rows = rows]
    <3>1. thr' = [thr EXCEPT ![t] = r]
      BY <2>3, Typed
    <3>a. thr[t] \in ThrRecord /\ "g_write" \in PCs
      BY Typed DEF PCs
    <3>2. /\ r \in ThrRecord /\ r.pc = "g_write" /\ r.d = thr[t].d /\ r.n = thr[t].n
          /\ r.rows = rows
      BY <2>2, <3>a DEF ThrRecord
    <3> HIDE DEF r
    <3> QED BY <3>1, <3>2, PutDoes, Typed
  <2>5. Place(t)'
    BY <1>0, <2>1, <2>2, <2>4 DEF Place, Me
  <2> QED BY <2>1, <2>4, <2>5, ReadKeeps
<1>7. CASE PickupDelivered(t)
  <2>1. /\ thr[t].pc = "g_write" /\ UNCHANGED <<fs, meta, lock>> /\ Return(t)
        /\ thr[t].n \in Subs /\ thr[t].rows \subseteq Subs
    BY <1>7, Typed DEF PickupDelivered, Place
  <2>2. poller' \in Pollers
    BY <1>0, <1>7, <2>1, Typed DEF PickupDelivered, Pollers, Runs
  <2>3. hist' \in HistRecord /\ hist'.subs = hist.subs
    <3> DEFINE r == [d |-> Me(t), n |-> thr[t].n, meta |-> thr[t].rows]
    <3>1. r \in Delivery
      BY <1>0, <2>1 DEF Delivery
    <3>2. hist' = [hist EXCEPT !.delivered = @ \cup {r}]
      BY <1>7 DEF PickupDelivered
    <3> HIDE DEF r
    <3> QED BY <3>1, <3>2, Typed DEF HistRecord
  <2>4. thr' \in [Threads -> ThrRecord] /\ Others(t) /\ Place(t)'
    BY <2>1, ReturnKeeps
  <2> QED BY <2>1, <2>2, <2>3, <2>4, StepKeeps, Typed
<1>8. CASE PickupCut(t)
  <2>1. thr[t].pc = "g_write" /\ Reads
    BY <1>8 DEF PickupCut
  <2>2. Goto(t, "g_unmeta") \/ Goto(t, "g_unplan")
    BY <1>8 DEF PickupCut
  <2> QED BY <1>1, <2>1, <2>2, Typed DEF Reads, Files
<1>9. CASE RollbackMeta(t)
  <2>1. thr[t].pc = "g_unmeta" /\ Goto(t, "g_unplan") /\ fs' = fs /\ Files
    BY <1>9 DEF RollbackMeta
  <2>2. meta' \in Metas
    <3> DEFINE m == [meta EXCEPT !.inputs[Me(t)] = meta.done[Me(t)], !.done[Me(t)] = 0]
    <3>1. m \in Metas
      BY <1>0, Typed, Values DEF Metas
    <3>2. meta' = meta \/ meta' = m
      BY <1>9 DEF RollbackMeta
    <3> QED BY <3>1, <3>2, Typed
  <2> QED BY <1>1, <2>1, <2>2, Typed
<1>10. CASE RollbackPlan(t)
  <2>1. fs' = Rollback(fs, Me(t)) /\ meta' = meta /\ Files /\ Return(t)
    BY <1>10 DEF RollbackPlan
  <2> QED BY <1>0, <1>2, <2>1, PlanMoves, Typed
<1> QED BY <1>3, <1>4, <1>5, <1>6, <1>7, <1>8, <1>9, <1>10 DEF Pickup

\* _cancel_job and _resolve_stale_cancel.
LEMMA CancelKeeps ==
  ASSUME Inv, NEW t \in Threads, Cancel(t)
  PROVE  Inv'
<1> USE DEF SubmitPCs, PickupPCs, CancelPCs, DeletePCs, ArtefactPCs, PrunePCs, OnDigest, Numbered,
            At, Follows
<1>0. Me(t) \in Digests
  BY Typed DEF Cancel, CancelPlan, CancelMeta, CancelMark, CancelLook, ResolveLook, DropPlan,
     DropMeta, DropMarker, Place
<1>1. ASSUME NEW pc \in CancelPCs, Goto(t, pc), thr[t].pc \in CancelPCs,
             fs' \in Directory, meta' \in Metas, Files
      PROVE  Inv'
  <2>1. pc \in PCs /\ lock' = lock /\ hist'.subs = hist.subs
    BY <1>1 DEF PCs, Files
  <2>2. thr'[t].pc = pc
    BY <1>1, <2>1, GotoDoes, Typed
  <2>3. Follows(t)
    BY <1>1, <2>2
  <2>4. thr' \in [Threads -> ThrRecord] /\ Others(t) /\ Place(t)'
    BY <1>1, <2>1, <2>3, GotoKeeps
  <2> QED BY <1>1, <2>4, QuietStepKeeps
<1>2. ASSUME Return(t), fs' \in Directory, meta' \in Metas, Files
      PROVE  Inv'
  BY <1>2, ReturnKeeps, QuietStepKeeps
<1>3. \A dir \in {"inputs", "done"} :
        /\ Unlink(dir, Me(t)) => fs' \in Directory
        /\ UnlinkMeta(dir, Me(t)) => meta' \in Metas
  <2>1. /\ [fs EXCEPT !["inputs"][Me(t)] = NoFile] \in Directory
        /\ [fs EXCEPT !["done"][Me(t)] = NoFile] \in Directory
    BY <1>0, FileSet, Typed, Values
  <2>3. /\ Unlink("inputs", Me(t)) => fs' \in Directory
        /\ Unlink("done", Me(t)) => fs' \in Directory
    BY <2>1 DEF Unlink
  <2>2. /\ UnlinkMeta("inputs", Me(t)) => meta' \in Metas
        /\ UnlinkMeta("done", Me(t)) => meta' \in Metas
    BY <1>0, Typed, Values DEF UnlinkMeta, Metas
  <2> QED BY <2>2, <2>3
<1>4. CASE CancelPlan(t)
  <2>1. /\ thr[t].pc = "c_plan" /\ Unlink("inputs", Me(t)) /\ UNCHANGED <<meta, lock, poller>>
        /\ thr' = [thr EXCEPT ![t].pc = "c_meta", ![t].n = fs.inputs[Me(t)].n]
    BY <1>4 DEF CancelPlan
  <2>2. hist' \in HistRecord /\ hist'.subs = hist.subs
    <3> DEFINE gone == {<<e, fs.inputs[e].n>> : e \in {e \in {Me(t)} : Queued(fs, e)}}
    <3>1. gone \subseteq Runs
      BY <1>0, Typed, Values DEF Queued, Runs
    <3>2. hist' = [hist EXCEPT !.unqueued = @ \cup gone]
      BY <1>4 DEF CancelPlan
    <3> HIDE DEF gone
    <3> QED BY <3>1, <3>2, Typed DEF HistRecord
  <2>3. /\ thr' \in [Threads -> ThrRecord] /\ Others(t) /\ thr'[t].pc = "c_meta"
        /\ thr'[t].d = thr[t].d
    <3>1. fs.inputs[Me(t)].n \in Sub0
      BY <1>0, Typed
    <3> DEFINE r == [thr[t] EXCEPT !.pc = "c_meta", !.n = fs.inputs[Me(t)].n]
    <3>2. thr' = [thr EXCEPT ![t] = r]
      BY <2>1, Typed
    <3>a. thr[t] \in ThrRecord /\ "c_meta" \in PCs
      BY Typed DEF PCs
    <3>3. r \in ThrRecord /\ r.pc = "c_meta" /\ r.d = thr[t].d
      BY <3>1, <3>a DEF ThrRecord
    <3> HIDE DEF r
    <3> QED BY <3>2, <3>3, PutDoes, Typed
  <2>4. Place(t)'
    BY <1>0, <2>3 DEF Place, Me
  <2> QED BY <1>3, <2>1, <2>2, <2>3, <2>4, StepKeeps, Typed
<1>5. CASE CancelMeta(t)
  <2>1. /\ thr[t].pc = "c_meta" /\ UnlinkMeta("inputs", Me(t)) /\ fs' = fs /\ Files
        /\ Return(t) \/ Goto(t, "c_done")
    BY <1>5 DEF CancelMeta
  <2> QED BY <1>1, <1>2, <1>3, <2>1, Typed
<1>6. CASE CancelMark(t)
  <2>1. fs' = [fs EXCEPT !.cancel[Me(t)] = "set"] /\ Return(t) /\ meta' = meta /\ Files
    BY <1>6 DEF CancelMark
  <2>2. fs' \in Directory
    BY <1>0, <2>1, MarkSet, Typed DEF Marker
  <2> QED BY <1>2, <2>1, <2>2, Typed
<1>7. CASE (CancelLook(t) \/ ResolveLook(t)) /\ Reads
  <2>1. Files /\ fs' = fs /\ meta' = meta
    BY <1>7 DEF Reads, Files
  <2>2. CASE Return(t)
    BY <1>2, <2>1, <2>2, Typed
  <2>3. CASE ~Return(t)
    <3>1. thr[t].pc \in CancelPCs /\ \E pc \in CancelPCs : Goto(t, pc)
      BY <1>7, <2>3 DEF CancelLook, ResolveLook
    <3> QED BY <1>1, <2>1, <3>1, Typed
  <2> QED BY <2>2, <2>3
<1>8. CASE DropPlan(t)
  BY <1>1, <1>3, <1>8, Typed DEF DropPlan
<1>9. CASE DropMeta(t)
  BY <1>1, <1>3, <1>9, Typed DEF DropMeta
<1>10. CASE DropMarker(t)
  <2>1. fs' = [fs EXCEPT !.cancel[Me(t)] = "none"] /\ Return(t) /\ meta' = meta /\ Files
    BY <1>10 DEF DropMarker
  <2>2. fs' \in Directory
    BY <1>0, <2>1, MarkSet, Typed DEF Marker
  <2> QED BY <1>2, <2>1, <2>2, Typed
<1> QED BY <1>4, <1>5, <1>6, <1>7, <1>8, <1>9, <1>10 DEF Cancel

\* delete_outputs.
LEMMA DeleteKeeps ==
  ASSUME Inv, NEW t \in Threads, Delete(t)
  PROVE  Inv'
<1> USE DEF SubmitPCs, PickupPCs, CancelPCs, DeletePCs, ArtefactPCs, PrunePCs, OnDigest, Numbered,
            At, Follows
<1>0. Me(t) \in Digests /\ thr[t].pc \in DeletePCs
  BY Typed DEF Delete, DeleteArtefact, DeletePlan, DeleteMeta, Place
<1>1. ASSUME NEW pc \in DeletePCs, Goto(t, pc), fs' \in Directory, meta' \in Metas, Files
      PROVE  Inv'
  <2>1. pc \in PCs /\ lock' = lock /\ hist'.subs = hist.subs
    BY <1>1 DEF PCs, Files
  <2>2. thr'[t].pc = pc
    BY <1>1, <2>1, GotoDoes, Typed
  <2>3. Follows(t)
    BY <1>0, <1>1, <2>2
  <2>4. thr' \in [Threads -> ThrRecord] /\ Others(t) /\ Place(t)'
    BY <1>1, <2>1, <2>3, GotoKeeps
  <2> QED BY <1>1, <2>4, QuietStepKeeps
<1>2. ASSUME Return(t), fs' \in Directory, meta' \in Metas, Files
      PROVE  Inv'
  BY <1>2, ReturnKeeps, QuietStepKeeps
<1>3. CASE DeleteArtefact(t)
  <2>1. /\ fs' = [fs EXCEPT !.outputs[Me(t)] = NoArt] /\ meta' = meta /\ Files
        /\ Goto(t, "d_plan") \/ Return(t)
    BY <1>3 DEF DeleteArtefact
  <2>2. fs' \in Directory
    BY <1>0, <2>1, OutputSet, Typed
  <2> QED BY <1>1, <1>2, <2>1, <2>2, Typed
<1>4. CASE DeletePlan(t)
  <2>1. [fs EXCEPT !["done"][Me(t)] = NoFile] \in Directory
    BY <1>0, FileSet, Typed, Values
  <2> QED BY <1>1, <1>4, <2>1, Typed DEF DeletePlan, Unlink
<1>5. CASE DeleteMeta(t)
  <2>1. [meta EXCEPT !["done"][Me(t)] = 0] \in Metas
    BY <1>0, Typed, Values DEF Metas
  <2> QED BY <1>2, <1>5, <2>1, Typed DEF DeleteMeta, UnlinkMeta
<1> QED BY <1>3, <1>4, <1>5 DEF Delete

\* prune_stale_jobs.
LEMMA PruneKeeps ==
  ASSUME Inv, NEW t \in Threads, PruneJobs(t)
  PROVE  Inv'
<1> USE DEF SubmitPCs, PickupPCs, CancelPCs, DeletePCs, ArtefactPCs, PrunePCs, OnDigest, Numbered,
            At, Follows
<1>0. thr[t].pc \in PrunePCs /\ thr[t].rows \subseteq Digests
  BY Typed DEF PruneJobs, PruneLook, PruneStat, PrunePlan, PruneMeta, Place
<1>1. CASE PruneLook(t) /\ Reads
  <2>1. PICK pc \in {"p_protect", "p_list", "p_stat"}, rows \in SUBSET Digests :
             thr' = [thr EXCEPT ![t].pc = pc, ![t].rows = rows]
    <3>1. InflightDigests(fs) \subseteq Digests
      BY Typed DEF Directory, InflightDigests
    <3>2. thr \in [Threads -> ThrRecord]
      BY Typed
    <3>3. CASE At(t, "p_outputs")
      BY <1>1, <3>3 DEF PruneLook
    <3>4. CASE At(t, "p_protect")
      <4> DEFINE rows == thr[t].rows \cup InflightDigests(fs)
      <4>1. thr' = [thr EXCEPT ![t].pc = "p_list", ![t].rows = rows]
        BY <1>1, <3>2, <3>4 DEF PruneLook, ThrRecord
      <4>2. rows \in SUBSET Digests
        BY <1>0, <3>1
      <4> HIDE DEF rows
      <4> QED BY <4>1, <4>2
    <3>5. CASE At(t, "p_list")
      <4> DEFINE rows == {d \in Digests : PickedUp(fs, d)} \ thr[t].rows
      <4>1. thr' = [thr EXCEPT ![t].pc = "p_stat", ![t].rows = rows]
        BY <1>1, <3>2, <3>5 DEF PruneLook, ThrRecord
      <4>2. rows \in SUBSET Digests
        OBVIOUS
      <4> HIDE DEF rows
      <4> QED BY <4>1, <4>2
    <3> QED BY <1>1, <3>3, <3>4, <3>5 DEF PruneLook
  <2>2. /\ thr' \in [Threads -> ThrRecord] /\ Others(t) /\ thr'[t].pc = pc /\ thr'[t].rows = rows
    <3> DEFINE r == [thr[t] EXCEPT !.pc = pc, !.rows = rows]
    <3>1. thr' = [thr EXCEPT ![t] = r]
      BY <2>1, Typed
    <3>a. thr[t] \in ThrRecord /\ pc \in PCs
      BY Typed DEF PCs
    <3>2. r \in ThrRecord /\ r.pc = pc /\ r.rows = rows
      BY <3>a DEF ThrRecord
    <3> HIDE DEF r
    <3> QED BY <3>1, <3>2, PutDoes, Typed
  <2>3. Place(t)'
    BY <2>2 DEF Place, Me
  <2> QED BY <1>1, <2>2, <2>3, ReadKeeps
<1>2. CASE PruneStat(t)
  <2>1. At(t, "p_stat") /\ Reads
    BY <1>2 DEF PruneStat
  <2>2. CASE Return(t)
    BY <2>1, <2>2, ReturnKeeps, ReadKeeps
  <2>3. CASE ~Return(t)
    <3>1. PICK d \in thr[t].rows, pc \in {"p_plan", "p_stat"} :
            thr' = [thr EXCEPT ![t].d = d, ![t].rows = @ \ {d}, ![t].pc = pc]
      BY <1>2, <2>3 DEF PruneStat
    <3> DEFINE r == [thr[t] EXCEPT !.d = d, !.rows = thr[t].rows \ {d}, !.pc = pc]
    <3>2. thr' = [thr EXCEPT ![t] = r]
      BY <3>1, Typed DEF ThrRecord
    <3>a. thr[t] \in ThrRecord /\ pc \in PCs
      BY Typed DEF PCs
    <3>3. r \in ThrRecord /\ r.pc = pc /\ r.d = d /\ r.rows = thr[t].rows \ {d}
      BY <1>0, <3>a DEF ThrRecord
    <3> HIDE DEF r
    <3>4. /\ thr' \in [Threads -> ThrRecord] /\ Others(t) /\ thr'[t].pc = pc /\ thr'[t].d = d
          /\ thr'[t].rows = thr[t].rows \ {d}
      BY <3>2, <3>3, PutDoes, Typed
    <3>5. Place(t)'
      BY <1>0, <3>4 DEF Place, Me
    <3> QED BY <2>1, <3>4, <3>5, ReadKeeps
  <2> QED BY <2>2, <2>3
<1>3. ASSUME NEW pc \in {"p_meta", "p_stat"}, Goto(t, pc), thr[t].pc \in OnDigest,
             fs' \in Directory, meta' \in Metas, Files
      PROVE  Inv'
  <2>1. pc \in PCs /\ lock' = lock /\ hist'.subs = hist.subs
    BY <1>3 DEF PCs, Files
  <2>2. thr'[t].pc = pc
    BY <1>3, <2>1, GotoDoes, Typed
  <2>3. Follows(t)
    BY <1>0, <1>3, <2>2
  <2>4. thr' \in [Threads -> ThrRecord] /\ Others(t) /\ Place(t)'
    BY <1>3, <2>1, <2>3, GotoKeeps
  <2> QED BY <1>3, <2>4, QuietStepKeeps
<1>4. CASE PrunePlan(t)
  <2>1. At(t, "p_plan") /\ Me(t) \in Digests
    BY <1>4, Typed DEF PrunePlan, Place
  <2>2. [fs EXCEPT !["done"][Me(t)] = NoFile] \in Directory
    BY <2>1, FileSet, Typed, Values
  <2> QED BY <1>3, <1>4, <2>1, <2>2, Typed DEF PrunePlan, Unlink
<1>5. CASE PruneMeta(t)
  <2>1. At(t, "p_meta") /\ Me(t) \in Digests
    BY <1>5, Typed DEF PruneMeta, Place
  <2>2. [meta EXCEPT !["done"][Me(t)] = 0] \in Metas
    BY <2>1, Typed, Values DEF Metas
  <2> QED BY <1>3, <1>5, <2>1, <2>2, Typed DEF PruneMeta, UnlinkMeta
<1> QED BY <1>1, <1>2, <1>4, <1>5 DEF PruneJobs

\* _artefact.
LEMMA PostTarKeeps ==
  ASSUME Inv, NEW t \in Threads, PostTar(t)
  PROVE  Inv'
<1> USE DEF SubmitPCs, PickupPCs, CancelPCs, DeletePCs, ArtefactPCs, PrunePCs, OnDigest, Numbered,
            At, Follows
<1>0. thr[t].pc \in ArtefactPCs /\ Me(t) \in Digests /\ thr[t].n \in Subs
  BY Typed DEF PostTar, ArtefactGate, ArtefactWrite, ArtefactUncancel, Place
<1>1. ASSUME NEW pc \in ArtefactPCs, Goto(t, pc), lock' = lock, hist' = hist
      PROVE  thr' \in [Threads -> ThrRecord] /\ Others(t) /\ Place(t)'
  <2>1. pc \in PCs /\ lock' = lock /\ hist'.subs = hist.subs
    BY <1>1 DEF PCs
  <2>2. thr'[t].pc = pc
    BY <1>1, <2>1, GotoDoes, Typed
  <2>3. Follows(t)
    BY <1>0, <2>2
  <2> QED BY <1>1, <2>1, <2>3, GotoKeeps
<1>2. CASE ArtefactGate(t) /\ Reads
  <2>1. CASE Return(t)
    BY <1>2, <2>1, ReturnKeeps, ReadKeeps
  <2>2. CASE ~Return(t)
    <3>1. PICK pc \in ArtefactPCs : Goto(t, pc)
      BY <1>2, <2>2 DEF ArtefactGate
    <3>2. thr' \in [Threads -> ThrRecord] /\ Others(t) /\ Place(t)'
      BY <1>1, <1>2, <3>1 DEF Reads
    <3> QED BY <1>2, <3>2, ReadKeeps
  <2> QED BY <2>1, <2>2
<1>3. CASE ArtefactWrite(t)
  <2> DEFINE a == [d |-> Me(t), n |-> thr[t].n, st |-> "ran"]
  <2>1. /\ fs' = [fs EXCEPT !.outputs[Me(t)] = a]
        /\ poller' = [poller EXCEPT !.ended = @ \ {<<Me(t), thr[t].n>>}]
        /\ Goto(t, "a_uncancel") /\ UNCHANGED <<meta, lock, hist>>
    BY <1>3 DEF ArtefactWrite
  <2>2. a \in Artefact \cup {NoArt}
    BY <1>0 DEF Artefact
  <2> HIDE DEF a
  <2>3. fs' \in Directory
    BY <1>0, <2>1, <2>2, OutputSet, Typed
  <2>4. poller' \in Pollers
    BY <2>1, Typed DEF Pollers
  <2>5. thr' \in [Threads -> ThrRecord] /\ Others(t) /\ Place(t)'
    BY <1>1, <2>1
  <2> QED BY <2>1, <2>3, <2>4, <2>5, StepKeeps, Typed
<1>4. CASE ArtefactUncancel(t)
  <2>1. fs' = [fs EXCEPT !.cancel[Me(t)] = "none"] /\ Return(t) /\ meta' = meta /\ Files
    BY <1>4 DEF ArtefactUncancel
  <2>2. fs' \in Directory
    BY <1>0, <2>1, MarkSet, Typed DEF Marker
  <2> QED BY <2>1, <2>2, ReturnKeeps, QuietStepKeeps, Typed
<1> QED BY <1>2, <1>3, <1>4 DEF PostTar

\* What a look of GET /jobs leaves in the locals of its thread.
LEMMA ListDoes ==
  ASSUME Inv, NEW t \in Threads, NEW pc \in ListPCs, NEW next \in ListPCs,
         NEW digests \in SUBSET Digests,
         ListFiles(t, pc, next, digests)
  PROVE  /\ thr' \in [Threads -> ThrRecord] /\ Others(t) /\ thr[t].pc = pc /\ hist' = hist
         /\ thr'[t].pc = next /\ thr'[t].rows = thr[t].rows \cup digests
         /\ thr'[t].seen = thr[t].seen \cap OnRecord /\ thr'[t].n = thr[t].n
         /\ thr'[t].d = thr[t].d
<1> DEFINE rows == thr[t].rows \cup digests
           seen == thr[t].seen \cap OnRecord
           r    == [thr[t] EXCEPT !.pc = next, !.rows = rows, !.seen = seen]
<1>1. thr' = [thr EXCEPT ![t].pc = next, ![t].rows = @ \cup digests, ![t].seen = @ \cap OnRecord]
  BY DEF ListFiles
<1>2. thr' = [thr EXCEPT ![t] = r]
  BY <1>1, Typed DEF ThrRecord
<1>3. rows \in SUBSET (Digests \cup Subs) /\ seen \in SUBSET Runs /\ next \in PCs
  BY Typed DEF PCs
<1> HIDE DEF rows, seen
<1>4. /\ r \in ThrRecord /\ r.pc = next /\ r.rows = rows /\ r.seen = seen /\ r.n = thr[t].n
      /\ r.d = thr[t].d
  BY <1>3, Typed DEF ThrRecord
<1> HIDE DEF r
<1>5. thr' \in [Threads -> ThrRecord] /\ Others(t) /\ thr'[t] = r
  BY <1>2, <1>4, PutDoes, Typed
<1> QED BY <1>4, <1>5 DEF ListFiles, At, rows, seen

\* _list_jobs.
LEMMA ListKeeps ==
  ASSUME Inv, NEW t \in Threads, ListStep(t)
  PROVE  Inv'
<1>0. UNCHANGED <<fs, meta, lock, poller>>
  BY DEF ListStep
<1>1. ASSUME NEW pc \in ListPCs, NEW next \in {"j_done", "j_outputs"},
             NEW digests \in SUBSET Digests,
             ListFiles(t, pc, next, digests)
      PROVE  Inv'
  <2>1. next \in ListPCs
    BY DEF ListPCs
  <2>2. /\ thr' \in [Threads -> ThrRecord] /\ Others(t) /\ hist' = hist /\ thr'[t].pc = next
    BY ONLY <1>1, <2>1, ListDoes, Inv, t \in Threads
  <2>3. Place(t)'
    BY <2>2 DEF Place, SubmitPCs, PickupPCs, CancelPCs, DeletePCs, ArtefactPCs, PrunePCs,
                OnDigest, Numbered
  <2> QED BY <1>0, <2>2, <2>3, StepKeeps, Typed
<1>2. CASE ListPlans(t)
  BY <1>1, <1>2 DEF ListPlans, ListPCs
<1>3. CASE ListOutputs(t)
  <2>1. Return(t)
    BY <1>3 DEF ListOutputs
  <2>2. hist' \in HistRecord /\ hist'.subs = hist.subs
    BY <1>3, Typed DEF ListOutputs, HistRecord
  <2> QED BY <1>0, <2>1, <2>2, ReturnKeeps, StepKeeps, Typed
<1> QED BY <1>2, <1>3 DEF ListStep

\* The poller and time.
LEMMA WorldKeeps ==
  ASSUME Inv, UNCHANGED thr, UNCHANGED <<meta, lock, hist>>,
         fs' \in Directory, poller' \in Pollers
  PROVE  Inv'
<1>1. TypeOK'
  BY DEF Inv, TypeOK, Pollers
<1>2. \A t \in Threads : Place(t)'
  BY Typed DEF Place, Me
<1> QED BY <1>1, <1>2 DEF Inv

\* What the poller and the clock do.
LEMMA OutsideKeeps ==
  ASSUME Inv, \/ \E r \in Runs : SessionEnds(r)
              \/ PushInflight
              \/ \E d \in Digests : Age(d)
  PROVE  Inv'
<1>1. ASSUME NEW r \in Runs, SessionEnds(r) PROVE Inv'
  <2>1. poller' \in Pollers
    BY <1>1, Typed DEF SessionEnds, Pollers
  <2> QED BY <1>1, <2>1, WorldKeeps, Typed DEF SessionEnds
<1>2. CASE PushInflight
  <2> DEFINE s == {d \in Digests : \E r \in poller.live : r[1] = d}
  <2>1. fs' = ReceiveInflight(fs, s) /\ s \in SUBSET Digests
    BY <1>2 DEF PushInflight
  <2> HIDE DEF s
  <2>2. fs' \in Directory
    BY <2>1, SnapshotSet, Typed
  <2> QED BY <1>2, <2>2, WorldKeeps, Typed DEF PushInflight
<1>3. ASSUME NEW d \in Digests, Age(d) PROVE Inv'
  <2>1. \/ fs' = [fs EXCEPT !.inputs[d].old = TRUE]
        \/ fs' = [fs EXCEPT !.done[d].old = TRUE]
    BY <1>3 DEF Age
  <2> DEFINE p == [fs.inputs[d] EXCEPT !.old = TRUE]
             q == [fs.done[d] EXCEPT !.old = TRUE]
  <2>2. p \in PlanFile /\ q \in PlanFile
    BY Typed DEF PlanFile
  <2>3. fs' = [fs EXCEPT !.inputs[d] = p] \/ fs' = [fs EXCEPT !.done[d] = q]
    BY <2>1, Typed DEF Directory, PlanFile
  <2> HIDE DEF p, q
  <2>4. [fs EXCEPT !.inputs[d] = p] \in Directory /\ [fs EXCEPT !.done[d] = q] \in Directory
    BY <2>2, FileSet, Typed
  <2>5. fs' \in Directory
    BY <2>3, <2>4
  <2> QED BY <1>3, <2>5, WorldKeeps, Typed DEF Age
<1> QED BY <1>1, <1>2, <1>3

\* The empty directory and idle threads are in order,
LEMMA InvInit == Init => Inv
<1> SUFFICES ASSUME Init PROVE Inv
  OBVIOUS
<1>1. fs \in Directory
  BY StoreAssumption, Values DEF Init, EmptyDirectory, Directory, Marker
<1>2. meta \in Metas /\ lock = None /\ poller \in Pollers
  BY Values DEF Init, Metas, Pollers
<1>3. thr \in [Threads -> ThrRecord] /\ \A t \in Threads : thr[t].pc = "idle"
  BY PCsDistinct DEF Init
<1>4. hist \in HistRecord
  BY Values DEF Init, HistRecord
<1>5. TypeOK
  BY <1>1, <1>2, <1>3, <1>4 DEF TypeOK, Metas, Pollers, ThrRecord, HistRecord
<1>6. \A t \in Threads : Place(t)
  BY <1>3 DEF Place, SubmitPCs, PickupPCs, CancelPCs, DeletePCs, ArtefactPCs, PrunePCs,
              OnDigest, Numbered
<1> QED BY <1>5, <1>6 DEF Inv

\* and stay so.
LEMMA InvNext == Inv /\ [Next]_vars => Inv'
<1> SUFFICES ASSUME Inv, [Next]_vars PROVE Inv'
  OBVIOUS
<1>1. ASSUME NEW t \in Threads,
             Request(t) \/ Submit(t) \/ Pickup(t) \/ Cancel(t) \/ Delete(t)
             \/ PruneJobs(t) \/ PostTar(t) \/ ListStep(t)
      PROVE  Inv'
  BY <1>1, RequestKeeps, SubmitKeeps, PickupKeeps, CancelKeeps, DeleteKeeps, PruneKeeps,
     PostTarKeeps, ListKeeps
<1>2. CASE UNCHANGED vars
  BY <1>2, WorldKeeps, Typed DEF vars
<1> QED BY <1>1, <1>2, OutsideKeeps DEF Next

-----------------------------------------------------------------------------
(* What the steps do to plans, headers and answers *)

WithdrawPCs == CancelPCs \cup DeletePCs \cup PrunePCs
Handover    == PickupPCs \ {"g_claim"}
Aloof       == {"idle", "g_claim", "s_uncancel"} \cup ArtefactPCs \cup ListPCs

SamePlans   == \A d \in Digests : /\ fs'.inputs[d].n = fs.inputs[d].n
                                  /\ fs'.done[d].n = fs.done[d].n
SameAnswers == /\ hist'.ops = hist.ops /\ hist'.subs = hist.subs
               /\ hist'.unqueued = hist.unqueued /\ hist'.delivered = hist.delivered

\* GET /jobs is at work, or there is no news of it.
Listing(t) == ListStart(t) \/ ListStep(t)
Unlisted   == /\ hist'.missed = hist.missed
              /\ \A u \in Threads : thr'[u].pc \in ListPCs => thr'[u] = thr[u]

\* Steps that have nothing to do with it.
Aside ==
    /\ SamePlans /\ SameAnswers /\ meta' = meta
    /\ Unlisted \/ \E u \in Threads : Listing(u)
    /\ \A u \in Threads : thr'[u] = thr[u] \/ thr'[u].pc \in Aloof

\* A step of a handler that takes plans back, the first one or a later one.
Withdraws(t) ==
    /\ Others(t)
    /\ ServerOps \cap Withdrawals # {} \/ thr[t].pc \in WithdrawPCs
    /\ thr'[t].pc \in WithdrawPCs \cup {"idle"}
    /\ thr'[t].pc = "c_plan" => "cancel" \in ServerOps
    /\ hist'.ops = hist.ops /\ hist'.subs = hist.subs /\ hist'.delivered = hist.delivered
    /\ hist'.missed = hist.missed
    /\ \A d \in Digests : fs'.done[d].n \in {fs.done[d].n, 0}
    /\ \/ /\ hist'.unqueued = hist.unqueued
          /\ \A d \in Digests : fs'.inputs[d].n = fs.inputs[d].n
       \/ /\ thr[t].pc = "c_plan"
          /\ hist'.unqueued \subseteq hist.unqueued \cup {<<Me(t), fs.inputs[Me(t)].n>>}
          /\ \A d \in Digests \ {Me(t)} : fs'.inputs[d].n = fs.inputs[d].n
          /\ fs'.inputs[Me(t)].n = 0

\* An artefact that arrives moves no plan,
LEMMA TarIsAside ==
  ASSUME Inv, NEW t \in Threads, PostTar(t)
  PROVE  Aside
<1> USE DEF At
<1>0. thr[t].pc \in ArtefactPCs /\ Me(t) \in Digests
  BY Typed DEF PostTar, ArtefactGate, ArtefactWrite, ArtefactUncancel, ArtefactPCs, Place, OnDigest
<1>1. Others(t) /\ thr'[t].pc \in {"idle"} \cup ArtefactPCs
  <2>1. CASE Return(t)
    BY <2>1, ReturnDoes, Typed, PCsDistinct
  <2>2. CASE ~Return(t)
    <3>1. PICK pc \in ArtefactPCs : Goto(t, pc)
      BY <2>2 DEF PostTar, ArtefactGate, ArtefactWrite, ArtefactUncancel, ArtefactPCs
    <3> QED BY <3>1, Typed, GotoDoes DEF PCs
  <2> QED BY <2>1, <2>2
<1>2. meta' = meta /\ SameAnswers /\ hist'.missed = hist.missed
  BY DEF PostTar, Reads, Files, ArtefactWrite, ArtefactUncancel, SameAnswers
<1>3. fs'.inputs = fs.inputs /\ fs'.done = fs.done
  <2>1. CASE fs' = fs
    BY <2>1
  <2> DEFINE a == [d |-> Me(t), n |-> thr[t].n, st |-> "ran"]
  <2>2. CASE fs' = [fs EXCEPT !.outputs[Me(t)] = a]
    BY <2>2, Typed DEF Directory
  <2>3. CASE fs' = [fs EXCEPT !.cancel[Me(t)] = "none"]
    BY <2>3, Typed DEF Directory
  <2> QED BY <2>1, <2>2, <2>3 DEF PostTar, Reads, ArtefactWrite, ArtefactUncancel
<1> QED BY <1>1, <1>2, <1>3 DEF Aside, SamePlans, Unlisted, Others, Aloof, ArtefactPCs, ListPCs

\* nor does the poller,
LEMMA OutsideIsAside ==
  ASSUME Inv, \/ \E r \in Runs : SessionEnds(r)
              \/ PushInflight
              \/ \E d \in Digests : Age(d)
              \/ UNCHANGED vars
  PROVE  Aside
<1>1. thr' = thr /\ meta' = meta /\ hist' = hist
  BY DEF SessionEnds, PushInflight, Age, vars
<1>2. SamePlans
  <2>1. CASE fs' = fs
    BY <2>1 DEF SamePlans
  <2>2. CASE PushInflight
    BY <2>2, Typed DEF PushInflight, ReceiveInflight, Directory, SamePlans
  <2>3. ASSUME NEW d \in Digests, Age(d) PROVE SamePlans
    <3>1. CASE fs' = [fs EXCEPT !.inputs[d].old = TRUE]
      <4>1. /\ fs'.done = fs.done
            /\ fs'.inputs = [fs.inputs EXCEPT ![d] = [fs.inputs[d] EXCEPT !.old = TRUE]]
        BY <3>1, Typed DEF Directory
      <4> QED BY <4>1, Typed DEF SamePlans, Directory, PlanFile
    <3>2. CASE fs' = [fs EXCEPT !.done[d].old = TRUE]
      <4>1. /\ fs'.inputs = fs.inputs
            /\ fs'.done = [fs.done EXCEPT ![d] = [fs.done[d] EXCEPT !.old = TRUE]]
        BY <3>2, Typed DEF Directory
      <4> QED BY <4>1, Typed DEF SamePlans, Directory, PlanFile
    <3> QED BY <2>3, <3>1, <3>2 DEF Age
  <2> QED BY <2>1, <2>2, <2>3 DEF SessionEnds, vars
<1> QED BY <1>1, <1>2 DEF Aside, SameAnswers, Unlisted

\* nor GET /jobs.
LEMMA ListIsAside ==
  ASSUME Inv, NEW t \in Threads, ListStep(t)
  PROVE  Aside
<1>1. fs' = fs /\ meta' = meta /\ Listing(t)
  BY DEF ListStep, Listing
<1>2. CASE ListOutputs(t)
  <2>1. thr'[t] = Idle /\ Others(t)
    BY <1>2, ReturnDoes, Typed DEF ListOutputs
  <2>2. SameAnswers
    BY <1>2, Typed DEF ListOutputs, HistRecord, SameAnswers
  <2> QED BY <1>1, <2>1, <2>2, PCsDistinct DEF Aside, SamePlans, Aloof, Others
<1>3. ASSUME NEW pc \in ListPCs, NEW next \in {"j_done", "j_outputs"},
             NEW digests \in SUBSET Digests,
             ListFiles(t, pc, next, digests)
      PROVE  Aside
  <2>1. next \in ListPCs
    BY DEF ListPCs
  <2>2. thr'[t].pc = next /\ Others(t) /\ hist' = hist
    BY <1>3, <2>1, ListDoes
  <2> QED BY <1>1, <2>1, <2>2 DEF Aside, SamePlans, SameAnswers, Aloof, Others
<1> QED BY <1>2, <1>3 DEF ListStep, ListPlans, ListPCs

\* Requests other than a submission.
LEMMA RequestDoes ==
  ASSUME Inv, NEW t \in Threads, Request(t), \A d \in Digests : ~SubmitStart(t, d)
  PROVE  Aside \/ Withdraws(t)
<1>1. ASSUME Reads, Others(t), thr'[t].pc \in {"g_claim", "a_done", "j_inputs"},
             thr'[t].pc = "j_inputs" => Listing(t)
      PROVE  Aside
  <2>1. SamePlans /\ SameAnswers /\ meta' = meta
    BY <1>1 DEF SamePlans, SameAnswers, Reads
  <2>2. Unlisted \/ Listing(t)
    BY <1>1 DEF Unlisted, Others, ListPCs, Reads
  <2> QED BY <1>1, <2>1, <2>2 DEF Aside, Others, Aloof, ArtefactPCs, ListPCs
<1>2. ASSUME NEW op, NEW pc \in {"g_claim", "c_plan", "r_cancel", "d_outputs", "p_outputs"},
             NEW d \in Digests \cup {None}, Start(t, op, pc, d)
      PROVE  Others(t) /\ thr'[t].pc = pc /\ op \in ServerOps
  <2>1. pc \in PCs
    BY DEF PCs, PickupPCs, CancelPCs, DeletePCs, PrunePCs
  <2> QED BY <1>2, <2>1, StartDoes, Typed
<1>3. ASSUME Reads, NEW op \in Withdrawals, op \in ServerOps, Others(t),
             thr'[t].pc \in {"c_plan", "r_cancel", "d_outputs", "p_outputs"},
             thr'[t].pc = "c_plan" => op = "cancel"
      PROVE  Withdraws(t)
  BY <1>3 DEF Withdraws, Reads, WithdrawPCs, CancelPCs, DeletePCs, PrunePCs
<1>4. ASSUME NEW d \in Digests, PickupStart(t, d) PROVE Aside
  BY <1>1, <1>2, <1>4 DEF PickupStart
<1>5. ASSUME NEW r \in poller.ended, ArtefactStart(t, r) PROVE Aside
  <2>1. thr' = [thr EXCEPT ![t] = [Idle EXCEPT !.pc = "a_done", !.d = r[1], !.n = r[2]]] /\ Reads
    BY <1>5 DEF ArtefactStart
  <2>2. Others(t) /\ thr'[t].pc = "a_done"
    BY <2>1, PCsDistinct, Typed DEF Others, ThrRecord
  <2> QED BY <1>1, <2>1, <2>2
<1>6. CASE ListStart(t)
  <2>1. /\ thr' = [thr EXCEPT ![t] = [Idle EXCEPT !.pc = "j_inputs", !.seen = OnRecord]]
        /\ Reads /\ Listing(t)
    BY <1>6 DEF ListStart, Listing
  <2>2. Others(t) /\ thr'[t].pc = "j_inputs"
    BY <2>1, PCsDistinct, Typed DEF Others, ThrRecord
  <2> QED BY <1>1, <2>1, <2>2
<1>7. ASSUME NEW d \in Digests, CancelStart(t, d) PROVE Withdraws(t)
  BY <1>2, <1>3, <1>7 DEF CancelStart, Withdrawals
<1>8. ASSUME NEW d \in Digests, ResolveStart(t, d) PROVE Withdraws(t)
  BY <1>2, <1>3, <1>8 DEF ResolveStart, Withdrawals
<1>9. ASSUME NEW d \in Digests, DeleteStart(t, d) PROVE Withdraws(t)
  BY <1>2, <1>3, <1>9 DEF DeleteStart, Withdrawals
<1>10. CASE PruneStart(t)
  BY <1>2, <1>3, <1>10 DEF PruneStart, Withdrawals
<1> QED BY <1>4, <1>5, <1>6, <1>7, <1>8, <1>9, <1>10 DEF Request

\* A handler that takes plans back goes on.
LEMMA WithdrawalsWithdraw ==
  ASSUME Inv, NEW t \in Threads, Cancel(t) \/ Delete(t) \/ PruneJobs(t)
  PROVE  Withdraws(t)
<1> USE DEF At
<1>0. thr[t].pc \in WithdrawPCs
  BY DEF Cancel, CancelPlan, CancelMeta, CancelMark, CancelLook, ResolveLook, DropPlan, DropMeta,
     DropMarker, Delete, DeleteArtefact, DeletePlan, DeleteMeta, PruneJobs, PruneLook, PruneStat,
     PrunePlan, PruneMeta, WithdrawPCs, CancelPCs, DeletePCs, PrunePCs
<1>1. /\ Others(t) /\ thr'[t].pc \in WithdrawPCs \cup {"idle"} /\ thr'[t].pc # "c_plan"
  <2>1. CASE Return(t)
    BY <2>1, ReturnDoes, Typed, PCsDistinct
  <2>2. ASSUME NEW pc \in WithdrawPCs \ {"c_plan"}, Goto(t, pc)
        PROVE  Others(t) /\ thr'[t].pc = pc
    BY <2>2, GotoDoes, Typed DEF PCs, WithdrawPCs
  <2>3. ASSUME NEW r, thr' = [thr EXCEPT ![t] = r] PROVE Others(t) /\ thr'[t] = r
    BY <2>3, Typed DEF Others
  <2>4. ASSUME NEW pc, NEW n, thr' = [thr EXCEPT ![t].pc = pc, ![t].n = n]
        PROVE  Others(t) /\ thr'[t].pc = pc
    BY <2>4, Typed DEF Others, ThrRecord
  <2>5. ASSUME NEW pc, NEW rows, thr' = [thr EXCEPT ![t].pc = pc, ![t].rows = rows]
        PROVE  Others(t) /\ thr'[t].pc = pc
    BY <2>5, Typed DEF Others, ThrRecord
  <2>6. ASSUME NEW pc, NEW rows, NEW d,
               thr' = [thr EXCEPT ![t].d = d, ![t].rows = rows, ![t].pc = pc]
        PROVE  Others(t) /\ thr'[t].pc = pc
    BY <2>6, Typed DEF Others, ThrRecord
  <2> USE DEF WithdrawPCs, CancelPCs, DeletePCs, PrunePCs
  <2>7. CASE Cancel(t)
    BY <2>1, <2>2, <2>4, <2>7 DEF Cancel, CancelPlan, CancelMeta, CancelMark, CancelLook,
       ResolveLook, DropPlan, DropMeta, DropMarker
  <2>8. CASE Delete(t)
    BY <2>1, <2>2, <2>8 DEF Delete, DeleteArtefact, DeletePlan, DeleteMeta
  <2>9. CASE PruneLook(t)
    BY <2>5, <2>9 DEF PruneLook
  <2>10. CASE PruneStat(t)
    <3>1. CASE ~Return(t)
      <4>1. PICK d \in thr[t].rows, pc \in {"p_plan", "p_stat"} :
                   thr' = [thr EXCEPT ![t].d = d, ![t].rows = @ \ {d}, ![t].pc = pc]
        BY <2>10, <3>1 DEF PruneStat
      <4>2. Others(t) /\ thr'[t].pc = pc
        BY <4>1, Typed DEF Others, ThrRecord
      <4> QED BY <4>2
    <3> QED BY <2>1, <3>1
  <2>11. CASE PrunePlan(t) \/ PruneMeta(t)
    BY <2>2, <2>11 DEF PrunePlan, PruneMeta
  <2> QED BY <2>7, <2>8, <2>9, <2>10, <2>11 DEF PruneJobs
<1>2. CASE CancelPlan(t)
  <2>1. /\ thr[t].pc = "c_plan" /\ Me(t) \in Digests
        /\ fs' = [fs EXCEPT !["inputs"][Me(t)] = NoFile]
        /\ hist' = [hist EXCEPT !.unqueued = @ \cup
                     {<<e, fs.inputs[e].n>> : e \in {e \in {Me(t)} : Queued(fs, e)}}]
    BY <1>2, Typed DEF CancelPlan, Unlink, Place, OnDigest, CancelPCs
  <2>2. fs'.done = fs.done /\ fs'.inputs = [fs.inputs EXCEPT ![Me(t)] = NoFile]
    BY <2>1, Typed DEF Directory
  <2>3. /\ fs'.inputs[Me(t)].n = 0
        /\ \A d \in Digests \ {Me(t)} : fs'.inputs[d].n = fs.inputs[d].n
        /\ \A d \in Digests : fs'.done[d].n = fs.done[d].n
    BY <2>1, <2>2, Typed, Values DEF Directory
  <2>4. /\ hist'.missed = hist.missed
        /\ hist'.ops = hist.ops /\ hist'.subs = hist.subs /\ hist'.delivered = hist.delivered
        /\ hist'.unqueued \subseteq hist.unqueued \cup {<<Me(t), fs.inputs[Me(t)].n>>}
    BY <2>1, Typed DEF HistRecord
  <2> QED BY <1>0, <1>1, <2>1, <2>3, <2>4 DEF Withdraws
<1>3. CASE ~CancelPlan(t)
  <2>1. hist' = hist
    BY <1>3 DEF Cancel, CancelMeta, CancelMark, DropPlan, DropMeta, DropMarker, Delete,
       DeleteArtefact, DeletePlan, DeleteMeta, PruneJobs, PruneStat, PrunePlan, PruneMeta, Files,
       Reads
  <2>2. \/ fs' = fs
        \/ Me(t) \in Digests /\ fs' = [fs EXCEPT !.cancel[Me(t)] = "set"]
        \/ Me(t) \in Digests /\ fs' = [fs EXCEPT !.cancel[Me(t)] = "none"]
        \/ Me(t) \in Digests /\ fs' = [fs EXCEPT !.outputs[Me(t)] = NoArt]
        \/ Me(t) \in Digests /\ fs' = [fs EXCEPT !["done"][Me(t)] = NoFile]
    BY <1>3, Typed DEF Cancel, CancelMeta, CancelMark, DropPlan, DropMeta, DropMarker, Delete,
       DeleteArtefact, DeletePlan, DeleteMeta, PruneJobs, PruneStat, PrunePlan, PruneMeta, Unlink,
       Reads, Place, OnDigest, CancelPCs, DeletePCs
  <2>3. /\ fs'.inputs = fs.inputs
        /\ fs'.done = fs.done \/ fs'.done = [fs.done EXCEPT ![Me(t)] = NoFile]
    <3>1. CASE Me(t) \in Digests /\ fs' = [fs EXCEPT !["done"][Me(t)] = NoFile]
      BY <3>1, Typed, FileSet, Values
    <3>2. CASE Me(t) \in Digests /\ fs' = [fs EXCEPT !.outputs[Me(t)] = NoArt]
      BY <3>2, Typed DEF Directory
    <3>3. CASE \E m \in Marker : Me(t) \in Digests /\ fs' = [fs EXCEPT !.cancel[Me(t)] = m]
      BY <3>3, Typed DEF Directory
    <3> QED BY <2>2, <3>1, <3>2, <3>3 DEF Marker
  <2>4. \A d \in Digests : fs'.done[d].n \in {fs.done[d].n, 0}
    BY <2>3, Typed, Values DEF Directory
  <2> QED BY <1>0, <1>1, <2>1, <2>3, <2>4 DEF Withdraws
<1> QED BY <1>2, <1>3

\* queue_job looks around, up to the header it writes.
Checks(t) ==
    /\ Others(t) /\ SamePlans /\ SameAnswers /\ hist'.missed = hist.missed /\ lock' = t
    /\ \/ /\ lock = None /\ thr'[t].pc = "s_outputs" /\ thr'[t].d \in Digests /\ meta' = meta
          /\ hist.subs[thr'[t].d] = 0 \/ "resubmit" \in ServerOps
       \/ /\ lock = t /\ thr'[t].d = Me(t) /\ Me(t) \in Digests /\ meta' = meta
          /\ \/ thr[t].pc = "s_outputs" /\ thr'[t].pc = "s_inputs"
             \/ thr[t].pc = "s_inputs" /\ thr'[t].pc = "s_done" /\ ~Queued(fs, Me(t))
             \/ thr[t].pc = "s_done" /\ thr'[t].pc = "s_inflight" /\ ~PickedUp(fs, Me(t))
             \/ thr[t].pc = "s_inflight" /\ thr'[t].pc = "s_meta"
       \/ /\ lock = t /\ thr'[t].d = Me(t) /\ Me(t) \in Digests
          /\ thr[t].pc = "s_meta" /\ thr'[t].pc = "s_plan"
          /\ \A d \in Digests \ {Me(t)} : meta'.inputs[d] = meta.inputs[d]
          /\ meta'.inputs[Me(t)] = IF hist.subs[Me(t)] + 1 \in MetaSubs
                                     THEN hist.subs[Me(t)] + 1 ELSE 0
          /\ meta'.done = meta.done

\* The plan is in INPUTS.
Queues(t) ==
    /\ Others(t) /\ thr[t].pc = "s_plan" /\ thr'[t].pc = "s_uncancel"
    /\ Me(t) \in Digests /\ lock = t /\ meta' = meta
    /\ hist'.ops = hist.ops /\ hist'.unqueued = hist.unqueued
    /\ hist'.delivered = hist.delivered /\ hist'.missed = hist.missed
    /\ hist.subs[Me(t)] + 1 \in Subs
    /\ hist'.subs[Me(t)] = hist.subs[Me(t)] + 1
    /\ fs'.inputs[Me(t)].n = hist.subs[Me(t)] + 1
    /\ \A d \in Digests \ {Me(t)} : /\ hist'.subs[d] = hist.subs[d]
                                    /\ fs'.inputs[d].n = fs.inputs[d].n
    /\ \A d \in Digests : fs'.done[d].n = fs.done[d].n

\* What queue_job does, step by step.
LEMMA SubmitDoes ==
  ASSUME Inv, NEW t \in Threads, Submit(t) \/ \E d \in Digests : SubmitStart(t, d)
  PROVE  Aside \/ Checks(t) \/ Queues(t)
<1> USE DEF At
<1>0. ASSUME Submit(t) PROVE thr[t].pc \in SubmitPCs /\ lock = t /\ Me(t) \in Digests
  BY <1>0, Typed DEF Submit, SubmitCheck, SubmitMeta, SubmitPlan, SubmitUncancel, SubmitPCs, Place,
     OnDigest
<1>1. ASSUME NEW d \in Digests, SubmitStart(t, d) PROVE Checks(t)
  <2>1. /\ lock = None /\ Start(t, "submit", "s_outputs", d) /\ lock' = t
        /\ UNCHANGED <<fs, meta, poller, hist>>
        /\ hist.subs[d] = 0 \/ "resubmit" \in ServerOps
    BY <1>1 DEF SubmitStart
  <2>2. "s_outputs" \in PCs /\ d \in Digests \cup {None} /\ thr \in [Threads -> ThrRecord]
    BY Typed DEF PCs, SubmitPCs
  <2>3. Others(t) /\ thr'[t].pc = "s_outputs" /\ thr'[t].d = d
    BY ONLY <2>1, <2>2, StartDoes, t \in Threads
  <2>4. SamePlans /\ SameAnswers /\ meta' = meta /\ hist'.missed = hist.missed
    BY <2>1 DEF SamePlans, SameAnswers
  <2>5. /\ thr'[t].d \in Digests
        /\ hist.subs[thr'[t].d] = 0 \/ "resubmit" \in ServerOps
    BY <2>1, <2>3
  <2> QED BY <2>1, <2>3, <2>4, <2>5 DEF Checks
<1>2. CASE Refuse(t)
  BY <1>2, ReturnDoes, PCsDistinct, Typed DEF Refuse, Aside, SamePlans, SameAnswers, Unlisted,
     Others, Aloof, ListPCs
<1>3. CASE SubmitCheck(t) /\ ~Refuse(t)
  <2>1. Submit(t) /\ Reads
    BY <1>3 DEF Submit, SubmitCheck
  <2>2. ASSUME NEW pc \in SubmitPCs, Goto(t, pc)
        PROVE  Others(t) /\ thr'[t].pc = pc /\ thr'[t].d = Me(t)
    BY <2>2, GotoDoes, Typed DEF PCs, Me
  <2>3. /\ Others(t) /\ thr'[t].d = Me(t)
        /\ \/ thr[t].pc = "s_outputs" /\ thr'[t].pc = "s_inputs"
           \/ thr[t].pc = "s_inputs" /\ thr'[t].pc = "s_done" /\ ~Queued(fs, Me(t))
           \/ thr[t].pc = "s_done" /\ thr'[t].pc = "s_inflight" /\ ~PickedUp(fs, Me(t))
           \/ thr[t].pc = "s_inflight" /\ thr'[t].pc = "s_meta"
    BY <1>3, <2>2 DEF SubmitCheck, SubmitPCs
  <2> QED BY <1>0, <2>1, <2>3 DEF Checks, SamePlans, SameAnswers, Reads
<1>4. CASE SubmitMeta(t)
  <2>1. Submit(t) /\ thr[t].pc = "s_meta" /\ Goto(t, "s_plan") /\ fs' = fs /\ Files
    BY <1>4 DEF Submit, SubmitMeta
  <2>2. Others(t) /\ thr'[t].pc = "s_plan" /\ thr'[t].d = Me(t)
    BY <2>1, GotoDoes, Typed DEF PCs, SubmitPCs, Me
  <2> DEFINE n == hist.subs[Me(t)] + 1
             m == IF n \in MetaSubs THEN n ELSE 0
  <2>3. meta' = [meta EXCEPT !.inputs[Me(t)] = m]
    BY <1>4 DEF SubmitMeta
  <2> HIDE DEF m
  <2>4. /\ meta'.done = meta.done /\ meta'.inputs[Me(t)] = m
        /\ \A d \in Digests \ {Me(t)} : meta'.inputs[d] = meta.inputs[d]
    BY <1>0, <2>1, <2>3, Typed DEF Metas
  <2> QED BY <1>0, <2>1, <2>2, <2>4 DEF Checks, SamePlans, SameAnswers, Files, m
<1>5. CASE SubmitPlan(t)
  <2> DEFINE n == hist.subs[Me(t)] + 1
             p == [n |-> n, old |-> FALSE]
  <2>1. /\ Submit(t) /\ thr[t].pc = "s_plan" /\ Goto(t, "s_uncancel")
        /\ UNCHANGED <<meta, lock, poller>> /\ fs' = [fs EXCEPT !.inputs[Me(t)] = p]
        /\ hist' = [hist EXCEPT !.subs[Me(t)] = n]
    BY <1>5 DEF Submit, SubmitPlan
  <2>2. Others(t) /\ thr'[t].pc = "s_uncancel"
    BY <2>1, GotoDoes, Typed DEF PCs, SubmitPCs
  <2>3. n \in Subs /\ p.n = n
    <3>1. hist.subs[Me(t)] \in Sub0 /\ hist.subs[Me(t)] < MaxSubs
      BY <1>0, <2>1, Typed DEF Place, SubmitPCs
    <3> QED BY <3>1, Values
  <2> HIDE DEF n, p
  <2>4. /\ hist'.ops = hist.ops /\ hist'.unqueued = hist.unqueued
        /\ hist'.delivered = hist.delivered /\ hist'.missed = hist.missed
        /\ hist'.subs = [hist.subs EXCEPT ![Me(t)] = n]
    BY <2>1, Typed DEF HistRecord
  <2>5. hist'.subs[Me(t)] = n /\ \A d \in Digests \ {Me(t)} : hist'.subs[d] = hist.subs[d]
    BY <1>0, <2>1, <2>4, Typed DEF HistRecord
  <2>6. fs'.done = fs.done /\ fs'.inputs = [fs.inputs EXCEPT ![Me(t)] = p]
    BY <2>1, Typed DEF Directory
  <2>7. /\ fs'.inputs[Me(t)].n = n
        /\ \A d \in Digests \ {Me(t)} : fs'.inputs[d].n = fs.inputs[d].n
        /\ \A d \in Digests : fs'.done[d].n = fs.done[d].n
    BY <1>0, <2>1, <2>3, <2>6, Typed DEF Directory
  <2> QED BY <1>0, <2>1, <2>2, <2>3, <2>4, <2>5, <2>7 DEF Queues, n
<1>6. CASE SubmitUncancel(t)
  <2>1. /\ Submit(t) /\ fs' = [fs EXCEPT !.cancel[Me(t)] = "none"] /\ Return(t)
        /\ UNCHANGED <<meta, poller, hist>>
    BY <1>6 DEF Submit, SubmitUncancel
  <2>2. Others(t) /\ thr'[t].pc = "idle"
    BY <2>1, ReturnDoes, PCsDistinct, Typed
  <2>3. fs'.inputs = fs.inputs /\ fs'.done = fs.done
    BY <2>1, Typed DEF Directory
  <2> QED BY <2>1, <2>2, <2>3 DEF Aside, SamePlans, SameAnswers, Unlisted, Others, Aloof, ListPCs
<1> QED BY <1>1, <1>2, <1>3, <1>4, <1>5, <1>6 DEF Submit

\* A plan on its way to a poller.
Step(t, pc, next) ==
    /\ Others(t) /\ Me(t) \in Digests /\ thr[t].pc = pc /\ thr'[t].pc = next
    /\ next # "idle" => thr'[t].d = Me(t)
    /\ hist'.ops = hist.ops /\ hist'.subs = hist.subs /\ hist'.unqueued = hist.unqueued
    /\ hist'.missed = hist.missed
    /\ \A d \in Digests \ {Me(t)} :
         /\ fs'.inputs[d].n = fs.inputs[d].n /\ fs'.done[d].n = fs.done[d].n
         /\ meta'.inputs[d] = meta.inputs[d] /\ meta'.done[d] = meta.done[d]

Claimed(t) ==
    /\ Step(t, "g_claim", "g_meta") /\ fs.inputs[Me(t)].n # 0
    /\ fs'.inputs[Me(t)].n = 0 /\ fs'.done[Me(t)].n = fs.inputs[Me(t)].n
    /\ thr'[t].x = thr[t].x /\ meta' = meta /\ hist'.delivered = hist.delivered

MetaCame(t) ==
    /\ Step(t, "g_meta", "g_read") /\ SamePlans /\ SameAnswers
    /\ \/ /\ meta.inputs[Me(t)] # 0 /\ thr'[t].x = 1
          /\ meta'.inputs[Me(t)] = 0 /\ meta'.done[Me(t)] = meta.inputs[Me(t)]
       \/ meta.inputs[Me(t)] = 0 /\ thr'[t].x = thr[t].x /\ meta' = meta

PlanRead(t) ==
    /\ Step(t, "g_read", "g_readmeta") /\ SamePlans /\ SameAnswers /\ meta' = meta
    /\ fs.done[Me(t)].n # 0 /\ thr'[t].n = fs.done[Me(t)].n /\ thr'[t].x = thr[t].x

MetaRead(t) ==
    /\ Step(t, "g_readmeta", "g_write") /\ SamePlans /\ SameAnswers /\ meta' = meta
    /\ thr'[t].n = thr[t].n /\ thr'[t].x = thr[t].x
    /\ thr'[t].rows = IF thr[t].x = 1 THEN {meta.done[Me(t)]} \ {0} ELSE {}

HandedOut(t) ==
    /\ Step(t, "g_write", "idle") /\ SamePlans /\ meta' = meta
    /\ hist'.delivered = hist.delivered \cup
                           {[d |-> Me(t), n |-> thr[t].n, meta |-> thr[t].rows]}

CutOff(t) ==
    /\ Step(t, "g_write", IF thr[t].x = 1 THEN "g_unmeta" ELSE "g_unplan")
    /\ SamePlans /\ SameAnswers /\ meta' = meta /\ "rollback" \in ServerOps

MetaBack(t) ==
    /\ Step(t, "g_unmeta", "g_unplan") /\ SamePlans /\ SameAnswers
    /\ meta.done[Me(t)] # 0 => meta'.inputs[Me(t)] = meta.done[Me(t)]

PlanBack(t) ==
    /\ Step(t, "g_unplan", "idle") /\ meta' = meta /\ hist'.delivered = hist.delivered
    /\ \/ SamePlans
       \/ /\ fs.done[Me(t)].n # 0 /\ fs'.inputs[Me(t)].n = fs.done[Me(t)].n
          /\ fs'.done[Me(t)].n = 0

Hands(t) == \/ Claimed(t) \/ MetaCame(t) \/ PlanRead(t) \/ MetaRead(t)
            \/ HandedOut(t) \/ CutOff(t) \/ MetaBack(t) \/ PlanBack(t)

\* What a pickup does, step by step.
LEMMA PickupDoes ==
  ASSUME Inv, NEW t \in Threads, Pickup(t)
  PROVE  Aside \/ Hands(t)
<1> USE DEF At
<1>0. Me(t) \in Digests
  BY Typed DEF Pickup, PickupClaim, PickupMeta, PickupRead, PickupReadMeta, PickupDelivered,
     PickupCut, RollbackMeta, RollbackPlan, Place, OnDigest, PickupPCs
<1>1. ASSUME NEW pc \in PickupPCs, Goto(t, pc)
      PROVE  /\ Others(t) /\ thr'[t].pc = pc /\ thr'[t].d = Me(t) /\ thr'[t].n = thr[t].n
             /\ thr'[t].x = thr[t].x
  BY <1>1, GotoDoes, Typed DEF PCs, Me
<1>2. ASSUME Return(t) PROVE Others(t) /\ thr'[t].pc = "idle"
  BY <1>2, ReturnDoes, PCsDistinct, Typed
<1>3. ASSUME Return(t), Reads PROVE Aside
  BY <1>2, <1>3 DEF Aside, SamePlans, SameAnswers, Unlisted, Reads, Others, Aloof, ListPCs
<1>4. CASE PickupClaim(t)
  <2>1. CASE Queued(fs, Me(t))
    <3>1. /\ thr[t].pc = "g_claim" /\ fs' = Claim(fs, Me(t)) /\ Goto(t, "g_meta")
          /\ meta' = meta /\ Files
      BY <1>4, <2>1 DEF PickupClaim
    <3>2. /\ fs'.done = [fs.done EXCEPT ![Me(t)] = fs.inputs[Me(t)]]
          /\ fs'.inputs = [fs.inputs EXCEPT ![Me(t)] = NoFile]
      BY <1>0, <3>1, PlanMoves, Typed
    <3>3. /\ fs'.inputs[Me(t)].n = 0 /\ fs'.done[Me(t)].n = fs.inputs[Me(t)].n
          /\ \A d \in Digests \ {Me(t)} : /\ fs'.inputs[d].n = fs.inputs[d].n
                                          /\ fs'.done[d].n = fs.done[d].n
      BY <1>0, <3>2, Typed, Values DEF Directory
    <3>4. Others(t) /\ thr'[t].pc = "g_meta" /\ thr'[t].d = Me(t) /\ thr'[t].x = thr[t].x
      BY <1>1, <3>1 DEF PickupPCs
    <3>5. Claimed(t)
      BY <1>0, <2>1, <3>1, <3>3, <3>4 DEF Claimed, Step, Files, Queued
    <3> QED BY <3>5 DEF Hands
  <2>2. CASE ~Queued(fs, Me(t))
    BY <1>3, <1>4, <2>2 DEF PickupClaim, Files, Reads
  <2> QED BY <2>1, <2>2
<1>5. CASE PickupMeta(t)
  <2>1. thr[t].pc = "g_meta" /\ fs' = fs /\ Files
    BY <1>5 DEF PickupMeta
  <2>2. CASE meta.inputs[Me(t)] # 0
    <3>1. /\ meta' = [meta EXCEPT !.done[Me(t)] = meta.inputs[Me(t)], !.inputs[Me(t)] = 0]
          /\ thr' = [thr EXCEPT ![t].pc = "g_read", ![t].x = 1]
      BY <1>5, <2>2 DEF PickupMeta
    <3>2. /\ meta'.done = [meta.done EXCEPT ![Me(t)] = meta.inputs[Me(t)]]
          /\ meta'.inputs = [meta.inputs EXCEPT ![Me(t)] = 0]
      BY <3>1, Typed DEF Metas
    <3>3. /\ meta'.inputs[Me(t)] = 0 /\ meta'.done[Me(t)] = meta.inputs[Me(t)]
          /\ \A d \in Digests \ {Me(t)} : /\ meta'.inputs[d] = meta.inputs[d]
                                          /\ meta'.done[d] = meta.done[d]
      BY <1>0, <3>2, Typed DEF Metas
    <3>4. Others(t) /\ thr'[t].pc = "g_read" /\ thr'[t].d = Me(t) /\ thr'[t].x = 1
      BY <3>1, Typed DEF Others, ThrRecord, Me
    <3>5. MetaCame(t)
      BY <1>0, <2>1, <2>2, <3>3, <3>4 DEF MetaCame, Step, Files, SamePlans, SameAnswers
    <3> QED BY <3>5 DEF Hands
  <2>3. CASE ~(meta.inputs[Me(t)] # 0)
    <3>1. meta' = meta /\ Goto(t, "g_read")
      BY <1>5, <2>3 DEF PickupMeta
    <3>2. Others(t) /\ thr'[t].pc = "g_read" /\ thr'[t].d = Me(t) /\ thr'[t].x = thr[t].x
      BY <1>1, <3>1 DEF PickupPCs
    <3>3. MetaCame(t)
      BY <1>0, <2>1, <2>3, <3>1, <3>2 DEF MetaCame, Step, Files, SamePlans, SameAnswers
    <3> QED BY <3>3 DEF Hands
  <2> QED BY <2>2, <2>3
<1>6. CASE PickupRead(t)
  <2>1. thr[t].pc = "g_read" /\ Reads
    BY <1>6 DEF PickupRead
  <2>2. CASE PickedUp(fs, Me(t))
    <3>1. thr' = [thr EXCEPT ![t].pc = "g_readmeta", ![t].n = fs.done[Me(t)].n]
      BY <1>6, <2>2 DEF PickupRead
    <3>2. /\ Others(t) /\ thr'[t].pc = "g_readmeta" /\ thr'[t].d = Me(t)
          /\ thr'[t].n = fs.done[Me(t)].n /\ thr'[t].x = thr[t].x
      BY <3>1, Typed DEF Others, ThrRecord, Me
    <3>3. PlanRead(t)
      BY <1>0, <2>1, <2>2, <3>2 DEF PlanRead, Step, Reads, SamePlans, SameAnswers, PickedUp
    <3> QED BY <3>3 DEF Hands
  <2>3. CASE ~PickedUp(fs, Me(t))
    BY <1>3, <1>6, <2>1, <2>3 DEF PickupRead
  <2> QED BY <2>2, <2>3
<1>7. CASE PickupReadMeta(t)
  <2> DEFINE rows == IF thr[t].x = 1 THEN {meta.done[Me(t)]} \ {0} ELSE {}
  <2>1. /\ thr[t].pc = "g_readmeta" /\ Reads
        /\ thr' = [thr EXCEPT ![t].pc = "g_write", ![t].rows = rows]
    BY <1>7 DEF PickupReadMeta
  <2> HIDE DEF rows
  <2>2. /\ Others(t) /\ thr'[t].pc = "g_write" /\ thr'[t].d = Me(t) /\ thr'[t].n = thr[t].n
        /\ thr'[t].x = thr[t].x /\ thr'[t].rows = rows
    BY <2>1, Typed DEF Others, ThrRecord, Me
  <2>3. MetaRead(t)
    BY <1>0, <2>1, <2>2 DEF MetaRead, Step, Reads, SamePlans, SameAnswers, rows
  <2> QED BY <2>3 DEF Hands
<1>8. CASE PickupDelivered(t)
  <2> DEFINE r == [d |-> Me(t), n |-> thr[t].n, meta |-> thr[t].rows]
  <2>1. /\ thr[t].pc = "g_write" /\ Return(t) /\ UNCHANGED <<fs, meta, lock>>
        /\ hist' = [hist EXCEPT !.delivered = @ \cup {r}]
    BY <1>8 DEF PickupDelivered
  <2> HIDE DEF r
  <2>2. /\ hist'.delivered = hist.delivered \cup {r} /\ hist'.ops = hist.ops
        /\ hist'.subs = hist.subs /\ hist'.unqueued = hist.unqueued
        /\ hist'.missed = hist.missed
    BY <2>1, Typed DEF HistRecord
  <2>3. HandedOut(t)
    BY <1>0, <1>2, <2>1, <2>2 DEF HandedOut, Step, SamePlans, r
  <2> QED BY <2>3 DEF Hands
<1>9. CASE PickupCut(t)
  <2> DEFINE pc == IF thr[t].x = 1 THEN "g_unmeta" ELSE "g_unplan"
  <2>1. thr[t].pc = "g_write" /\ "rollback" \in ServerOps /\ Goto(t, pc) /\ Reads
    BY <1>9 DEF PickupCut
  <2>2. pc \in PickupPCs /\ pc # "idle"
    BY DEF PickupPCs
  <2> HIDE DEF pc
  <2>3. Others(t) /\ thr'[t].pc = pc /\ thr'[t].d = Me(t)
    BY <1>1, <2>1, <2>2
  <2>4. CutOff(t)
    BY <1>0, <2>1, <2>3 DEF CutOff, Step, Reads, SamePlans, SameAnswers, pc
  <2> QED BY <2>4 DEF Hands
<1>10. CASE RollbackMeta(t)
  <2>1. thr[t].pc = "g_unmeta" /\ Goto(t, "g_unplan") /\ fs' = fs /\ Files
    BY <1>10 DEF RollbackMeta
  <2>2. /\ meta.done[Me(t)] # 0 => meta'.inputs[Me(t)] = meta.done[Me(t)]
        /\ \A d \in Digests \ {Me(t)} : /\ meta'.inputs[d] = meta.inputs[d]
                                        /\ meta'.done[d] = meta.done[d]
    <3>1. CASE meta.done[Me(t)] = 0
      BY <1>10, <3>1 DEF RollbackMeta
    <3>2. CASE meta.done[Me(t)] # 0
      <4>1. meta' = [meta EXCEPT !.inputs[Me(t)] = meta.done[Me(t)], !.done[Me(t)] = 0]
        BY <1>10, <3>2 DEF RollbackMeta
      <4>2. /\ meta'.inputs = [meta.inputs EXCEPT ![Me(t)] = meta.done[Me(t)]]
            /\ meta'.done = [meta.done EXCEPT ![Me(t)] = 0]
        BY <4>1, Typed DEF Metas
      <4> QED BY <1>0, <4>2, Typed DEF Metas
    <3> QED BY <3>1, <3>2
  <2>3. Others(t) /\ thr'[t].pc = "g_unplan" /\ thr'[t].d = Me(t)
    BY <1>1, <2>1 DEF PickupPCs
  <2>4. MetaBack(t)
    BY <1>0, <2>1, <2>2, <2>3 DEF MetaBack, Step, Files, SamePlans, SameAnswers
  <2> QED BY <2>4 DEF Hands
<1>11. CASE RollbackPlan(t)
  <2>1. thr[t].pc = "g_unplan" /\ fs' = Rollback(fs, Me(t)) /\ Return(t) /\ meta' = meta /\ Files
    BY <1>11 DEF RollbackPlan
  <2>2. /\ \A d \in Digests \ {Me(t)} : /\ fs'.inputs[d].n = fs.inputs[d].n
                                        /\ fs'.done[d].n = fs.done[d].n
        /\ \/ SamePlans
           \/ /\ fs.done[Me(t)].n # 0 /\ fs'.inputs[Me(t)].n = fs.done[Me(t)].n
              /\ fs'.done[Me(t)].n = 0
    <3>1. CASE PickedUp(fs, Me(t))
      <4>1. /\ fs'.inputs = [fs.inputs EXCEPT ![Me(t)] = fs.done[Me(t)]]
            /\ fs'.done = [fs.done EXCEPT ![Me(t)] = NoFile]
        BY <1>0, <2>1, <3>1, PlanMoves, Typed
      <4> QED BY <1>0, <3>1, <4>1, Typed, Values DEF Directory, PickedUp
    <3>2. CASE ~PickedUp(fs, Me(t))
      BY <1>0, <2>1, <3>2, PlanMoves, Typed DEF SamePlans
    <3> QED BY <3>1, <3>2
  <2>3. PlanBack(t)
    BY <1>0, <1>2, <2>1, <2>2 DEF PlanBack, Step, Files
  <2> QED BY <2>3 DEF Hands
<1> QED BY <1>4, <1>5, <1>6, <1>7, <1>8, <1>9, <1>10, <1>11 DEF Pickup

\* Every step is one of these.
LEMMA StepsDo ==
  ASSUME Inv, [Next]_vars
  PROVE  Aside \/ \E t \in Threads : Withdraws(t) \/ Checks(t) \/ Queues(t) \/ Hands(t)
<1>1. ASSUME NEW t \in Threads, Request(t)
      PROVE  Aside \/ Withdraws(t) \/ Checks(t) \/ Queues(t)
  BY <1>1, RequestDoes, SubmitDoes
<1> QED BY <1>1, SubmitDoes, PickupDoes, WithdrawalsWithdraw, TarIsAside, ListIsAside,
           OutsideIsAside DEF Next

\* The mix of requests is chosen at the start.
LEMMA OpsStay ==
  ASSUME Inv, [Next]_vars
  PROVE  hist'.ops = hist.ops
<1>1. Aside => hist'.ops = hist.ops
  BY DEF Aside, SameAnswers
<1>2. ASSUME NEW t \in Threads, Withdraws(t) \/ Checks(t) \/ Queues(t) PROVE hist'.ops = hist.ops
  BY <1>2 DEF Withdraws, Checks, SameAnswers, Queues
<1>3. ASSUME NEW t \in Threads, Hands(t) PROVE hist'.ops = hist.ops
  <2>1. \A pc, next : Step(t, pc, next) => hist'.ops = hist.ops
    BY DEF Step
  <2>2. \E pc, next : Step(t, pc, next)
    BY <1>3 DEF Hands, Claimed, MetaCame, PlanRead, MetaRead, HandedOut, CutOff, MetaBack, PlanBack
  <2> QED BY <2>1, <2>2
<1> QED BY <1>1, <1>2, <1>3, StepsDo

-----------------------------------------------------------------------------
(* A plan that nobody takes back *)

Quiet == ServerOps \cap Withdrawals = {}

Kept == Quiet => /\ \A t \in Threads : thr[t].pc \notin WithdrawPCs
                 /\ PlanKept

\* The handlers have labels of their own.
LEMMA PCsApart ==
  /\ Aloof \cap WithdrawPCs = {} /\ SubmitPCs \cap WithdrawPCs = {}
  /\ PickupPCs \cap WithdrawPCs = {} /\ "idle" \notin WithdrawPCs
  /\ Aloof \cap Handover = {} /\ SubmitPCs \cap Handover = {} /\ WithdrawPCs \cap Handover = {}
  /\ Handover = {"g_meta", "g_read", "g_readmeta", "g_write", "g_unmeta", "g_unplan"}
  BY DEF Aloof, WithdrawPCs, Handover, SubmitPCs, PickupPCs, CancelPCs, DeletePCs, PrunePCs,
     ArtefactPCs, ListPCs

\* Only a withdrawal takes the plan of a submission away.
LEMMA KeptNext == Inv /\ Kept /\ [Next]_vars => Kept'
<1> SUFFICES ASSUME Inv, Kept, [Next]_vars PROVE Kept'
  OBVIOUS
<1> USE DEF Kept, PlanKept, Quiet, ServerOps, Queued, PickedUp
<1>1. CASE Aside
  BY <1>1, PCsApart DEF Aside, SamePlans, SameAnswers
<1>2. ASSUME NEW t \in Threads, Withdraws(t) PROVE Kept'
  <2>1. ~Quiet /\ ServerOps' = ServerOps
    BY <1>2 DEF Withdraws
  <2> QED BY <2>1
<1>3. ASSUME NEW t \in Threads, Checks(t) PROVE Kept'
  <2>1. thr'[t].pc \in SubmitPCs /\ Others(t) /\ SamePlans /\ SameAnswers
    BY <1>3 DEF Checks, SubmitPCs
  <2> QED BY <2>1, PCsApart DEF SamePlans, SameAnswers, Others
<1>4. ASSUME NEW t \in Threads, Queues(t) PROVE Kept'
  <2>1. /\ thr'[t].pc \in SubmitPCs /\ Others(t) /\ hist'.ops = hist.ops
    BY <1>4 DEF Queues, SubmitPCs
  <2>2. ASSUME NEW d \in Digests, Quiet, hist'.subs[d] # 0
        PROVE  fs'.inputs[d].n # 0 \/ fs'.done[d].n # 0
    BY <1>4, <2>2 DEF Queues, Subs
  <2> QED BY <2>1, <2>2, PCsApart DEF Others
<1>5. ASSUME NEW t \in Threads, Hands(t) PROVE Kept'
  <2>1. /\ thr'[t].pc \in PickupPCs \cup {"idle"} /\ Others(t) /\ hist'.ops = hist.ops
        /\ hist'.subs = hist.subs
    BY <1>5 DEF Hands, Claimed, MetaCame, PlanRead, MetaRead, HandedOut, CutOff, MetaBack, PlanBack,
       Step, PickupPCs
  <2>2. ASSUME NEW d \in Digests
        PROVE  fs.inputs[d].n # 0 \/ fs.done[d].n # 0 => fs'.inputs[d].n # 0 \/ fs'.done[d].n # 0
    <3>1. CASE SamePlans
      BY <3>1 DEF SamePlans
    <3>2. CASE Claimed(t)
      BY <3>2 DEF Claimed, Step
    <3>3. CASE PlanBack(t) /\ ~SamePlans
      BY <3>3 DEF PlanBack, Step
    <3> QED BY <1>5, <3>1, <3>2, <3>3 DEF Hands, MetaCame, PlanRead, MetaRead, HandedOut, CutOff,
              MetaBack
  <2> QED BY <2>1, <2>2, PCsApart DEF Others
<1> QED BY <1>1, <1>2, <1>3, <1>4, <1>5, StepsDo

-----------------------------------------------------------------------------
(* A plan answered canceled_queued *)

\* The n-th submission of d is past INPUTS.
Away(d, n) ==
    \/ fs.done[d].n = n
    \/ \E t \in Threads : thr[t].pc \in {"g_readmeta", "g_write"} /\ Me(t) = d /\ thr[t].n = n
    \/ \E r \in hist.delivered : r.d = d /\ r.n = n

OneWayFor(d, n) ==
    /\ fs.inputs[d].n <= hist.subs[d]
    /\ Away(d, n) => n <= hist.subs[d] /\ n # fs.inputs[d].n
    /\ <<d, n>> \in hist.unqueued => n <= hist.subs[d] /\ n # fs.inputs[d].n /\ ~Away(d, n)

\* Without a rollback a plan goes one way: into INPUTS, on to DONE and a poller.
OneWay ==
    "rollback" \notin ServerOps =>
      /\ \A t \in Threads : thr[t].pc \notin {"g_unmeta", "g_unplan"}
      /\ \A d \in Digests, n \in Subs : OneWayFor(d, n)

\* Submissions can be compared.
LEMMA NumbersAreInts ==
  Inv => \A d \in Digests :
           fs.inputs[d].n \in Int /\ hist.subs[d] \in Int /\ hist.subs[d] >= 0
  BY Typed, StoreAssumption DEF Sub0

\* Every step keeps plans on their way.
LEMMA OneWayNext == Inv /\ Inv' /\ OneWay /\ [Next]_vars => OneWay'
<1> SUFFICES ASSUME Inv, Inv', OneWay, [Next]_vars, "rollback" \notin ServerOps',
                    hist'.ops = hist.ops
             PROVE  /\ \A t \in Threads : thr'[t].pc \notin {"g_unmeta", "g_unplan"}
                    /\ \A d \in Digests, n \in Subs : OneWayFor(d, n)'
  <2>1. ASSUME Inv, [Next]_vars PROVE hist'.ops = hist.ops
    BY <2>1, OpsStay
  <2> QED BY <2>1 DEF OneWay, ServerOps
<1>0. /\ "rollback" \notin ServerOps
      /\ \A t \in Threads : thr[t].pc \notin {"g_unmeta", "g_unplan"}
      /\ \A d \in Digests, n \in Subs : OneWayFor(d, n)
  BY DEF OneWay, ServerOps
<1>1. \A t \in Threads : thr'[t].pc \notin {"g_unmeta", "g_unplan"}
  <2>1. CASE Aside
    BY <1>0, <2>1 DEF Aside, Aloof, ArtefactPCs, ListPCs
  <2>2. ASSUME NEW t \in Threads, Others(t), thr'[t].pc \notin {"g_unmeta", "g_unplan"}
        PROVE  \A u \in Threads : thr'[u].pc \notin {"g_unmeta", "g_unplan"}
    BY <1>0, <2>2 DEF Others
  <2>3. ASSUME NEW t \in Threads, Withdraws(t) \/ Checks(t) \/ Queues(t)
        PROVE  Others(t) /\ thr'[t].pc \notin {"g_unmeta", "g_unplan"}
    BY <2>3, PCsApart DEF Withdraws, Checks, Queues
  <2>4. ASSUME NEW t \in Threads, Hands(t)
        PROVE  Others(t) /\ thr'[t].pc \notin {"g_unmeta", "g_unplan"}
    BY <1>0, <2>4 DEF Hands, Claimed, MetaCame, PlanRead, MetaRead, HandedOut, CutOff, MetaBack,
       PlanBack, Step
  <2> QED BY <2>1, <2>2, <2>3, <2>4, StepsDo
<1>2. ASSUME NEW d \in Digests, NEW n \in Subs
      PROVE  OneWayFor(d, n)'
  <2>0. /\ fs.inputs[d].n \in Int /\ hist.subs[d] \in Int /\ hist.subs[d] >= 0 /\ n \in Int
        /\ n > 0 /\ hist'.subs[d] \in Int
    <3>1. hist'.subs[d] \in Sub0
      BY DEF Inv, TypeOK
    <3> QED BY <3>1, NumbersAreInts, StoreAssumption DEF Subs, Sub0
  \* Nothing new is away, nothing new in INPUTS.
  <2>1. ASSUME Away(d, n)' => Away(d, n), fs'.inputs[d].n \in {fs.inputs[d].n, 0},
               hist'.subs[d] = hist.subs[d], <<d, n>> \in hist'.unqueued => <<d, n>> \in hist.unqueued
        PROVE  OneWayFor(d, n)'
    BY <1>0, <2>0, <2>1 DEF OneWayFor
  <2>2. CASE Aside
    <3>1. Away(d, n)' => Away(d, n)
      BY <2>2 DEF Away, Aside, SamePlans, SameAnswers, Aloof, ArtefactPCs, ListPCs, Me
    <3> QED BY <2>1, <2>2, <3>1 DEF Aside, SamePlans, SameAnswers
  <2>3. ASSUME NEW t \in Threads, Withdraws(t)
        PROVE  OneWayFor(d, n)'
    <3>1. Away(d, n)' => Away(d, n)
      <4>1. fs'.done[d].n = n => fs.done[d].n = n
        BY <2>0, <2>3 DEF Withdraws
      <4>2. hist'.delivered = hist.delivered
        BY <2>3 DEF Withdraws
      <4>3. \A u \in Threads : thr'[u].pc \in {"g_readmeta", "g_write"} => thr'[u] = thr[u]
        BY <2>3, PCsApart DEF Withdraws, Others
      <4> QED BY <4>1, <4>2, <4>3 DEF Away, Me
    <3>2. hist'.subs[d] = hist.subs[d] /\ fs'.inputs[d].n \in {fs.inputs[d].n, 0}
      BY <2>3 DEF Withdraws
    <3>3. CASE <<d, n>> \in hist'.unqueued /\ <<d, n>> \notin hist.unqueued
      <4>1. d = Me(t) /\ n = fs.inputs[d].n /\ fs'.inputs[d].n = 0
        BY <2>3, <3>3 DEF Withdraws
      <4> QED BY <1>0, <2>0, <3>1, <3>2, <4>1 DEF OneWayFor
    <3> QED BY <2>1, <3>1, <3>2, <3>3
  <2>4. ASSUME NEW t \in Threads, Checks(t)
        PROVE  OneWayFor(d, n)'
    <3>1. Away(d, n)' => Away(d, n)
      <4>1. thr'[t].pc \notin {"g_readmeta", "g_write"}
        BY <2>4 DEF Checks
      <4> QED BY <2>4, <4>1 DEF Away, Checks, SamePlans, SameAnswers, Others, Me
    <3> QED BY <2>1, <2>4, <3>1 DEF Checks, SamePlans, SameAnswers
  <2>5. ASSUME NEW t \in Threads, Queues(t)
        PROVE  OneWayFor(d, n)'
    <3>1. Away(d, n)' => Away(d, n)
      BY <2>5 DEF Away, Queues, Others, Me
    <3>2. CASE d = Me(t)
      <4>1. /\ hist'.subs[d] = hist.subs[d] + 1 /\ fs'.inputs[d].n = hist.subs[d] + 1
            /\ hist'.unqueued = hist.unqueued
        BY <2>5, <3>2 DEF Queues
      <4> QED BY <1>0, <2>0, <3>1, <4>1 DEF OneWayFor
    <3>3. CASE d # Me(t)
      BY <2>1, <2>5, <3>1, <3>3 DEF Queues
    <3> QED BY <3>2, <3>3
  <2>6. ASSUME NEW t \in Threads, Hands(t)
        PROVE  OneWayFor(d, n)'
    <3>1. /\ hist'.subs = hist.subs /\ hist'.unqueued = hist.unqueued /\ Others(t)
      BY <2>6 DEF Hands, Claimed, MetaCame, PlanRead, MetaRead, HandedOut, CutOff, MetaBack,
         PlanBack, Step
    <3>2. CASE Claimed(t)
      <4>1. /\ thr'[t].pc = "g_meta" /\ Others(t) /\ hist'.delivered = hist.delivered
        BY <3>2 DEF Claimed, Step
      <4>2. CASE d = Me(t)
        <5>1. fs'.done[d].n = fs.inputs[d].n /\ fs'.inputs[d].n = 0
          BY <3>2, <4>2 DEF Claimed
        <5>2. Away(d, n)' => Away(d, n) \/ n = fs.inputs[d].n
          BY <4>1, <5>1 DEF Away, Others, Me
        <5> QED BY <1>0, <2>0, <3>1, <5>1, <5>2 DEF OneWayFor
      <4>3. CASE d # Me(t)
        <5>1. fs'.done[d].n = fs.done[d].n /\ fs'.inputs[d].n = fs.inputs[d].n
          BY <3>2, <4>3 DEF Claimed, Step
        <5>2. Away(d, n)' => Away(d, n)
          BY <4>1, <5>1 DEF Away, Others, Me
        <5> QED BY <2>1, <3>1, <5>1, <5>2
      <4> QED BY <4>2, <4>3
    <3>3. CASE MetaCame(t) \/ PlanRead(t) \/ MetaRead(t) \/ HandedOut(t)
      <4>1. SamePlans
        BY <3>3 DEF MetaCame, PlanRead, MetaRead, HandedOut
      <4>2. Away(d, n)' => Away(d, n)
        <5>1. CASE MetaCame(t)
          BY <5>1 DEF Away, Others, Me, MetaCame, Step, SamePlans, SameAnswers
        <5>2. CASE PlanRead(t)
          BY <5>2 DEF Away, Others, Me, PlanRead, Step, SamePlans, SameAnswers
        <5>3. CASE MetaRead(t)
          BY <5>3 DEF Away, Others, Me, MetaRead, Step, SamePlans, SameAnswers
        <5>4. CASE HandedOut(t)
          BY <5>4 DEF Away, Others, Me, HandedOut, Step, SamePlans
        <5> QED BY <3>3, <5>1, <5>2, <5>3, <5>4
      <4> QED BY <2>1, <3>1, <4>1, <4>2 DEF SamePlans
    <3>4. ~CutOff(t) /\ ~MetaBack(t) /\ ~PlanBack(t)
      BY <1>0 DEF CutOff, MetaBack, PlanBack, Step
    <3> QED BY <2>6, <3>2, <3>3, <3>4 DEF Hands
  <2> QED BY <2>2, <2>3, <2>4, <2>5, <2>6, StepsDo
<1> QED BY <1>1, <1>2

\* Without a cancel no plan is taken back from INPUTS.
NoneTaken ==
    "cancel" \notin ServerOps =>
      hist.unqueued = {} /\ \A t \in Threads : thr[t].pc # "c_plan"

\* No other handler unlinks a plan in INPUTS.
LEMMA NoneTakenNext == Inv /\ NoneTaken /\ [Next]_vars => NoneTaken'
<1> SUFFICES ASSUME Inv, NoneTaken, [Next]_vars PROVE NoneTaken'
  OBVIOUS
<1> USE DEF NoneTaken, ServerOps
<1>1. CASE Aside
  BY <1>1 DEF Aside, SameAnswers, Aloof, ArtefactPCs, ListPCs
<1>2. ASSUME NEW t \in Threads, Withdraws(t) PROVE NoneTaken'
  BY <1>2 DEF Withdraws, Others
<1>3. ASSUME NEW t \in Threads, Checks(t) PROVE NoneTaken'
  BY <1>3 DEF Checks, SameAnswers, Others
<1>4. ASSUME NEW t \in Threads, Queues(t) PROVE NoneTaken'
  BY <1>4 DEF Queues, Others
<1>5. ASSUME NEW t \in Threads, Hands(t) PROVE NoneTaken'
  BY <1>5 DEF Hands, Claimed, MetaCame, PlanRead, MetaRead, HandedOut, CutOff, MetaBack, PlanBack,
     Step, Others
<1> QED BY <1>1, <1>2, <1>3, <1>4, <1>5, StepsDo

-----------------------------------------------------------------------------
(* A plan that is submitted once is handed out once *)

\* No digest is submitted twice: nobody tries, or nothing makes room for it.
Once == \/ "resubmit" \notin ServerOps
        \/ "rollback" \notin ServerOps /\ Quiet

Carries(t, d) == thr[t].pc \in Handover /\ Me(t) = d
Given(d)      == \E r \in hist.delivered : r.d = d
Taken(d)      == \E r \in hist.unqueued : r[1] = d

OnceFor(d) ==
    /\ hist.subs[d] \in {0, 1} /\ fs.inputs[d].n \in {0, 1} /\ fs.done[d].n \in {0, 1}
    /\ hist.subs[d] = 0 \/ fs.inputs[d].n # 0 =>
         ~Given(d) /\ ~Taken(d) /\ \A t \in Threads : ~Carries(t, d)
    /\ hist.subs[d] = 0 => fs.inputs[d].n = 0 /\ fs.done[d].n = 0
    /\ ~(Given(d) /\ Taken(d))
    /\ \A t \in Threads : Carries(t, d) =>
         /\ ~Given(d) /\ ~Taken(d)
         /\ \A u \in Threads : Carries(u, d) => u = t

OnceAt(t) ==
    /\ thr[t].pc \in {"s_outputs", "s_inputs", "s_done"} =>
         hist.subs[Me(t)] = 0 \/ "resubmit" \in ServerOps
    /\ thr[t].pc = "s_done" => hist.subs[Me(t)] = 0 \/ fs.done[Me(t)].n # 0
    /\ thr[t].pc \in {"s_inflight", "s_meta", "s_plan"} => hist.subs[Me(t)] = 0
    /\ thr[t].pc \in {"g_readmeta", "g_write"} => thr[t].n = 1
    /\ "rollback" \notin ServerOps => thr[t].pc \notin {"g_unmeta", "g_unplan"}

OnceInv == Once => /\ \A d \in Digests : OnceFor(d)
                   /\ \A t \in Threads : OnceAt(t)

\* Nothing begins for d, so that nothing changes for it.
LEMMA OnceFrame ==
  ASSUME NEW d \in Digests, OnceFor(d),
         hist'.subs[d] = hist.subs[d], fs'.inputs[d].n = fs.inputs[d].n,
         fs'.done[d].n \in {fs.done[d].n, 0},
         Given(d)' => Given(d), Taken(d)' => Taken(d),
         \A t \in Threads : Carries(t, d)' => Carries(t, d)
  PROVE  OnceFor(d)'
  BY DEF OnceFor

\* A thread that has not moved is where it was.
LEMMA OnceStays ==
  ASSUME Inv, NEW t \in Threads, OnceAt(t), thr'[t] = thr[t], hist'.ops = hist.ops,
         thr[t].pc \in SubmitPCs => hist'.subs[Me(t)] = hist.subs[Me(t)],
         thr[t].pc = "s_done" /\ hist.subs[Me(t)] # 0 => fs'.done[Me(t)].n # 0
  PROVE  OnceAt(t)'
  BY DEF OnceAt, ServerOps, Me, SubmitPCs

\* What is submitted once is carried by one thread at a time.
LEMMA OnceNext == Inv /\ Inv' /\ Kept /\ OnceInv /\ [Next]_vars => OnceInv'
<1> SUFFICES ASSUME Inv, Inv', Kept, OnceInv, [Next]_vars, Once, hist'.ops = hist.ops
             PROVE  /\ \A d \in Digests : OnceFor(d)'
                    /\ \A t \in Threads : OnceAt(t)'
  <2>1. ASSUME Inv, [Next]_vars PROVE hist'.ops = hist.ops
    BY <2>1, OpsStay
  <2> QED BY <2>1 DEF OnceInv, Once, Quiet, ServerOps
<1>0. /\ \A d \in Digests : OnceFor(d)
      /\ \A t \in Threads : OnceAt(t)
      /\ ServerOps' = ServerOps
  BY DEF OnceInv, ServerOps
<1>1. CASE Aside
  <2>1. ASSUME NEW d \in Digests PROVE OnceFor(d)'
    BY <1>0, <1>1, <2>1, OnceFrame, PCsApart DEF Aside, SamePlans, SameAnswers, Given, Taken,
       Carries, Me
  <2>2. ASSUME NEW t \in Threads PROVE OnceAt(t)'
    <3>1. CASE thr'[t] = thr[t]
      <4>1. thr[t].pc = "s_done" => Me(t) \in Digests
        BY Typed DEF Place, OnDigest, SubmitPCs
      <4> QED BY <1>0, <1>1, <3>1, <4>1, OnceStays DEF Aside, SamePlans, SameAnswers, OnceAt
    <3>2. CASE thr'[t].pc \in Aloof
      BY <3>2 DEF OnceAt, Aloof, ArtefactPCs, ListPCs
    <3> QED BY <1>1, <3>1, <3>2 DEF Aside
  <2> QED BY <2>1, <2>2
<1>2. ASSUME NEW t \in Threads, Withdraws(t)
      PROVE  /\ \A d \in Digests : OnceFor(d)'
             /\ \A u \in Threads : OnceAt(u)'
  <2>0. "resubmit" \notin ServerOps
    BY <1>2 DEF Withdraws, Kept, Once, Quiet
  <2>1. /\ Others(t) /\ thr'[t].pc \in WithdrawPCs \cup {"idle"} /\ hist'.subs = hist.subs
        /\ hist'.delivered = hist.delivered
    BY <1>2 DEF Withdraws
  <2>2. ASSUME NEW d \in Digests PROVE OnceFor(d)'
    <3>1. \A u \in Threads : Carries(u, d)' => Carries(u, d)
      BY <2>1, PCsApart DEF Others, Carries, Me, Handover, PickupPCs
    <3>2. Given(d)' <=> Given(d)
      BY <2>1 DEF Given
    <3>3. hist'.subs[d] = hist.subs[d] /\ fs'.done[d].n \in {fs.done[d].n, 0}
      BY <1>2 DEF Withdraws
    <3>4. CASE (Taken(d)' => Taken(d)) /\ fs'.inputs[d].n = fs.inputs[d].n
      BY <1>0, <3>1, <3>2, <3>3, <3>4, OnceFrame
    <3>5. CASE fs'.inputs[d].n = 0 /\ (Taken(d)' => Taken(d) \/ fs.inputs[d].n # 0)
      BY <1>0, <3>1, <3>2, <3>3, <3>5 DEF OnceFor
    <3>6. (Taken(d)' => Taken(d)) \/ fs.inputs[d].n # 0
      <4>1. hist'.unqueued \subseteq Runs
        BY DEF Inv, TypeOK
      <4>2. \A r \in hist'.unqueued \ hist.unqueued : r = <<Me(t), fs.inputs[Me(t)].n>>
        BY <1>2 DEF Withdraws
      <4> QED BY <4>1, <4>2, Values DEF Taken, Runs, Subs
    <3>7. \/ (Taken(d)' => Taken(d)) /\ fs'.inputs[d].n = fs.inputs[d].n
          \/ fs'.inputs[d].n = 0
      BY <1>2 DEF Withdraws, Taken
    <3> QED BY <3>4, <3>5, <3>6, <3>7
  <2>3. ASSUME NEW u \in Threads PROVE OnceAt(u)'
    <3>1. CASE u = t
      BY <2>1, <3>1 DEF OnceAt, WithdrawPCs, CancelPCs, DeletePCs, PrunePCs
    <3>2. CASE u # t
      <4>1. thr[u].pc = "s_done" => hist.subs[Me(u)] = 0
        BY <1>0, <2>0 DEF OnceAt
      <4> QED BY <1>0, <2>1, <3>2, <4>1, OnceStays DEF Others
    <3> QED BY <3>1, <3>2
  <2> QED BY <2>2, <2>3
<1>3. ASSUME NEW t \in Threads, Checks(t)
      PROVE  /\ \A d \in Digests : OnceFor(d)'
             /\ \A u \in Threads : OnceAt(u)'
  <2>1. Others(t) /\ SamePlans /\ SameAnswers /\ thr'[t].pc \in SubmitPCs
    BY <1>3 DEF Checks, SubmitPCs
  <2>2. ASSUME NEW d \in Digests PROVE OnceFor(d)'
    <3>1. \A u \in Threads : Carries(u, d)' => Carries(u, d)
      BY <2>1, PCsApart DEF Others, Carries, Me
    <3> QED BY <1>0, <2>1, <3>1, OnceFrame DEF SamePlans, SameAnswers, Given, Taken
  <2>3. ASSUME NEW u \in Threads PROVE OnceAt(u)'
    <3>1. CASE u # t
      <4>1. thr[u].pc = "s_done" => Me(u) \in Digests
        BY Typed DEF Place, OnDigest, SubmitPCs
      <4> QED BY <1>0, <2>1, <3>1, <4>1, OnceStays DEF Others, SamePlans, SameAnswers, OnceAt
    <3>2. CASE u = t
      <4> DEFINE d == thr'[t].d
      <4>1. d \in Digests /\ hist'.subs[d] = hist.subs[d] /\ fs'.done[d].n = fs.done[d].n
        BY <1>3, <2>1 DEF Checks, SamePlans, SameAnswers
      <4>2. thr[t].pc = "s_inputs" /\ thr'[t].pc = "s_done" /\ d = Me(t) =>
              hist.subs[d] = 0 \/ fs.done[d].n # 0
        <5>1. CASE "resubmit" \notin ServerOps
          BY <1>0, <5>1 DEF OnceAt
        <5>2. CASE Quiet
          BY <1>3, <4>1, <5>2 DEF Kept, PlanKept, Quiet, Queued, PickedUp, Checks
        <5> QED BY <5>1, <5>2 DEF Once
      <4> QED BY <1>0, <1>3, <3>2, <4>1, <4>2 DEF Checks, OnceAt, Me, PickedUp
    <3> QED BY <3>1, <3>2
  <2> QED BY <2>2, <2>3
<1>4. ASSUME NEW t \in Threads, Queues(t)
      PROVE  /\ \A d \in Digests : OnceFor(d)'
             /\ \A u \in Threads : OnceAt(u)'
  <2>1. /\ Others(t) /\ thr[t].pc = "s_plan" /\ thr'[t].pc = "s_uncancel" /\ lock = t
        /\ hist.subs[Me(t)] = 0 /\ Me(t) \in Digests
    BY <1>0, <1>4 DEF Queues, OnceAt
  <2>2. ASSUME NEW d \in Digests PROVE OnceFor(d)'
    <3>1. \A u \in Threads : Carries(u, d)' => Carries(u, d)
      BY <2>1, PCsApart DEF Others, Carries, Me, SubmitPCs
    <3>2. (Given(d)' <=> Given(d)) /\ (Taken(d)' <=> Taken(d)) /\ fs'.done[d].n = fs.done[d].n
      BY <1>4 DEF Queues, Given, Taken
    <3>3. CASE d = Me(t)
      <4>1. hist'.subs[d] = 1 /\ fs'.inputs[d].n = 1
        BY <1>4, <2>1, <3>3 DEF Queues
      <4> QED BY <1>0, <2>1, <3>1, <3>2, <3>3, <4>1 DEF OnceFor
    <3>4. CASE d # Me(t)
      BY <1>0, <1>4, <3>1, <3>2, <3>4, OnceFrame DEF Queues
    <3> QED BY <3>3, <3>4
  <2>3. ASSUME NEW u \in Threads PROVE OnceAt(u)'
    <3>1. CASE u = t
      BY <2>1, <3>1 DEF OnceAt
    <3>2. CASE u # t
      <4>1. thr[u].pc \notin SubmitPCs
        BY <2>1, <3>2, Typed DEF Place
      <4> QED BY <1>0, <2>1, <3>2, <4>1, OnceStays DEF Others, SubmitPCs
    <3> QED BY <3>1, <3>2
  <2> QED BY <2>2, <2>3
<1>5. ASSUME NEW t \in Threads, Hands(t)
      PROVE  /\ \A d \in Digests : OnceFor(d)'
             /\ \A u \in Threads : OnceAt(u)'
  <2>1. /\ Others(t) /\ hist'.subs = hist.subs /\ hist'.unqueued = hist.unqueued
        /\ Me(t) \in Digests
        /\ \A d \in Digests \ {Me(t)} :
             fs'.inputs[d].n = fs.inputs[d].n /\ fs'.done[d].n = fs.done[d].n
        /\ thr'[t].pc = "idle" \/ thr'[t].d = Me(t)
    BY <1>5 DEF Hands, Claimed, MetaCame, PlanRead, MetaRead, HandedOut, CutOff, MetaBack, PlanBack,
       Step
  <2>2. ASSUME NEW d \in Digests, d # Me(t) PROVE OnceFor(d)'
    <3>1. \A u \in Threads : Carries(u, d)' => Carries(u, d)
      BY <2>1, <2>2, PCsApart DEF Others, Carries, Me
    <3>2. Given(d)' => Given(d)
      BY <1>5, <2>2 DEF Hands, Claimed, MetaCame, PlanRead, MetaRead, HandedOut, CutOff, MetaBack,
         PlanBack, Given, SameAnswers
    <3>3. Taken(d)' => Taken(d)
      BY <2>1 DEF Taken
    <3> QED BY <1>0, <2>1, <2>2, <3>1, <3>2, <3>3, OnceFrame
  <2>3. ASSUME NEW d \in Digests, d = Me(t) PROVE OnceFor(d)'
    <3>1. \A u \in Threads \ {t} : Carries(u, d)' <=> Carries(u, d)
      BY <2>1 DEF Others, Carries, Me
    <3>2. Taken(d)' <=> Taken(d)
      BY <2>1 DEF Taken
    <3>3. CASE Claimed(t)
      <4>1. /\ fs.inputs[d].n # 0 /\ fs'.inputs[d].n = 0 /\ fs'.done[d].n = fs.inputs[d].n
            /\ (Given(d)' <=> Given(d)) /\ hist'.subs[d] = hist.subs[d]
        BY <2>1, <2>3, <3>3 DEF Claimed, Given
      <4> QED BY <1>0, <3>1, <3>2, <4>1 DEF OnceFor
    <3>4. CASE MetaCame(t) \/ PlanRead(t) \/ MetaRead(t) \/ CutOff(t) \/ MetaBack(t)
      <4>1. SamePlans /\ SameAnswers /\ thr[t].pc \in Handover
        BY <3>4, PCsApart DEF MetaCame, PlanRead, MetaRead, CutOff, MetaBack, Step
      <4>2. \A u \in Threads : Carries(u, d)' => Carries(u, d)
        BY <2>3, <3>1, <4>1 DEF Carries
      <4> QED BY <1>0, <4>1, <4>2, OnceFrame DEF SamePlans, SameAnswers, Given, Taken
    <3>5. CASE HandedOut(t)
      <4>1. Carries(t, d) /\ ~Carries(t, d)' /\ SamePlans
        BY <2>3, <3>5, PCsApart DEF HandedOut, Step, Carries
      <4> QED BY <1>0, <2>1, <3>1, <3>2, <4>1 DEF OnceFor, SamePlans
    <3>6. CASE PlanBack(t)
      <4>1. Carries(t, d) /\ ~Carries(t, d)' /\ (Given(d)' <=> Given(d))
        BY <2>3, <3>6, PCsApart DEF PlanBack, Step, Carries, Given
      <4>2. CASE SamePlans
        BY <1>0, <2>1, <3>1, <3>2, <4>1, <4>2 DEF OnceFor, SamePlans
      <4>3. CASE fs.done[d].n # 0 /\ fs'.inputs[d].n = fs.done[d].n /\ fs'.done[d].n = 0
        BY <1>0, <2>1, <3>1, <3>2, <4>1, <4>3 DEF OnceFor
      <4> QED BY <2>3, <3>6, <4>2, <4>3 DEF PlanBack
    <3> QED BY <1>5, <3>3, <3>4, <3>5, <3>6 DEF Hands
  <2>4. ASSUME NEW u \in Threads PROVE OnceAt(u)'
    <3>1. CASE u = t
      <4>1. CASE PlanRead(t)
        BY <1>0, <2>1, <3>1, <4>1 DEF PlanRead, Step, OnceAt, OnceFor
      <4>2. CASE MetaRead(t)
        BY <1>0, <3>1, <4>2 DEF MetaRead, Step, OnceAt
      <4>3. CASE CutOff(t)
        BY <1>0, <3>1, <4>3 DEF CutOff, Step, OnceAt
      <4>4. CASE MetaBack(t)
        BY <1>0, <3>1, <4>4 DEF MetaBack, Step, OnceAt
      <4>5. CASE thr'[t].pc \in {"g_meta", "g_read", "idle"}
        BY <3>1, <4>5 DEF OnceAt
      <4> QED BY <1>5, <4>1, <4>2, <4>3, <4>4, <4>5 DEF Hands, Claimed, MetaCame, HandedOut,
                PlanBack, Step
    <3>2. CASE u # t
      <4>1. thr[u].pc = "s_done" /\ hist.subs[Me(u)] # 0 => fs'.done[Me(u)].n # 0
        <5>1. SUFFICES ASSUME thr[u].pc = "s_done", hist.subs[Me(u)] # 0
                       PROVE  fs'.done[Me(u)].n # 0
          OBVIOUS
        <5>2. /\ "rollback" \notin ServerOps /\ fs.done[Me(u)].n # 0 /\ Me(u) \in Digests
          BY <1>0, <5>1, Typed DEF OnceAt, Once, Place, OnDigest, SubmitPCs
        <5>3. thr[t].pc \notin {"g_unmeta", "g_unplan"}
          BY <1>0, <5>2 DEF OnceAt
        <5>4. CASE SamePlans
          BY <5>2, <5>4 DEF SamePlans
        <5>5. CASE Claimed(t)
          BY <2>1, <5>2, <5>5 DEF Claimed
        <5>6. CASE PlanBack(t)
          BY <5>3, <5>6 DEF PlanBack, Step
        <5> QED BY <1>5, <5>4, <5>5, <5>6 DEF Hands, MetaCame, PlanRead, MetaRead, HandedOut,
                  CutOff, MetaBack
      <4>2. thr'[u] = thr[u] /\ hist'.ops = hist.ops /\ hist'.subs = hist.subs
        BY <2>1, <3>2 DEF Others
      <4> QED BY <1>0, <4>1, <4>2, OnceStays
    <3> QED BY <3>1, <3>2
  <2> QED BY <2>2, <2>3, <2>4
<1> QED BY <1>1, <1>2, <1>3, <1>4, <1>5, StepsDo

-----------------------------------------------------------------------------
(* The headers of a plan that is submitted once *)

Own == IF 1 \in MetaSubs THEN 1 ELSE 0

MetaAt(t) ==
    /\ thr[t].pc \in {"s_plan", "g_meta", "g_unplan"} => meta.inputs[Me(t)] = Own
    /\ thr[t].pc \in {"g_read", "g_readmeta", "g_write"} =>
         thr[t].x = Own /\ meta.inputs[Me(t)] = 0 /\ (Own = 1 => meta.done[Me(t)] = 1)
    /\ thr[t].pc = "g_write" => thr[t].rows = {1} \cap MetaSubs
    /\ thr[t].pc = "g_unmeta" => Own = 1 /\ meta.done[Me(t)] = 1

MetaInv == Quiet /\ Once =>
    /\ \A d \in Digests : fs.inputs[d].n # 0 => meta.inputs[d] = Own
    /\ \A t \in Threads : MetaAt(t)
    /\ \A r \in hist.delivered : r.n = 1 /\ r.meta = {1} \cap MetaSubs

\* The headers stay with a thread that has not moved.
LEMMA MetaStays ==
  ASSUME NEW t \in Threads, MetaAt(t), thr'[t] = thr[t],
         thr[t].pc \in Handover \cup {"s_plan"} =>
           meta'.inputs[Me(t)] = meta.inputs[Me(t)] /\ meta'.done[Me(t)] = meta.done[Me(t)]
  PROVE  MetaAt(t)'
  BY PCsApart DEF MetaAt, Me, Own

\* The headers of a plan move with it.
LEMMA MetaNext == Inv /\ Kept /\ OnceInv /\ MetaInv /\ [Next]_vars => MetaInv'
<1> SUFFICES ASSUME Inv, Kept, OnceInv, MetaInv, [Next]_vars, Quiet, Once, hist'.ops = hist.ops
             PROVE  /\ \A d \in Digests : fs'.inputs[d].n # 0 => meta'.inputs[d] = Own
                    /\ \A t \in Threads : MetaAt(t)'
                    /\ \A r \in hist'.delivered : r.n = 1 /\ r.meta = {1} \cap MetaSubs
  <2>1. ASSUME Inv, [Next]_vars PROVE hist'.ops = hist.ops
    BY <2>1, OpsStay
  <2>2. Own' = Own
    BY DEF Own
  <2> QED BY <2>1, <2>2 DEF MetaInv, Once, Quiet, ServerOps
<1>0. /\ \A d \in Digests : fs.inputs[d].n # 0 => meta.inputs[d] = Own
      /\ \A t \in Threads : MetaAt(t)
      /\ \A r \in hist.delivered : r.n = 1 /\ r.meta = {1} \cap MetaSubs
      /\ \A d \in Digests : OnceFor(d)
      /\ \A t \in Threads : OnceAt(t)
      /\ Own \in {0, 1}
  BY DEF MetaInv, OnceInv, Own
<1>1. CASE Aside
  <2>1. ASSUME NEW t \in Threads PROVE MetaAt(t)'
    <3>1. CASE thr'[t] = thr[t]
      BY <1>0, <1>1, <3>1, MetaStays DEF Aside
    <3>2. CASE thr'[t].pc \in Aloof
      BY <3>2 DEF MetaAt, Aloof, ArtefactPCs, ListPCs
    <3> QED BY <1>1, <3>1, <3>2 DEF Aside
  <2> QED BY <1>0, <1>1, <2>1 DEF Aside, SamePlans, SameAnswers
<1>2. ASSUME NEW t \in Threads, Withdraws(t) PROVE FALSE
  BY <1>2 DEF Withdraws, Kept, Quiet
<1>3. ASSUME NEW t \in Threads, Checks(t)
      PROVE  /\ \A d \in Digests : fs'.inputs[d].n # 0 => meta'.inputs[d] = Own
             /\ \A u \in Threads : MetaAt(u)'
             /\ \A r \in hist'.delivered : r.n = 1 /\ r.meta = {1} \cap MetaSubs
  <2>0. Others(t) /\ SamePlans /\ SameAnswers /\ thr'[t].pc \in SubmitPCs
    BY <1>3 DEF Checks, SubmitPCs
  <2>1. CASE meta' = meta /\ thr'[t].pc # "s_plan"
    <3>1. ASSUME NEW u \in Threads PROVE MetaAt(u)'
      <4>1. CASE u = t
        BY <2>0, <2>1, <4>1 DEF MetaAt, SubmitPCs
      <4>2. CASE u # t
        BY <1>0, <2>0, <2>1, <4>2, MetaStays DEF Others
      <4> QED BY <4>1, <4>2
    <3> QED BY <1>0, <2>0, <2>1, <3>1 DEF SamePlans, SameAnswers
  <2>2. CASE thr[t].pc = "s_meta"
    <3>1. /\ thr'[t].d = Me(t) /\ Me(t) \in Digests /\ lock = t /\ thr'[t].pc = "s_plan"
          /\ \A d \in Digests \ {Me(t)} : meta'.inputs[d] = meta.inputs[d]
          /\ meta'.inputs[Me(t)] = IF hist.subs[Me(t)] + 1 \in MetaSubs
                                     THEN hist.subs[Me(t)] + 1 ELSE 0
          /\ meta'.done = meta.done
      <4>1. lock = t
        BY <2>2, Typed DEF Place, SubmitPCs
      <4> QED BY <1>3, <2>2, <4>1, Values DEF Checks
    <3>2. hist.subs[Me(t)] = 0 /\ meta'.inputs[Me(t)] = Own
      BY <1>0, <2>2, <3>1 DEF OnceAt, Own
    <3>3. \A u \in Threads : ~Carries(u, Me(t)) /\ fs.inputs[Me(t)].n = 0
      BY <1>0, <3>1, <3>2 DEF OnceFor
    <3>4. ASSUME NEW u \in Threads PROVE MetaAt(u)'
      <4>1. CASE u = t
        BY <3>1, <3>2, <4>1 DEF MetaAt, Me, Own
      <4>2. CASE u # t
        <5>1. thr[u].pc # "s_plan"
          BY <3>1, <4>2, Typed DEF Place, SubmitPCs
        <5>2. thr[u].pc \in Handover => Me(u) # Me(t) /\ Me(u) \in Digests
          BY <3>3, Typed DEF Carries, Place, OnDigest, Handover
        <5> QED BY <1>0, <2>0, <3>1, <4>2, <5>1, <5>2, MetaStays DEF Others
      <4> QED BY <4>1, <4>2
    <3> QED BY <1>0, <2>0, <3>1, <3>2, <3>4 DEF SamePlans, SameAnswers
  <2> QED BY <1>3, <2>1, <2>2 DEF Checks
<1>4. ASSUME NEW t \in Threads, Queues(t)
      PROVE  /\ \A d \in Digests : fs'.inputs[d].n # 0 => meta'.inputs[d] = Own
             /\ \A u \in Threads : MetaAt(u)'
             /\ \A r \in hist'.delivered : r.n = 1 /\ r.meta = {1} \cap MetaSubs
  <2>1. ASSUME NEW u \in Threads PROVE MetaAt(u)'
    <3>1. CASE u = t
      BY <1>4, <3>1 DEF Queues, MetaAt
    <3>2. CASE u # t
      BY <1>0, <1>4, <3>2, MetaStays DEF Queues, Others
    <3> QED BY <3>1, <3>2
  <2>2. meta.inputs[Me(t)] = Own
    BY <1>0, <1>4 DEF Queues, MetaAt
  <2> QED BY <1>0, <1>4, <2>1, <2>2 DEF Queues
<1>5. ASSUME NEW t \in Threads, Hands(t)
      PROVE  /\ \A d \in Digests : fs'.inputs[d].n # 0 => meta'.inputs[d] = Own
             /\ \A u \in Threads : MetaAt(u)'
             /\ \A r \in hist'.delivered : r.n = 1 /\ r.meta = {1} \cap MetaSubs
  <2>1. /\ Others(t) /\ Me(t) \in Digests
        /\ \A d \in Digests \ {Me(t)} :
             /\ fs'.inputs[d].n = fs.inputs[d].n
             /\ meta'.inputs[d] = meta.inputs[d] /\ meta'.done[d] = meta.done[d]
        /\ thr'[t].pc = "idle" \/ thr'[t].d = Me(t)
    BY <1>5 DEF Hands, Claimed, MetaCame, PlanRead, MetaRead, HandedOut, CutOff, MetaBack, PlanBack,
       Step
  <2>2. ASSUME NEW u \in Threads, u # t PROVE MetaAt(u)'
    <3>1. CASE meta' = meta
      BY <1>0, <2>1, <2>2, <3>1, MetaStays DEF Others
    <3>2. CASE Carries(t, Me(t))
      <4>1. thr[u].pc \in Handover \cup {"s_plan"} => Me(u) \in Digests \ {Me(t)}
        <5>1. thr[u].pc \in Handover \cup {"s_plan"} => Me(u) \in Digests
          BY Typed DEF Place, OnDigest, Handover, SubmitPCs
        <5>2. thr[u].pc \in Handover => Me(u) # Me(t)
          BY <1>0, <2>1, <2>2, <3>2 DEF OnceFor, Carries
        <5>3. thr[u].pc = "s_plan" => Me(u) # Me(t)
          BY <1>0, <2>1, <3>2 DEF OnceFor, OnceAt
        <5> QED BY <5>1, <5>2, <5>3
      <4> QED BY <1>0, <2>1, <2>2, <4>1, MetaStays DEF Others
    <3>3. meta' = meta \/ Carries(t, Me(t))
      BY <1>5, PCsApart DEF Hands, Claimed, MetaCame, PlanRead, MetaRead, HandedOut, CutOff,
         MetaBack, PlanBack, Step, Carries
    <3> QED BY <3>1, <3>2, <3>3
  <2>3. MetaAt(t)'
    <3>1. CASE Claimed(t)
      BY <1>0, <2>1, <3>1 DEF Claimed, Step, MetaAt, Me, Own
    <3>2. CASE MetaCame(t)
      <4>1. thr[t].x = 0 /\ meta.inputs[Me(t)] = Own
        BY <1>0, <3>2, Typed DEF MetaCame, Step, MetaAt, Place
      <4> QED BY <1>0, <3>2, <4>1 DEF MetaCame, Step, MetaAt, Me, Own
    <3>3. CASE PlanRead(t)
      BY <1>0, <3>3 DEF PlanRead, Step, MetaAt, Me, Own
    <3>4. CASE MetaRead(t)
      BY <1>0, <3>4 DEF MetaRead, Step, MetaAt, Me, Own
    <3>5. CASE CutOff(t)
      BY <1>0, <3>5 DEF CutOff, Step, MetaAt, Me, Own
    <3>6. CASE MetaBack(t)
      BY <1>0, <3>6 DEF MetaBack, Step, MetaAt, Me, Own
    <3>7. CASE thr'[t].pc = "idle"
      BY <3>7 DEF MetaAt
    <3> QED BY <1>5, <3>1, <3>2, <3>3, <3>4, <3>5, <3>6, <3>7 DEF Hands, HandedOut, PlanBack, Step
  <2>4. ASSUME NEW d \in Digests, fs'.inputs[d].n # 0 PROVE meta'.inputs[d] = Own
    <3>1. CASE d # Me(t)
      BY <1>0, <2>1, <2>4, <3>1
    <3>2. CASE d = Me(t)
      <4>1. CASE SamePlans
        <5>1. fs.inputs[d].n # 0 /\ ~Carries(t, d)
          BY <1>0, <2>4, <4>1 DEF SamePlans, OnceFor
        <5>2. meta' = meta
          BY <1>5, <3>2, <5>1, PCsApart DEF Hands, Claimed, MetaCame, PlanRead, MetaRead,
             HandedOut, CutOff, MetaBack, PlanBack, Step, Carries
        <5> QED BY <1>0, <5>1, <5>2
      <4>2. CASE Claimed(t)
        BY <2>4, <3>2, <4>2 DEF Claimed
      <4>3. CASE PlanBack(t)
        BY <1>0, <3>2, <4>3 DEF PlanBack, Step, MetaAt
      <4> QED BY <1>5, <4>1, <4>2, <4>3 DEF Hands, MetaCame, PlanRead, MetaRead, HandedOut, CutOff,
                MetaBack
    <3> QED BY <3>1, <3>2
  <2>5. \A r \in hist'.delivered : r.n = 1 /\ r.meta = {1} \cap MetaSubs
    <3>1. CASE HandedOut(t)
      <4>1. thr[t].n = 1 /\ thr[t].rows = {1} \cap MetaSubs
        BY <1>0, <3>1 DEF HandedOut, Step, MetaAt, OnceAt
      <4> QED BY <1>0, <3>1, <4>1 DEF HandedOut
    <3>2. CASE ~HandedOut(t)
      BY <1>0, <1>5, <3>2 DEF Hands, Claimed, MetaCame, PlanRead, MetaRead, CutOff, MetaBack,
         PlanBack, SameAnswers
    <3> QED BY <3>1, <3>2
  <2> QED BY <2>2, <2>3, <2>4, <2>5
<1> QED BY <1>1, <1>2, <1>3, <1>4, <1>5, StepsDo

-----------------------------------------------------------------------------
(* GET /jobs *)

\* What a listing has looked for and not found is no longer there.
ListAt(t) ==
    /\ thr[t].pc \in ListPCs => \A r \in thr[t].seen : r[2] <= hist.subs[r[1]]
    /\ thr[t].pc = "j_done" =>
         \A r \in thr[t].seen : r[2] = hist.subs[r[1]] =>
           r[1] \in thr[t].rows \/ fs.inputs[r[1]].n = 0
    /\ thr[t].pc = "j_outputs" =>
         \A r \in thr[t].seen : r[2] = hist.subs[r[1]] =>
           r[1] \in thr[t].rows \/ (fs.inputs[r[1]].n = 0 /\ fs.done[r[1]].n = 0)

ListInv == "rollback" \notin ServerOps => ~hist.missed /\ \A t \in Threads : ListAt(t)

\* A plan only moves on, as long as its digest is not submitted again.
Onward ==
    \A d \in Digests :
      /\ hist'.subs[d] \in Int /\ hist.subs[d] \in Int
      /\ hist'.subs[d] >= hist.subs[d]
      /\ hist'.subs[d] = hist.subs[d] =>
           /\ fs'.inputs[d].n # 0 => fs.inputs[d].n # 0
           /\ fs'.done[d].n # 0 => fs.done[d].n # 0 \/ fs.inputs[d].n # 0

\* Without a rollback plans move on only.
LEMMA OnwardNext ==
  ASSUME Inv, OneWay, "rollback" \notin ServerOps, [Next]_vars
  PROVE  Onward
<1>0. \A d \in Digests : hist.subs[d] \in Int
  BY Typed, StoreAssumption DEF Sub0
<1>1. CASE SamePlans /\ SameAnswers
  BY <1>0, <1>1 DEF SamePlans, SameAnswers, Onward
<1>2. ASSUME NEW t \in Threads, Withdraws(t) PROVE Onward
  BY <1>0, <1>2 DEF Withdraws, Onward
<1>3. ASSUME NEW t \in Threads, Queues(t) PROVE Onward
  BY <1>0, <1>3 DEF Queues, Onward
<1>4. ASSUME NEW t \in Threads, Hands(t) PROVE Onward
  <2>1. CASE Claimed(t)
    BY <1>0, <2>1 DEF Claimed, Step, Onward
  <2>2. ~PlanBack(t)
    BY DEF OneWay, PlanBack, Step
  <2>3. CASE MetaCame(t) \/ PlanRead(t) \/ MetaRead(t) \/ HandedOut(t) \/ CutOff(t) \/ MetaBack(t)
    <3>1. SamePlans /\ hist'.subs = hist.subs
      BY <2>3 DEF MetaCame, PlanRead, MetaRead, HandedOut, CutOff, MetaBack, Step
    <3> QED BY <1>0, <3>1 DEF SamePlans, Onward
  <2> QED BY <1>4, <2>1, <2>2, <2>3 DEF Hands
<1> QED BY <1>1, <1>2, <1>3, <1>4, StepsDo DEF Aside, Checks

\* Steps of the other handlers.
LEMMA NoNews ==
  ASSUME Inv, [Next]_vars, \A t \in Threads : ~Listing(t)
  PROVE  Unlisted
<1>1. ASSUME NEW t \in Threads, Others(t), thr'[t].pc \notin ListPCs, hist'.missed = hist.missed
      PROVE  Unlisted
  BY <1>1 DEF Unlisted, Others
<1>2. ASSUME NEW t \in Threads, Withdraws(t) PROVE Unlisted
  BY <1>1, <1>2 DEF Withdraws, WithdrawPCs, CancelPCs, DeletePCs, PrunePCs, ListPCs
<1>3. ASSUME NEW t \in Threads, Checks(t) PROVE Unlisted
  <2>1. thr'[t].pc \notin ListPCs
    BY <1>3 DEF Checks, ListPCs
  <2> QED BY <1>1, <1>3, <2>1 DEF Checks
<1>4. ASSUME NEW t \in Threads, Queues(t) PROVE Unlisted
  BY <1>1, <1>4 DEF Queues, ListPCs
<1>5. ASSUME NEW t \in Threads, Hands(t) PROVE Unlisted
  <2>1. Others(t) /\ thr'[t].pc \in PickupPCs \cup {"idle"} /\ hist'.missed = hist.missed
    BY <1>5 DEF Hands, Claimed, MetaCame, PlanRead, MetaRead, HandedOut, CutOff, MetaBack, PlanBack,
       Step, PickupPCs
  <2> QED BY <1>1, <2>1 DEF PickupPCs, ListPCs
<1> QED BY <1>2, <1>3, <1>4, <1>5, StepsDo DEF Aside

\* A listing under way stays right, whatever the step is.
LEMMA ListStays ==
  ASSUME Inv, Onward, NEW t \in Threads, ListAt(t), thr'[t] = thr[t]
  PROVE  ListAt(t)'
<1>1. \A r \in thr[t].seen : r[1] \in Digests /\ r[2] \in Int
  BY Typed, StoreAssumption DEF Runs, Subs
<1>2. ASSUME thr[t].pc \in ListPCs, NEW r \in thr[t].seen
      PROVE  /\ r[2] <= hist'.subs[r[1]]
             /\ r[2] = hist'.subs[r[1]] =>
                  /\ r[2] = hist.subs[r[1]]
                  /\ fs'.inputs[r[1]].n # 0 => fs.inputs[r[1]].n # 0
                  /\ fs'.done[r[1]].n # 0 => fs.done[r[1]].n # 0 \/ fs.inputs[r[1]].n # 0
  <2>1. r[2] <= hist.subs[r[1]]
    BY <1>2 DEF ListAt
  <2> QED BY <1>1, <2>1 DEF Onward
<1> QED BY <1>2 DEF ListAt, ListPCs

\* A listing catches a plan wherever it moves.
LEMMA ListNext == Inv /\ OneWay /\ ListInv /\ [Next]_vars => ListInv'
<1> SUFFICES ASSUME Inv, OneWay, ListInv, [Next]_vars, "rollback" \notin ServerOps
             PROVE  ~hist'.missed /\ \A t \in Threads : ListAt(t)'
  <2>1. ASSUME Inv, [Next]_vars PROVE hist'.ops = hist.ops
    BY <2>1, OpsStay
  <2> QED BY <2>1 DEF ListInv, ServerOps
<1>0. ~hist.missed /\ (\A t \in Threads : ListAt(t)) /\ Onward
  BY OnwardNext DEF ListInv
<1>1. CASE Unlisted
  <2>1. ASSUME NEW t \in Threads PROVE ListAt(t)'
    <3>1. CASE thr'[t].pc \in ListPCs
      BY <1>0, <1>1, <3>1, ListStays DEF Unlisted
    <3>2. CASE thr'[t].pc \notin ListPCs
      BY <3>2 DEF ListAt, ListPCs
    <3> QED BY <3>1, <3>2
  <2> QED BY <1>0, <1>1, <2>1 DEF Unlisted
<1>2. ASSUME NEW t \in Threads, Others(t), ListAt(t)', hist'.missed = hist.missed
      PROVE  ~hist'.missed /\ \A u \in Threads : ListAt(u)'
  BY <1>0, <1>2, ListStays DEF Others
<1>3. \A r \in OnRecord :
        /\ r[1] \in Digests /\ r[2] \in Int /\ r[2] = hist.subs[r[1]]
        /\ fs.inputs[r[1]].n # 0 \/ fs.done[r[1]].n # 0 \/ HasOutput(fs, r[1])
  BY StoreAssumption DEF OnRecord, Runs, Subs, Queued, PickedUp
<1>4. ASSUME NEW t \in Threads, ListStart(t)
      PROVE  ~hist'.missed /\ \A u \in Threads : ListAt(u)'
  <2>1. thr' = [thr EXCEPT ![t] = [Idle EXCEPT !.pc = "j_inputs", !.seen = OnRecord]] /\ Reads
    BY <1>4 DEF ListStart
  <2>2. Others(t) /\ thr'[t].pc = "j_inputs" /\ thr'[t].seen = OnRecord
    BY <2>1, PCsDistinct, Typed DEF Others, ThrRecord
  <2>3. ListAt(t)'
    BY <1>3, <2>1, <2>2 DEF ListAt, Reads
  <2> QED BY <1>2, <2>1, <2>2, <2>3 DEF Reads
<1>5. ASSUME NEW t \in Threads, ListPlans(t), UNCHANGED <<fs, meta, lock, poller>>
      PROVE  ~hist'.missed /\ \A u \in Threads : ListAt(u)'
  <2>1. CASE ListFiles(t, "j_inputs", "j_done", {d \in Digests : Queued(fs, d)})
    <3> DEFINE queued == {d \in Digests : Queued(fs, d)}
    <3>1. /\ Others(t) /\ hist' = hist /\ thr'[t].pc = "j_done"
          /\ thr'[t].rows = thr[t].rows \cup queued /\ thr'[t].seen = thr[t].seen \cap OnRecord
      <4>1. "j_inputs" \in ListPCs /\ "j_done" \in ListPCs /\ queued \in SUBSET Digests
        BY DEF ListPCs
      <4> HIDE DEF queued
      <4>2. ListFiles(t, "j_inputs", "j_done", queued)
        BY <2>1 DEF queued
      <4> QED BY ONLY <4>1, <4>2, ListDoes, Inv, t \in Threads
    <3>2. ListAt(t)'
      BY <1>3, <1>5, <3>1 DEF ListAt, Queued
    <3> QED BY <1>2, <3>1, <3>2
  <2>2. CASE ListFiles(t, "j_done", "j_outputs", {d \in Digests : PickedUp(fs, d)})
    <3> DEFINE claimed == {d \in Digests : PickedUp(fs, d)}
    <3>1. /\ Others(t) /\ hist' = hist /\ thr'[t].pc = "j_outputs" /\ thr[t].pc = "j_done"
          /\ thr'[t].rows = thr[t].rows \cup claimed /\ thr'[t].seen = thr[t].seen \cap OnRecord
      <4>1. "j_done" \in ListPCs /\ "j_outputs" \in ListPCs /\ claimed \in SUBSET Digests
        BY DEF ListPCs
      <4> HIDE DEF claimed
      <4>2. ListFiles(t, "j_done", "j_outputs", claimed)
        BY <2>2 DEF claimed
      <4> QED BY ONLY <4>1, <4>2, ListDoes, Inv, t \in Threads
    <3>2. ListAt(t)'
      <4>1. ListAt(t)
        BY <1>0
      <4> QED BY <1>3, <1>5, <3>1, <4>1 DEF ListAt, PickedUp
    <3> QED BY <1>2, <3>1, <3>2
  <2> QED BY <1>5, <2>1, <2>2 DEF ListPlans
<1>6. ASSUME NEW t \in Threads, ListOutputs(t), UNCHANGED <<fs, meta, lock, poller>>
      PROVE  ~hist'.missed /\ \A u \in Threads : ListAt(u)'
  <2> DEFINE rows == thr[t].rows \cup {d \in Digests : HasOutput(fs, d)}
  <2>1. /\ thr[t].pc = "j_outputs" /\ Return(t)
        /\ hist' = [hist EXCEPT !.missed = @ \/ \E r \in thr[t].seen \cap OnRecord : r[1] \notin rows]
    BY <1>6 DEF ListOutputs, At
  <2>2. ~\E r \in thr[t].seen \cap OnRecord : r[1] \notin rows
    BY <1>0, <1>3, <2>1 DEF ListAt
  <2> HIDE DEF rows
  <2>3. hist'.missed <=> hist.missed
    BY <2>1, <2>2, Typed DEF HistRecord
  <2>4. Others(t) /\ thr'[t].pc = "idle"
    BY <2>1, ReturnDoes, PCsDistinct, Typed
  <2>5. ListAt(t)'
    BY <2>4 DEF ListAt, ListPCs
  <2>6. \A u \in Threads : ListAt(u)'
    BY <1>0, <2>4, <2>5, ListStays DEF Others
  <2> QED BY <1>0, <2>3, <2>6
<1> QED BY <1>1, <1>4, <1>5, <1>6, NoNews DEF Listing, ListStep

-----------------------------------------------------------------------------
(* The theorems *)

AllInv == /\ Inv /\ Kept /\ OneWay /\ NoneTaken
          /\ OnceInv /\ MetaInv /\ ListInv

\* All parts hold at the start.
LEMMA AllInit == Init => AllInv
<1> SUFFICES ASSUME Init PROVE AllInv
  OBVIOUS
<1>1. /\ \A t \in Threads : thr[t] = Idle /\ thr[t].pc = "idle"
      /\ \A d \in Digests : /\ hist.subs[d] = 0 /\ fs.inputs[d].n = 0 /\ fs.done[d].n = 0
      /\ hist.unqueued = {} /\ hist.delivered = {} /\ ~hist.missed
  BY PCsDistinct, Values DEF Init, EmptyDirectory
<1>2. Kept
  BY <1>1, PCsApart DEF Kept, PlanKept
<1>3. OneWay
  BY <1>1, StoreAssumption DEF OneWay, OneWayFor, Away, Subs
<1>4. NoneTaken
  BY <1>1 DEF NoneTaken
<1>5. OnceInv
  BY <1>1, PCsApart DEF OnceInv, OnceFor, OnceAt, Given, Taken, Carries
<1>6. MetaInv
  BY <1>1 DEF MetaInv, MetaAt
<1>7. ListInv
  BY <1>1 DEF ListInv, ListAt, ListPCs
<1> QED BY <1>2, <1>3, <1>4, <1>5, <1>6, <1>7, InvInit DEF AllInv

\* The states the handlers reach, for any number of threads, digests and
\* submissions: whoever is inside queue_job holds _submit_lock, and the parts
\* above.
THEOREM HandlersInvariant == Spec => []AllInv
<1>1. AllInv /\ [Next]_vars => AllInv'
  BY InvNext, KeptNext, OneWayNext, NoneTakenNext, OnceNext, MetaNext, ListNext DEF AllInv
<1> QED BY <1>1, AllInit, PTL DEF Spec

\* The handlers of server.py never leave the states the model describes.
THEOREM HandlersStayTyped == Spec => []TypeOK
<1>1. AllInv => TypeOK
  BY DEF AllInv, Inv
<1> QED BY <1>1, HandlersInvariant, PTL

\* A transfer that fails half-way, however it falls among the other handlers,
\* loses no plan: _pickup and _rollback_pickup of server.py.
THEOREM PlansAreKept == Spec => []PlanKept
<1>1. AllInv => PlanKept
  BY DEF AllInv, Kept, Quiet, PlanKept
<1> QED BY <1>1, HandlersInvariant, PTL

\* A job on record during a whole GET /jobs is in the answer: _list_jobs looks
\* at INPUTS, DONE and OUTPUTS in the order in which a plan moves.
THEOREM JobsAreListed == Spec => []JobAlwaysListed
<1>1. AllInv => JobAlwaysListed
  BY DEF AllInv, ListInv, JobAlwaysListed
<1> QED BY <1>1, HandlersInvariant, PTL

\* A plan answered canceled_queued is never handed out, if there are not failing
\* transfers, cancels and second submissions all at once.
THEOREM CanceledStaysQueued ==
  ASSUME \A ops \in Traffic : ~({"rollback", "cancel", "resubmit"} \subseteq ops)
  PROVE  Spec => []CanceledQueuedNotDelivered
<1>1. AllInv => CanceledQueuedNotDelivered
  <2> SUFFICES ASSUME AllInv, NEW r \in hist.delivered, <<r.d, r.n>> \in hist.unqueued
               PROVE  FALSE
    BY DEF CanceledQueuedNotDelivered
  <2>1. ServerOps \in Traffic /\ r.d \in Digests /\ r.n \in Subs
    BY Typed DEF AllInv, HistRecord, ServerOps, Delivery
  <2>2. CASE "rollback" \notin ServerOps
    BY <2>1, <2>2 DEF AllInv, OneWay, OneWayFor, Away
  <2>3. CASE "cancel" \notin ServerOps
    BY <2>3 DEF AllInv, NoneTaken
  <2>4. CASE "resubmit" \notin ServerOps
    <3>1. OnceFor(r.d)
      BY <2>1, <2>4 DEF AllInv, OnceInv, Once
    <3>2. Given(r.d) /\ Taken(r.d)
      BY DEF Given, Taken
    <3> QED BY <3>1, <3>2 DEF OnceFor
  <2> QED BY <2>1, <2>2, <2>3, <2>4
<1> QED BY <1>1, HandlersInvariant, PTL

\* Where nobody withdraws a plan, either no transfer fails or nobody submits a
\* digest a second time.
NoRoomForTwo ==
  \A ops \in Traffic : ops \cap Withdrawals = {} => ~({"rollback", "resubmit"} \subseteq ops)

\* Such a mix submits a digest once at most.
LEMMA QuietMeansOnce ==
  ASSUME NoRoomForTwo, AllInv, Quiet
  PROVE  Once
<1>1. ServerOps \in Traffic
  BY Typed DEF AllInv, HistRecord, ServerOps
<1> QED BY <1>1 DEF NoRoomForTwo, Quiet, Once

\* The rename of _pickup hands a plan to one poller only.
THEOREM PlansGoOutOnce ==
  ASSUME NoRoomForTwo
  PROVE  Spec => DeliveredOnce
<1>1. AllInv /\ [Next]_vars =>
        [Quiet => \A r \in hist'.delivered \ hist.delivered :
                    \A q \in hist.delivered : <<q.d, q.n>> # <<r.d, r.n>>]_vars
  <2> SUFFICES ASSUME AllInv, [Next]_vars, Quiet, NEW r \in hist'.delivered \ hist.delivered,
                      NEW q \in hist.delivered, q.d = r.d
               PROVE  FALSE
    OBVIOUS
  <2>1. PICK t \in Threads : HandedOut(t)
    BY StepsDo DEF AllInv, Aside, SameAnswers, Withdraws, Checks, Queues, Hands, Claimed, MetaCame,
       PlanRead, MetaRead, CutOff, MetaBack, PlanBack
  <2>2. r.d = Me(t) /\ Me(t) \in Digests /\ Carries(t, Me(t))
    BY <2>1, PCsApart DEF HandedOut, Step, Carries
  <2>3. OnceFor(Me(t)) /\ Given(Me(t))
    BY <2>2, QuietMeansOnce DEF AllInv, OnceInv, Given
  <2> QED BY <2>2, <2>3 DEF OnceFor
<1> QED BY <1>1, HandlersInvariant, PTL DEF Spec, DeliveredOnce, Quiet

\* A poller gets with a plan the headers it was submitted with: queue_job writes
\* them before the plan, _pickup moves and _rollback_pickup returns both.
THEOREM MetaComesAlong ==
  ASSUME NoRoomForTwo
  PROVE  Spec => []MetaIsOwn
<1>1. AllInv => MetaIsOwn
  BY QuietMeansOnce DEF AllInv, MetaInv, MetaIsOwn, Quiet
<1> QED BY <1>1, HandlersInvariant, PTL
=============================================================================
