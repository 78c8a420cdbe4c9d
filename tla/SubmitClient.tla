---------------------------- MODULE SubmitClient ----------------------------
(***************************************************************************)
(* The programs agents run, submit.py and run_md.py, against the job       *)
(* system: submit a plan, wait for its artefact, deliver it, delete it     *)
(* from the server.  Each request is one step; between two requests of a   *)
(* client anything may happen to the job, other clients of the same plan   *)
(* included, and requests name a digest, never a submission.               *)
(*                                                                         *)
(*   submit  submit.py PLAN --wait        fetch  submit.py --fetch DIGEST  *)
(*   md      run_md.py                    fresh  run_md.py --fresh         *)
(***************************************************************************)
EXTENDS JobSystem

CONSTANTS
    Clients,
    Kinds,       \* which of the four programs there are
    MaxBlips     \* bound: transport failures clients see

ASSUME ClientAssumption ==
    /\ Kinds \subseteq {"submit", "fetch", "md", "fresh"}
    /\ MaxBlips \in Nat

VARIABLES
    client,    \* each client: program, position, its submission, its artefact
    blips,     \* transport failures so far
    meddled    \* somebody canceled, deleted, pruned or wiped jobs by hand

clientVars == <<client, blips, meddled>>
allVars    == <<vars, clientVars>>

ClientPCs == {"post", "head", "get", "known", "clear", "repost", "deliver", "delete", "end"}
Exits     == {"none", "ok", "stale", "duplicate", "gone", "timeout", "error"}
ArtOrNone == Artefact \cup {NoArt}

\* n: the submission the server accepted from it (0: none); kept: the
\* artefact is on the agent's disk.
NewClient(kind, d) ==
    [kind |-> kind, d |-> d, pc |-> IF kind = "fetch" THEN "get" ELSE "post",
     n |-> 0, tar |-> NoArt, kept |-> FALSE, exit |-> "none"]

Waits(c) == client[c].n # 0        \* inside the loop of _wait
RunMd(c) == client[c].kind \in {"md", "fresh"}
At(c, pc) == client[c].pc = pc

Goto(c, pc)  == client' = [client EXCEPT ![c].pc = pc]
End(c, exit) == client' = [client EXCEPT ![c].pc = "end", ![c].exit = exit]

\* What a client does besides its request touches neither server nor poller.
Local     == UNCHANGED <<vars, blips, meddled>>
Serves(f) == /\ store' = f
             /\ UNCHANGED <<late, procVars, disk, net, blips, meddled>>

-----------------------------------------------------------------------------
(* POST /submit *)

Accepted(c, pc) ==
    LET d == client[c].d IN
    /\ At(c, pc) /\ ~Refuses(store, d) /\ hist.subs[d] < MaxSubs
    /\ Serves(QueueJob(store, d, hist.subs[d] + 1))
    /\ hist' = [hist EXCEPT !.subs[d] = @ + 1]
    /\ client' = [client EXCEPT ![c].pc = "head", ![c].n = hist.subs[d] + 1]

\* 409 stale_outputs: submit.py asks for a --fetch, run_md.py takes the old
\* artefact or, told to run afresh, removes it; a second one is an error.
StaleOutputs(c) ==
    /\ client[c].pc \in {"post", "repost"}
    /\ ~QueueFull(store) /\ HasOutput(store, client[c].d)
    /\ CASE client[c].kind = "submit" -> End(c, "stale")
         [] client[c].kind = "md"     -> Goto(c, "get")
         [] At(c, "post") /\ client[c].kind = "fresh"   -> Goto(c, "clear")
         [] At(c, "repost")                             -> End(c, "error")
    /\ Local

\* 409 duplicate, or 429: nobody waits for a job it did not submit.
SubmitRefused(c) ==
    /\ client[c].pc \in {"post", "repost"}
    /\ Refuses(store, client[c].d)
    /\ QueueFull(store) \/ ~HasOutput(store, client[c].d)
    /\ End(c, IF QueueFull(store) \/ RunMd(c) THEN "error" ELSE "duplicate")
    /\ Local

-----------------------------------------------------------------------------
(* _wait: HEAD, then GET the artefact or look whether the job is still there *)

HeadTar(c) ==
    /\ At(c, "head")
    /\ Goto(c, IF HasOutput(store, client[c].d) THEN "get" ELSE "known")
    /\ Local

\* _get_tar, in _wait, for --fetch, and for the old artefact of run_md.py.
GetTar(c) ==
    /\ At(c, "get")
    /\ LET a == store.outputs[client[c].d] IN
         IF a = NoArt THEN End(c, "gone")
                      ELSE client' = [client EXCEPT ![c].tar = a, ![c].pc = "deliver"]
    /\ Local

Listed(f, d) == Queued(f, d) \/ PickedUp(f, d) \/ HasOutput(f, d)

\* Mutant: a job that is gone is waited for.
BugJobKnown(c) == At(c, "known") /\ Goto(c, "head") /\ Local

\* _job_known: a job that GET /jobs no longer lists will have no artefact.
JobKnown(c) ==
    /\ At(c, "known")
    /\ IF Listed(store, client[c].d) THEN Goto(c, "head") ELSE End(c, "gone")
    /\ Local

\* The time given with --wait is over.
Deadline(c) == At(c, "head") /\ End(c, "timeout") /\ Local

-----------------------------------------------------------------------------
(* The artefact in hand *)

\* Mutant: submit.py deletes first and dumps afterwards.
BugDeliver(c) ==
    /\ At(c, "deliver")
    /\ Goto(c, "delete")
    /\ Local

\* _dump_outputs, or _deliver.
Deliver(c) ==
    /\ At(c, "deliver")
    /\ client' = [client EXCEPT ![c].pc = "delete", ![c].kept = TRUE]
    /\ Local

\* The directory is not empty, the disk is full: submit.py leaves the artefact
\* on the server, run_md.py deletes it all the same (finally).
DeliverFails(c) ==
    /\ At(c, "deliver")
    /\ IF RunMd(c) THEN client' = [client EXCEPT ![c].pc = "delete", ![c].exit = "error"]
                   ELSE End(c, "error")
    /\ Local

\* DELETE /outputs/<digest>: whatever lies there now.
DeleteTar(c) ==
    /\ client[c].pc \in {"delete", "clear"}
    /\ Serves(DeleteOutputs(store, client[c].d, TRUE))
    /\ IF At(c, "clear") THEN Goto(c, "repost")
       ELSE End(c, IF client[c].exit = "none" THEN "ok" ELSE client[c].exit)
    /\ UNCHANGED hist

-----------------------------------------------------------------------------
(* A request that fails, before or after it was served *)

Blip == blips < MaxBlips /\ blips' = blips + 1 /\ UNCHANGED meddled

\* RuntimeError, URLError, ConnectionError: the loop of _wait goes on,
\* everything else ends.
RequestFails(c) ==
    /\ Blip /\ client[c].pc \in {"post", "repost", "head", "get", "known", "delete", "clear"}
    /\ IF Waits(c) /\ client[c].pc \in {"head", "get", "known"}
         THEN Goto(c, "head") ELSE End(c, "error")
    /\ UNCHANGED vars

\* The answer to a request that changed the server is lost.
AnswerLost(c) ==
    LET d == client[c].d IN
    /\ Blip
    /\ \/ /\ client[c].pc \in {"post", "repost"}
          /\ ~Refuses(store, d) /\ hist.subs[d] < MaxSubs
          /\ store' = QueueJob(store, d, hist.subs[d] + 1)
          /\ hist' = [hist EXCEPT !.subs[d] = @ + 1]
       \/ /\ client[c].pc \in {"delete", "clear"}
          /\ store' = DeleteOutputs(store, d, TRUE)
          /\ UNCHANGED hist
    /\ End(c, "error")
    /\ UNCHANGED <<late, procVars, disk, net>>

\* The body of an answer ends early: http.client.IncompleteRead is none of the
\* exceptions the loop of _wait goes on after.
BodyCut(c) ==
    /\ Blip /\ client[c].pc \in {"get", "known"}
    /\ End(c, "error")
    /\ UNCHANGED vars

\* 503 from a server whose threads are all at work: an HTTPError, over which
\* only a delete passes.
ServerBusy(c) ==
    /\ Blip
    /\ \/ At(c, "clear") /\ Goto(c, "repost")
       \/ At(c, "delete") /\ End(c, IF client[c].exit = "none" THEN "ok" ELSE client[c].exit)
       \/ client[c].pc \in {"post", "repost", "head", "get", "known"} /\ End(c, "error")
    /\ UNCHANGED vars

-----------------------------------------------------------------------------
ClientStep(c) ==
    \/ Accepted(c, "post") \/ Accepted(c, "repost")
    \/ StaleOutputs(c) \/ SubmitRefused(c)
    \/ HeadTar(c) \/ GetTar(c) \/ JobKnown(c)
    \/ Deliver(c) \/ DeleteTar(c)

ClientInit ==
    /\ Init
    /\ client \in [Clients -> {NewClient(k, d) : k \in Kinds, d \in Digests}]
    /\ blips = 0
    /\ meddled = FALSE

ClientNext ==
    \/ System /\ UNCHANGED clientVars
    \/ Users /\ meddled' = TRUE /\ UNCHANGED <<client, blips>>
    \/ \E c \in Clients :
         \/ ClientStep(c) \/ Deadline(c) \/ DeliverFails(c)
         \/ RequestFails(c) \/ AnswerLost(c) \/ BodyCut(c) \/ ServerBusy(c)

ClientSpec == ClientInit /\ [][ClientNext]_allVars

\* A client runs; nobody promises that its time runs out.
ClientFairSpec == ClientSpec /\ Fairness /\ \A c \in Clients : WF_allVars(ClientStep(c))

-----------------------------------------------------------------------------
(* Properties *)

\* A client that waits for its submission never gets the artefact of an
\* earlier one, whoever else submits, fetches and deletes the same plan.
ResultNotOlder ==
    \A c \in Clients : Waits(c) /\ client[c].tar # NoArt => client[c].tar.n >= client[c].n

\* An artefact that was on the server is there still, unless some client has it on
\* disk, or run_md.py failed to write it and deleted it all the same.  (With
\* --fresh, or a third client, a delete can hit the next submission's artefact.)
ResultKept ==
    (\A c \in Clients : client[c].kind # "fresh") =>
      \A r \in hist.published :
        \/ store.outputs[r[1]].n = r[2]
        \/ \E c \in Clients : /\ client[c].d = r[1] /\ client[c].tar.n = r[2]
                              /\ client[c].kept \/ client[c].exit = "error"

\* Whatever becomes of a job, canceled, deleted, pruned or run, nobody waits for
\* it for ever, not even without a deadline.
WaitEnds == \A c \in Clients : Waits(c) ~> At(c, "end")

\* A submitted plan comes back: whoever waits for it gets its artefact, through the
\* death of the poller too, unless its own time or connection ends, or somebody
\* else removes the job.
WaitIsServed ==
    \A c \in Clients :
        Waits(c) ~> \/ client[c].tar # NoArt
                    \/ client[c].exit \in {"timeout", "error"}
                    \/ \E b \in Clients \ {c} : client[b].tar # NoArt
                    \/ meddled
=============================================================================
