------------------------- MODULE SubmitClientProofs -------------------------
(***************************************************************************)
(* Theorems about SubmitClient: the job system with any number of agents'  *)
(* programs at work on it.                                                 *)
(***************************************************************************)
EXTENDS SubmitClient, JobSystemProofs

-----------------------------------------------------------------------------
(* A client by itself *)

Programs == [kind : {"submit", "fetch", "md", "fresh"}, d : Digests, pc : ClientPCs, n : Sub0,
             tar : ArtOrNone, kept : BOOLEAN, exit : Exits]

\* What a place in submit.py or run_md.py says of the locals.
Standing(k) ==
    /\ k.pc \in {"post", "clear", "repost"} => k.n = 0 /\ k.kind # "fetch"
    /\ k.pc \in {"clear", "repost"} => k.kind = "fresh"
    /\ k.pc \notin {"deliver", "delete", "end"} => k.tar = NoArt
    /\ k.pc \in {"deliver", "delete"} => k.tar # NoArt
    /\ k.pc \notin {"delete", "end"} => k.exit = "none" /\ ~k.kept
    /\ k.pc = "delete" => k.kept \/ k.exit = "error"

Aboard == client \in [Clients -> Programs] /\ \A c \in Clients : Standing(client[c])

\* An agent has the artefact, or its program failed on it.
Safe(k) == k.kept \/ k.exit = "error"

-----------------------------------------------------------------------------
(* What a step of a client does *)

\* It goes on from k to l ...
Goes(c, l) ==
    /\ l \in Programs /\ Standing(l)
    /\ client' = [client EXCEPT ![c] = l]
    /\ l.kind = client[c].kind /\ l.d = client[c].d
    /\ client[c].pc # "end"

\* ... and looks only, takes the artefact, has submitted, or has deleted.
Looks(c, l) ==
    /\ Goes(c, l) /\ UNCHANGED vars
    /\ l.n = client[c].n /\ l.tar = client[c].tar
    /\ l.pc \in {"deliver", "delete"} => client[c].pc = "deliver"
    /\ Safe(client[c]) => Safe(l)

Takes(c, l) ==
    /\ Goes(c, l) /\ UNCHANGED vars
    /\ l.n = client[c].n /\ client[c].pc = "get"
    /\ l.tar = store.outputs[l.d] /\ l.tar # NoArt

Submitted(c, l) ==
    /\ Goes(c, l) /\ Plans(l.d)
    /\ l.n = client[c].n \/ l.n = hist.subs[l.d] + 1
    /\ l.pc \in {"head", "end"} /\ l.tar = NoArt /\ client[c].tar = NoArt
    /\ client[c].pc \in {"post", "repost"}

Deleted(c, l) ==
    /\ Goes(c, l) /\ Deletes(l.d, TRUE)
    /\ l.n = client[c].n /\ l.tar = client[c].tar
    /\ \/ client[c].pc = "delete" /\ l.pc = "end" /\ Safe(l)
       \/ client[c].pc = "clear" /\ l.pc \in {"repost", "end"}

Acts(c) == \E l \in Programs : Looks(c, l) \/ Takes(c, l) \/ Submitted(c, l) \/ Deleted(c, l)

\* A new position, and an end.
LEMMA GotoGoes ==
  ASSUME Aboard, NEW c \in Clients, NEW pc \in ClientPCs, Goto(c, pc)
  PROVE  /\ [client[c] EXCEPT !.pc = pc] \in Programs
         /\ client' = [client EXCEPT ![c] = [client[c] EXCEPT !.pc = pc]]
  BY DEF Aboard, Goto, Programs

\* An end.
LEMMA EndGoes ==
  ASSUME Aboard, NEW c \in Clients, NEW exit \in Exits, End(c, exit), client[c].pc # "end",
         client[c].pc = "delete" => client[c].kept \/ exit = "error"
  PROVE  \E l \in Programs : /\ Goes(c, l) /\ l.n = client[c].n /\ l.tar = client[c].tar
                             /\ l.pc = "end" /\ l.exit = exit /\ l.kept = client[c].kept
                             /\ Safe(client[c]) => Safe(l)
                             /\ client[c].pc = "delete" => Safe(l)
<1> DEFINE l == [client[c] EXCEPT !.pc = "end", !.exit = exit]
<1>1. client[c] \in Programs /\ Standing(client[c])
  BY DEF Aboard
<1>2. /\ l \in Programs /\ l.pc = "end" /\ l.exit = exit /\ l.kept = client[c].kept
      /\ l.n = client[c].n /\ l.tar = client[c].tar /\ l.kind = client[c].kind /\ l.d = client[c].d
  BY <1>1 DEF Programs, ClientPCs
<1>3. client' = [client EXCEPT ![c] = l]
  BY DEF End, Aboard
<1> HIDE DEF l
<1>4. Standing(l)
  BY <1>2 DEF Standing
<1>5. Safe(client[c]) => Safe(l)
  BY <1>1, <1>2 DEF Safe, Standing
<1>6. client[c].pc = "delete" => Safe(l)
  BY <1>2 DEF Safe
<1> QED BY <1>2, <1>3, <1>4, <1>5, <1>6 DEF Goes

\* Requests that only look,
LEMMA LooksDo ==
  ASSUME Aboard, store \in Directory, NEW c \in Clients,
         StaleOutputs(c) \/ SubmitRefused(c) \/ HeadTar(c) \/ GetTar(c) \/ JobKnown(c) \/ Deadline(c)
  PROVE  Acts(c)
<1> DEFINE k == client[c]
<1>1. k \in Programs /\ Standing(k) /\ k.d \in Digests
  BY DEF Aboard, Programs
<1>2. UNCHANGED vars
  BY DEF StaleOutputs, SubmitRefused, HeadTar, GetTar, JobKnown, Deadline, Local
<1>3. k.pc \in {"post", "repost", "head", "get", "known"} /\ k.tar = NoArt /\ ~Safe(k)
  BY <1>1 DEF StaleOutputs, SubmitRefused, HeadTar, GetTar, JobKnown, Deadline, At, Standing, Safe
<1>4. ASSUME NEW exit \in Exits, End(c, exit) PROVE Acts(c)
  <2>1. PICK l \in Programs : Goes(c, l) /\ l.n = k.n /\ l.tar = k.tar /\ l.pc = "end"
    BY <1>3, <1>4, EndGoes
  <2>2. Looks(c, l)
    BY <1>2, <1>3, <2>1 DEF Looks
  <2> QED BY <2>2 DEF Acts
<1>5. ASSUME NEW pc \in ClientPCs, Goto(c, pc),
             \/ pc \in {"head", "known", "get"} /\ (k.pc = "post" => k.kind = "md")
             \/ pc = "clear" /\ k.kind = "fresh" /\ k.n = 0
      PROVE  Acts(c)
  <2> DEFINE l == [k EXCEPT !.pc = pc]
  <2>1. /\ l \in Programs /\ l.pc = pc /\ l.kind = k.kind /\ l.d = k.d /\ l.n = k.n /\ l.tar = k.tar
        /\ l.kept = k.kept /\ l.exit = k.exit
    BY <1>1, <1>5 DEF Programs
  <2>2. client' = [client EXCEPT ![c] = l]
    BY <1>5, GotoGoes
  <2> HIDE DEF l
  <2>3. Standing(l)
    BY <1>1, <1>3, <1>5, <2>1 DEF Standing
  <2>4. Looks(c, l)
    BY <1>2, <1>3, <1>5, <2>1, <2>2, <2>3 DEF Looks, Goes
  <2> QED BY <2>1, <2>4 DEF Acts
<1>6. {"stale", "error", "duplicate", "gone", "timeout"} \subseteq Exits
      /\ {"head", "known", "get", "clear"} \subseteq ClientPCs
  BY DEF Exits, ClientPCs
<1>7. CASE StaleOutputs(c)
  <2>1. k.pc \in {"post", "repost"} /\ k.kind \in {"submit", "md", "fresh"} /\ k.n = 0
    BY <1>1, <1>7 DEF StaleOutputs, Standing, Programs
  <2>2. CASE k.kind = "submit"
    <3>1. k.pc = "post"
      BY <1>1, <2>1, <2>2 DEF Standing
    <3>2. End(c, "stale")
      BY <1>7, <2>2, <3>1 DEF StaleOutputs, At
    <3> QED BY <1>4, <1>6, <3>2
  <2>3. CASE k.kind = "md"
    <3>1. k.pc = "post"
      BY <1>1, <2>1, <2>3 DEF Standing
    <3>2. Goto(c, "get")
      BY <1>7, <2>3, <3>1 DEF StaleOutputs, At
    <3> QED BY <1>5, <1>6, <2>3, <3>2
  <2>4. CASE k.kind = "fresh" /\ k.pc = "post"
    <3>1. Goto(c, "clear")
      BY <1>7, <2>4 DEF StaleOutputs, At
    <3> QED BY <1>5, <1>6, <2>1, <2>4, <3>1
  <2>5. CASE k.kind = "fresh" /\ k.pc = "repost"
    <3>1. End(c, "error")
      BY <1>7, <2>5 DEF StaleOutputs, At
    <3> QED BY <1>4, <1>6, <3>1
  <2> QED BY <2>1, <2>2, <2>3, <2>4, <2>5
<1>8. CASE SubmitRefused(c)
  <2>1. End(c, "error") \/ End(c, "duplicate")
    BY <1>8 DEF SubmitRefused
  <2> QED BY <1>4, <1>6, <2>1
<1>9. CASE HeadTar(c) \/ JobKnown(c)
  <2>1. /\ k.pc \in {"head", "known"}
        /\ \/ Goto(c, "get") \/ Goto(c, "known") \/ Goto(c, "head")
           \/ End(c, "gone")
    BY <1>9 DEF HeadTar, JobKnown, At
  <2> QED BY <1>4, <1>5, <1>6, <2>1
<1>10. CASE Deadline(c)
  BY <1>4, <1>6, <1>10 DEF Deadline
<1>11. CASE GetTar(c)
  <2> DEFINE a == store.outputs[k.d]
             l == [k EXCEPT !.tar = a, !.pc = "deliver"]
  <2>1. CASE a = NoArt
    <3>1. End(c, "gone")
      BY <1>11, <2>1 DEF GetTar
    <3> QED BY <1>4, <1>6, <3>1
  <2>2. CASE a # NoArt
    <3>1. a \in Artefact /\ k.pc = "get"
      BY <1>1, <1>11, <2>2 DEF Directory, GetTar, At
    <3>2. client' = [client EXCEPT ![c] = l]
      BY <1>11, <2>2 DEF GetTar, Aboard
    <3>3. /\ l \in Programs /\ l.pc = "deliver" /\ l.tar = a /\ l.kind = k.kind /\ l.d = k.d /\ l.n = k.n
          /\ l.kept = k.kept /\ l.exit = k.exit
      BY <1>1, <3>1 DEF Programs, ClientPCs, ArtOrNone
    <3> HIDE DEF l
    <3>4. Standing(l)
      BY <1>1, <2>2, <3>1, <3>3 DEF Standing
    <3>5. Takes(c, l)
      BY <1>2, <2>2, <3>1, <3>2, <3>3, <3>4 DEF Takes, Goes
    <3> QED BY <3>3, <3>5 DEF Acts
  <2> QED BY <2>1, <2>2
<1> QED BY <1>7, <1>8, <1>9, <1>10, <1>11

\* what it does with the artefact,
LEMMA DeliverDoes ==
  ASSUME Aboard, NEW c \in Clients, Deliver(c) \/ DeliverFails(c)
  PROVE  Acts(c)
<1> DEFINE k == client[c]
<1>1. k \in Programs /\ Standing(k) /\ k.pc = "deliver" /\ k.tar # NoArt /\ ~Safe(k)
  BY DEF Aboard, Deliver, DeliverFails, At, Standing, Safe
<1>2. UNCHANGED vars
  BY DEF Deliver, DeliverFails, Local
<1>3. ASSUME NEW kept \in BOOLEAN, NEW exit \in Exits, kept \/ exit = "error",
             client' = [client EXCEPT ![c] = [k EXCEPT !.pc = "delete", !.kept = kept, !.exit = exit]]
      PROVE  Acts(c)
  <2> DEFINE l == [k EXCEPT !.pc = "delete", !.kept = kept, !.exit = exit]
  <2>1. /\ l \in Programs /\ l.pc = "delete" /\ l.kind = k.kind /\ l.d = k.d /\ l.n = k.n /\ l.tar = k.tar
        /\ l.kept = kept /\ l.exit = exit
    BY <1>1 DEF Programs, ClientPCs
  <2>2. client' = [client EXCEPT ![c] = l]
    BY <1>3
  <2> HIDE DEF l
  <2>3. Standing(l)
    BY <1>1, <1>3, <2>1 DEF Standing
  <2>4. Looks(c, l)
    BY <1>1, <1>2, <2>1, <2>2, <2>3 DEF Looks, Goes
  <2> QED BY <2>1, <2>4 DEF Acts
<1>4. CASE Deliver(c)
  <2>1. client' = [client EXCEPT ![c] = [k EXCEPT !.pc = "delete", !.kept = TRUE, !.exit = k.exit]]
    BY <1>1, <1>4 DEF Deliver, Aboard, Programs
  <2>2. k.exit \in Exits
    BY <1>1 DEF Programs
  <2> QED BY <1>3, <2>1, <2>2
<1>5. CASE DeliverFails(c) /\ RunMd(c)
  <2>1. client' = [client EXCEPT ![c] = [k EXCEPT !.pc = "delete", !.kept = k.kept, !.exit = "error"]]
    BY <1>1, <1>5 DEF DeliverFails, Aboard, Programs
  <2>2. k.kept \in BOOLEAN /\ "error" \in Exits
    BY <1>1 DEF Programs, Exits
  <2> QED BY <1>3, <2>1, <2>2
<1>6. CASE DeliverFails(c) /\ ~RunMd(c)
  <2>1. End(c, "error") /\ "error" \in Exits
    BY <1>6 DEF DeliverFails, Exits
  <2>2. PICK l \in Programs : Goes(c, l) /\ l.n = k.n /\ l.tar = k.tar /\ l.pc = "end"
    BY <1>1, <2>1, EndGoes
  <2>3. Looks(c, l)
    BY <1>1, <1>2, <2>2 DEF Looks
  <2> QED BY <2>3 DEF Acts
<1> QED BY <1>4, <1>5, <1>6

\* The number of a submission.
LEMMA PlansNumber ==
  ASSUME hist \in Hists, NEW d \in Digests, Plans(d)
  PROVE  hist.subs[d] + 1 \in Sub0
  BY Values DEF Hists, Plans

\* a submission, a deletion, answered or not,
LEMMA PostDoes ==
  ASSUME Aboard, hist \in Hists, NEW c \in Clients,
         \/ Accepted(c, "post") \/ Accepted(c, "repost") \/ DeleteTar(c) \/ AnswerLost(c)
  PROVE  Acts(c)
<1> DEFINE k == client[c]
<1>1. k \in Programs /\ Standing(k) /\ k.d \in Digests
  BY DEF Aboard, Programs
<1>2. ASSUME NEW exit \in Exits, End(c, exit), k.pc \in {"post", "repost"}, Plans(k.d) PROVE Acts(c)
  <2>1. PICK l \in Programs : Goes(c, l) /\ l.n = k.n /\ l.tar = k.tar /\ l.pc = "end"
    BY <1>2, EndGoes
  <2>2. l.d = k.d /\ k.tar = NoArt
    BY <1>1, <1>2, <2>1 DEF Goes, Standing
  <2>3. Submitted(c, l)
    BY <1>2, <2>1, <2>2 DEF Submitted
  <2> QED BY <2>3 DEF Acts
<1>3. ASSUME NEW exit \in Exits, End(c, exit), k.pc \in {"delete", "clear"}, Deletes(k.d, TRUE),
             k.pc = "delete" => k.kept \/ exit = "error"
      PROVE  Acts(c)
  <2>1. PICK l \in Programs : /\ Goes(c, l) /\ l.n = k.n /\ l.tar = k.tar /\ l.pc = "end"
                              /\ k.pc = "delete" => Safe(l)
    BY <1>3, EndGoes
  <2>2. l.d = k.d
    BY <2>1 DEF Goes
  <2>3. Deleted(c, l)
    BY <1>3, <2>1, <2>2 DEF Deleted
  <2> QED BY <2>3 DEF Acts
<1>4. ASSUME NEW pc \in {"post", "repost"}, Accepted(c, pc) PROVE Acts(c)
  <2> DEFINE n == hist.subs[k.d] + 1
             l == [k EXCEPT !.pc = "head", !.n = n]
  <2>1. k.pc = pc /\ k.tar = NoArt
    BY <1>1, <1>4 DEF Accepted, At, Standing
  <2>2. Plans(k.d)
    BY <1>4 DEF Accepted, Serves, Plans, UserStep
  <2>3. client' = [client EXCEPT ![c] = l]
    BY <1>4 DEF Accepted, Aboard
  <2>4. n \in Sub0
    BY <1>1, <2>2, PlansNumber
  <2>5. /\ l \in Programs /\ l.pc = "head" /\ l.kind = k.kind /\ l.d = k.d /\ l.n = n /\ l.tar = k.tar
        /\ l.kept = k.kept /\ l.exit = k.exit
    BY <1>1, <2>4 DEF Programs, ClientPCs
  <2> HIDE DEF l
  <2>6. Standing(l)
    BY <1>1, <2>1, <2>5 DEF Standing
  <2>7. Submitted(c, l)
    BY <2>1, <2>2, <2>3, <2>5, <2>6 DEF Submitted, Goes
  <2> QED BY <2>5, <2>7 DEF Acts
<1>5. CASE DeleteTar(c)
  <2>1. k.pc \in {"delete", "clear"} /\ Deletes(k.d, TRUE)
    BY <1>5 DEF DeleteTar, Serves, Deletes, UserStep
  <2>2. CASE k.pc = "delete"
    <3> DEFINE exit == IF k.exit = "none" THEN "ok" ELSE k.exit
    <3>1. exit \in Exits /\ (k.kept \/ exit = "error")
      BY <1>1, <2>2 DEF Programs, Exits, Standing
    <3>2. End(c, exit)
      BY <1>5, <2>2 DEF DeleteTar, At
    <3> HIDE DEF exit
    <3> QED BY <1>3, <2>1, <3>1, <3>2
  <2>3. CASE k.pc = "clear"
    <3> DEFINE l == [k EXCEPT !.pc = "repost"]
    <3>1. Goto(c, "repost") /\ "repost" \in ClientPCs
      BY <1>5, <2>3 DEF DeleteTar, At, ClientPCs
    <3>2. l \in Programs /\ client' = [client EXCEPT ![c] = l]
      BY <3>1, GotoGoes
    <3>3. /\ l.pc = "repost" /\ l.kind = k.kind /\ l.d = k.d /\ l.n = k.n /\ l.tar = k.tar
          /\ l.kept = k.kept /\ l.exit = k.exit
      BY <1>1 DEF Programs
    <3> HIDE DEF l
    <3>4. Standing(l)
      BY <1>1, <2>3, <3>3 DEF Standing
    <3>5. Deleted(c, l)
      BY <2>1, <2>3, <3>2, <3>3, <3>4 DEF Deleted, Goes
    <3> QED BY <3>2, <3>5 DEF Acts
  <2> QED BY <2>1, <2>2, <2>3
<1>6. CASE AnswerLost(c)
  <2>1. End(c, "error") /\ "error" \in Exits
    BY <1>6 DEF AnswerLost, Exits
  <2>2. \/ k.pc \in {"post", "repost"} /\ Plans(k.d)
        \/ k.pc \in {"delete", "clear"} /\ Deletes(k.d, TRUE)
    BY <1>6 DEF AnswerLost, Plans, Deletes, UserStep
  <2> QED BY <1>2, <1>3, <2>1, <2>2
<1> QED BY <1>4, <1>5, <1>6

\* and what it does when a request fails.
LEMMA FailsDo ==
  ASSUME Aboard, NEW c \in Clients, RequestFails(c) \/ BodyCut(c) \/ ServerBusy(c)
  PROVE  Acts(c)
<1> DEFINE k == client[c]
<1>1. k \in Programs /\ Standing(k) /\ UNCHANGED vars
  BY DEF Aboard, RequestFails, BodyCut, ServerBusy
<1>2. ASSUME NEW exit \in Exits, End(c, exit), k.pc # "end", k.pc = "delete" => k.kept \/ exit = "error"
      PROVE  Acts(c)
  <2>1. PICK l \in Programs : /\ Goes(c, l) /\ l.n = k.n /\ l.tar = k.tar /\ l.pc = "end"
                              /\ Safe(k) => Safe(l)
    BY <1>2, EndGoes
  <2>2. Looks(c, l)
    BY <1>1, <2>1 DEF Looks
  <2> QED BY <2>2 DEF Acts
<1>3. ASSUME NEW pc \in ClientPCs, Goto(c, pc),
             \/ pc = "head" /\ k.pc \in {"head", "get", "known"} /\ Waits(c)
             \/ pc = "repost" /\ k.pc = "clear"
      PROVE  Acts(c)
  <2> DEFINE l == [k EXCEPT !.pc = pc]
  <2>1. l \in Programs /\ client' = [client EXCEPT ![c] = l]
    BY <1>3, GotoGoes
  <2>2. /\ l.pc = pc /\ l.kind = k.kind /\ l.d = k.d /\ l.n = k.n /\ l.tar = k.tar
        /\ l.kept = k.kept /\ l.exit = k.exit
    BY <1>1 DEF Programs
  <2> HIDE DEF l
  <2>3. Standing(l)
    BY <1>1, <1>3, <2>2 DEF Standing
  <2>4. Safe(k) => Safe(l)
    BY <2>2 DEF Safe
  <2>5. Looks(c, l)
    BY <1>1, <1>3, <2>1, <2>2, <2>3, <2>4 DEF Looks, Goes
  <2> QED BY <2>1, <2>5 DEF Acts
<1>4. "error" \in Exits /\ "ok" \in Exits /\ k.exit \in Exits /\ {"head", "repost"} \subseteq ClientPCs
  BY <1>1 DEF Exits, ClientPCs, Programs
<1>5. CASE RequestFails(c)
  BY <1>2, <1>3, <1>4, <1>5 DEF RequestFails
<1>6. CASE BodyCut(c)
  BY <1>2, <1>4, <1>6 DEF BodyCut
<1>7. CASE ServerBusy(c)
  <2>1. CASE k.pc = "delete"
    <3> DEFINE exit == IF k.exit = "none" THEN "ok" ELSE k.exit
    <3>1. exit \in Exits /\ (k.kept \/ exit = "error")
      BY <1>1, <2>1 DEF Programs, Exits, Standing
    <3>2. End(c, exit)
      BY <1>7, <2>1 DEF ServerBusy, At
    <3> HIDE DEF exit
    <3> QED BY <1>2, <2>1, <3>1, <3>2
  <2>2. CASE k.pc # "delete"
    <3>1. \/ k.pc = "clear" /\ Goto(c, "repost")
          \/ k.pc \in {"post", "repost", "head", "get", "known"} /\ End(c, "error")
      BY <1>7, <2>2 DEF ServerBusy, At
    <3> QED BY <1>2, <1>3, <1>4, <3>1
  <2> QED BY <2>1, <2>2
<1> QED BY <1>5, <1>6, <1>7

\* Every step of ClientNext is one of the system, of its users, or of a client.
LEMMA ClientsDo ==
  ASSUME Aboard, store \in Directory, hist \in Hists, ClientNext
  PROVE  \/ System /\ UNCHANGED clientVars
         \/ Users /\ UNCHANGED client
         \/ \E c \in Clients : Acts(c)
BY LooksDo, DeliverDoes, PostDoes, FailsDo DEF ClientNext, ClientStep

\* Those who are aboard stay so.
LEMMA AboardFirst == ClientInit => Aboard
<1>1. ASSUME NEW kind \in Kinds, NEW d \in Digests
      PROVE  NewClient(kind, d) \in Programs /\ Standing(NewClient(kind, d))
  <2>1. kind \in {"submit", "fetch", "md", "fresh"}
    BY ClientAssumption
  <2> QED BY <2>1, Values DEF NewClient, Programs, ClientPCs, ArtOrNone, Exits, Standing
<1> QED BY <1>1 DEF ClientInit, Aboard

\* Whatever happens they stay aboard.
LEMMA AboardNext ==
  ASSUME Aboard, store \in Directory, hist \in Hists, [ClientNext]_allVars
  PROVE  Aboard'
<1>1. ASSUME client' = client PROVE Aboard'
  BY <1>1 DEF Aboard
<1>2. ASSUME NEW c \in Clients, Acts(c) PROVE Aboard'
  BY <1>2 DEF Acts, Looks, Takes, Submitted, Deleted, Goes, Aboard
<1> QED BY <1>1, <1>2, ClientsDo DEF clientVars, allVars

-----------------------------------------------------------------------------
(* The job system among clients *)

\* Whoever moves, the job system makes a step of its own, or none.
LEMMA ServerDoes ==
  ASSUME Aboard, Good, [ClientNext]_allVars
  PROVE  \/ [Next]_vars
         \/ \E d \in Digests : Plans(d) \/ Deletes(d, TRUE)
<1>1. store \in Directory /\ hist \in Hists
  BY Typed DEF Good
<1>2. ASSUME NEW c \in Clients, Acts(c)
      PROVE  UNCHANGED vars \/ \E d \in Digests : Plans(d) \/ Deletes(d, TRUE)
  <2>1. PICK l \in Programs : Looks(c, l) \/ Takes(c, l) \/ Submitted(c, l) \/ Deleted(c, l)
    BY <1>2 DEF Acts
  <2>2. l.d \in Digests
    BY DEF Programs
  <2> QED BY <2>1, <2>2 DEF Looks, Takes, Submitted, Deleted
<1>3. CASE UNCHANGED allVars
  BY <1>3 DEF allVars
<1> QED BY <1>1, <1>2, <1>3, ClientsDo DEF Next

\* Its types and its runs are as its own steps leave them,
LEMMA RunsAmongClients ==
  ASSUME Aboard, Good, RunInv, "rollback" \notin LateOps, [ClientNext]_allVars
  PROVE  Good' /\ RunInv' /\ [Ledger!Next]_Life
<1>1. CASE [Next]_vars
  BY <1>1, GoodNext, RunNext, LedgerNext
<1>2. ASSUME NEW d \in Digests, Plans(d) \/ Deletes(d, TRUE) PROVE Good' /\ Does /\ Follows
  BY <1>2, PlansTyped, DeletesTyped, PlansDo, DeletesDo DEF Does
<1>3. ASSUME NEW d \in Digests, Plans(d) \/ Deletes(d, TRUE)
      PROVE  Good' /\ RunInv' /\ [Ledger!Next]_Life
  BY <1>2, <1>3, RunKept, DoesRefines
<1> QED BY <1>1, <1>3, ServerDoes

\* and among clients who leave it in peace it is undisturbed.
LEMMA CalmAmongClients ==
  ASSUME Aboard, Good, RunInv, Undisturbed, Calm, [ClientNext]_allVars
  PROVE  Undisturbed'
BY ServerDoes, CalmNext, PlansCalm, DeletesCalm

\* All of it holds at the start.
LEMMA ClientsFirst == ClientInit => Aboard /\ Good /\ RunInv /\ Undisturbed /\ Ledger!Init
BY AboardFirst, GoodFirst, RunFirst, CalmFirst, LedgerFirst DEF ClientInit

\* Agents' programs do to the runs nothing that a user of the server could not do:
\* the job system implements the ledger among them, too.
THEOREM ClientsKeepTheLedger ==
  ASSUME "rollback" \notin LateOps
  PROVE  ClientSpec => KeepsTheLedger
<1>1. ClientInit => Aboard /\ Good /\ RunInv /\ Ledger!Init
  BY ClientsFirst
<1>2. Aboard /\ Good /\ RunInv /\ [ClientNext]_allVars
      => (Aboard /\ Good /\ RunInv)' /\ [Ledger!Next]_Life
  <2> SUFFICES ASSUME Aboard, Good, RunInv, [ClientNext]_allVars
               PROVE  (Aboard /\ Good /\ RunInv)' /\ [Ledger!Next]_Life
    OBVIOUS
  <2>1. Aboard'
    BY AboardNext, Typed DEF Good
  <2> QED BY <2>1, RunsAmongClients
<1> QED BY <1>1, <1>2, PTL DEF ClientSpec, KeepsTheLedger, Ledger!Spec

\* What holds together among clients, in calm.
Peace == Aboard /\ Good /\ RunInv /\ Undisturbed

\* Every step keeps it.
LEMMA PeaceKept ==
  ASSUME Calm, Peace, [ClientNext]_allVars
  PROVE  Peace'
<1>1. Aboard'
  BY AboardNext, Typed DEF Peace, Good
<1>2. Good' /\ RunInv'
  BY RunsAmongClients DEF Peace, Calm
<1>3. Undisturbed'
  BY CalmAmongClients DEF Peace
<1> QED BY <1>1, <1>2, <1>3 DEF Peace

\* Two sessions never run the same plan at once, whatever is lost, whenever the
\* poller dies, and however many clients submit, fetch and delete one plan.
THEOREM OneSessionAmongClients ==
  ASSUME Calm
  PROVE  ClientSpec => []OneSessionPerDigest
<1>1. ClientInit => Peace
  BY ClientsFirst DEF Peace
<1>2. Peace /\ [ClientNext]_allVars => Peace'
  BY PeaceKept
<1>3. Peace => OneSessionPerDigest
  BY CalmSessions DEF Peace
<1> QED BY <1>1, <1>2, <1>3, PTL DEF ClientSpec

\* Nor does a client's delete take the record of a job that is running.
THEOREM RecordAmongClients ==
  ASSUME Calm
  PROVE  ClientSpec => []SessionHasRecord
<1>1. ClientInit => Peace
  BY ClientsFirst DEF Peace
<1>2. Peace /\ [ClientNext]_allVars => Peace'
  BY PeaceKept
<1>3. Peace => SessionHasRecord
  BY CalmSessions DEF Peace
<1> QED BY <1>1, <1>2, <1>3, PTL DEF ClientSpec

-----------------------------------------------------------------------------
(* No client gets an artefact older than its submission *)

\* Submissions count up, and a digest's artefact, on the server or in the hands of
\* a client who waits, is not older than the submission the client waits for.
Ahead(k, subs, outputs) ==
    /\ k.n <= subs[k.d]
    /\ k.n # 0 /\ outputs[k.d] # NoArt => outputs[k.d].n >= k.n
    /\ k.n # 0 /\ k.tar # NoArt => k.tar.n >= k.n

InOrder == \A c \in Clients : Ahead(client[c], hist.subs, store.outputs)

\* A step of the system counts no submission.
LEMMA SystemCounts ==
  ASSUME Good, System
  PROVE  hist'.subs = hist.subs
<1>1. hist \in Hists /\ drain \in [Drainers -> Drains]
  BY Typed DEF Good
<1>2. ASSUME NEW a, hist' = Publish(a) PROVE hist'.subs = hist.subs
  BY <1>1, <1>2 DEF Publish, Hists
<1>3. CASE Time
  <2>1. ASSUME NEW r \in late, ServeLate(r) PROVE hist'.subs = hist.subs
    BY <1>2, <2>1 DEF ServeLate
  <2> QED BY <1>3, <2>1 DEF Time, Age, MarkerExpires, InflightStales, CircuitCloses, BackoffEnds
<1>4. CASE LoopStep
  <2>1. ASSUME NEW w \in Workers, PlanDelivered(w) PROVE hist'.subs = hist.subs
    BY <1>1, <2>1 DEF PlanDelivered, Hists
  <2> QED BY <1>4, <2>1 DEF LoopStep, PullCancelMarkers, SkipSignaled, SignalCancel, NoLiveSession,
          PostStale, KickAndLook, TakeSnapshot, PushInflight, PushSkipped, NothingToDo, ClaimPlan,
          StartupDrained, ListOrphans, StartupDone, FailOrphan, LastDrain, Exit
<1>5. CASE LoopFails
  BY <1>5 DEF LoopFails, PullCancelsFails, GetPlanFails, TransferFails, ListOrphansFails,
              TransferTruncated
<1>6. ASSUME NEW w \in Workers, WorkStep(w) PROVE hist'.subs = hist.subs
  BY <1>6 DEF WorkStep, Reject, Register, Pack, Pop, Spool, Worker
<1>7. ASSUME NEW p \in Drainers, DrainStep(p) \/ UploadFails(p) PROVE hist'.subs = hist.subs
  <2>1. CASE UploadAccepted(p)
    BY <1>2, <2>1 DEF UploadAccepted
  <2> QED BY <1>7, <2>1 DEF DrainStep, ListPending, DrainDone, OpenSpool, UploadRefused, UploadParked,
                            UploadFails
<1>8. CASE Restart \/ Crash \/ Interrupt
  BY <1>8 DEF Restart, Crash, Interrupt
<1> QED BY <1>3, <1>4, <1>5, <1>6, <1>7, <1>8 DEF System

\* Numbers of submissions, and of artefacts.
LEMMA Numbers ==
  ASSUME Good
  PROVE  /\ store.outputs \in [Digests -> Artefact \cup {NoArt}] /\ hist.subs \in [Digests -> Int]
         /\ \A a \in Artefact : a.n \in Int /\ a.n # 0 /\ a # NoArt
         /\ \A k \in Programs : k.n \in Int /\ k.d \in Digests
         /\ NoArt.n = 0
<1>1. store.outputs \in [Digests -> Artefact \cup {NoArt}] /\ hist.subs \in [Digests -> Int]
  BY Typed, Values DEF Good, Directory, Hists
<1>2. \A a \in Artefact : a.n \in Int /\ a.n # 0 /\ a # NoArt
  <2>1. ASSUME NEW a \in Artefact PROVE a.n \in Int /\ a.n # 0
    BY Values DEF Artefact
  <2> QED BY <2>1 DEF NoArt
<1>3. \A k \in Programs : k.n \in Int /\ k.d \in Digests
  BY Values DEF Programs
<1> QED BY <1>1, <1>2, <1>3 DEF NoArt

\* What a submission does to the artefacts,
LEMMA PlansTakes ==
  ASSUME Good, NEW d \in Digests, Plans(d)
  PROVE  /\ store'.outputs = store.outputs /\ store.outputs[d] = NoArt
         /\ hist'.subs = [hist.subs EXCEPT ![d] = @ + 1] /\ hist'.published = hist.published
BY Typed DEF Good, Plans, UserStep, QueueJob, Directory, Hists, Refuses, HasOutput

\* and what a deletion does to them.
LEMMA DeletesTakes ==
  ASSUME Good, NEW d \in Digests, NEW wholeJob \in BOOLEAN, Deletes(d, wholeJob)
  PROVE  /\ store'.outputs = [store.outputs EXCEPT ![d] = NoArt]
         /\ store'.inputs = store.inputs
         /\ \A e \in Digests : store'.done[e] = store.done[e] \/ store'.done[e] = NoFile
         /\ wholeJob /\ HasOutput(store, d) => store'.done[d] = NoFile
         /\ hist' = hist
<1> DEFINE p == IF wholeJob /\ HasOutput(store, d) THEN NoFile ELSE store.done[d]
<1>1. store \in Directory
  BY Typed DEF Good
<1>2. (p = store.done[d] \/ p = NoFile) /\ (wholeJob /\ HasOutput(store, d) => p = NoFile)
  OBVIOUS
<1>3. store' = [store EXCEPT !.outputs[d] = NoArt, !.done[d] = p] /\ hist' = hist
  BY <1>1 DEF Deletes, UserStep, DeleteOutputs, Directory
<1> HIDE DEF p
<1>4. /\ store'.outputs = [store.outputs EXCEPT ![d] = NoArt] /\ store'.inputs = store.inputs
      /\ store'.done = [store.done EXCEPT ![d] = p]
  BY <1>1, <1>3 DEF Directory
<1> QED BY <1>1, <1>2, <1>3, <1>4 DEF Directory

\* and so to those who wait.
LEMMA AheadPlans ==
  ASSUME Good, NEW d \in Digests, Plans(d), NEW k \in Programs, Ahead(k, hist.subs, store.outputs)
  PROVE  Ahead(k, hist'.subs, store'.outputs)
<1>1. store'.outputs = store.outputs /\ k.d \in Digests /\ k.n \in Int /\ hist.subs[k.d] \in Int
  BY Numbers, PlansTakes
<1>2. hist'.subs[k.d] \in {hist.subs[k.d], hist.subs[k.d] + 1}
  BY <1>1, Numbers, PlansTakes
<1> QED BY <1>1, <1>2 DEF Ahead

\* A deletion takes nothing older away from them,
LEMMA AheadDeletes ==
  ASSUME Good, NEW d \in Digests, NEW wholeJob \in BOOLEAN, Deletes(d, wholeJob),
         NEW k \in Programs, Ahead(k, hist.subs, store.outputs)
  PROVE  Ahead(k, hist'.subs, store'.outputs)
BY Numbers, DeletesTakes DEF Ahead

\* and an upload is of the latest submission.
LEMMA AheadBrings ==
  ASSUME Good, RunInv, NEW r \in Runs, Brings(r), hist'.subs = hist.subs,
         NEW k \in Programs, Ahead(k, hist.subs, store.outputs)
  PROVE  Ahead(k, hist'.subs, store'.outputs)
<1>1. r[2] = hist.subs[r[1]] /\ r[1] \in Digests
  BY RunsAre DEF Brings, RunInv, Latest
<1>2. PICK a \in Artefact : /\ a.d = r[1] /\ a.n = r[2]
                            /\ store'.outputs = [store.outputs EXCEPT ![r[1]] = a]
  BY DEF Brings
<1> QED BY <1>1, <1>2, Numbers DEF Ahead

\* Every step keeps the order.
LEMMA InOrderKept ==
  ASSUME Calm, Peace, InOrder, [ClientNext]_allVars
  PROVE  InOrder'
<1> USE DEF Peace
<1>1. store \in Directory /\ hist \in Hists /\ client \in [Clients -> Programs]
  BY Typed DEF Good, Aboard
<1>2. \A c \in Clients : client[c] \in Programs /\ Ahead(client[c], hist.subs, store.outputs)
  BY <1>1 DEF InOrder
<1>3. CASE UNCHANGED allVars
  BY <1>2, <1>3 DEF allVars, vars, clientVars, InOrder
<1>4. CASE System /\ UNCHANGED clientVars
  <2>1. client' = client /\ hist'.subs = hist.subs
    BY <1>4, SystemCounts DEF clientVars
  <2>2. CASE BringsNone
    BY <1>2, <2>1, <2>2 DEF BringsNone, InOrder
  <2>3. ASSUME NEW r \in Runs, Brings(r) PROVE InOrder'
    BY <1>2, <2>1, <2>3, AheadBrings DEF InOrder
  <2> QED BY <1>4, <2>2, <2>3, SystemCalm
<1>5. CASE Users /\ UNCHANGED client
  <2>1. PICK d \in Digests : Plans(d) \/ \E wholeJob \in BOOLEAN : Deletes(d, wholeJob)
    BY <1>5, UsersCalm
  <2>2. \A c \in Clients : Ahead(client[c], hist'.subs, store'.outputs)
    BY <1>2, <2>1, AheadPlans, AheadDeletes
  <2> QED BY <1>5, <2>2 DEF InOrder
<1>6. ASSUME NEW c \in Clients, Acts(c) PROVE InOrder'
  <2> DEFINE k == client[c]
  <2>1. PICK l \in Programs : Looks(c, l) \/ Takes(c, l) \/ Submitted(c, l) \/ Deleted(c, l)
    BY <1>6 DEF Acts
  <2>2. Goes(c, l) /\ l.d = k.d /\ l.d \in Digests
    BY <2>1 DEF Looks, Takes, Submitted, Deleted, Goes, Programs
  <2>3. client' = [client EXCEPT ![c] = l]
    BY <2>2 DEF Goes
  <2>4. SUFFICES ASSUME NEW b \in Clients PROVE Ahead(client'[b], hist'.subs, store'.outputs)
    BY DEF InOrder
  <2>5. Ahead(client[b], hist'.subs, store'.outputs) /\ Ahead(k, hist'.subs, store'.outputs)
    <3>1. CASE UNCHANGED vars
      BY <1>2, <3>1 DEF vars
    <3>2. CASE Plans(l.d) \/ Deletes(l.d, TRUE)
      BY <1>2, <2>2, <3>2, AheadPlans, AheadDeletes
    <3> QED BY <2>1, <3>1, <3>2 DEF Looks, Takes, Submitted, Deleted
  <2>6. CASE b # c
    BY <1>1, <2>3, <2>5, <2>6
  <2>7. CASE b = c
    <3>1. client'[b] = l
      BY <1>1, <2>3, <2>7
    <3>2. CASE Looks(c, l) \/ Deleted(c, l)
      BY <2>2, <2>5, <3>1, <3>2 DEF Looks, Deleted, Ahead
    <3>3. CASE Takes(c, l)
      <4>1. store'.outputs = store.outputs /\ l.tar = store.outputs[k.d] /\ l.n = k.n
        BY <2>2, <3>3 DEF Takes, vars
      <4> QED BY <2>2, <2>5, <3>1, <4>1 DEF Ahead
    <3>4. CASE Submitted(c, l)
      <4>1. /\ store'.outputs[l.d] = NoArt /\ l.tar = NoArt
            /\ hist'.subs[l.d] = hist.subs[l.d] + 1 /\ hist.subs[l.d] \in Int
        BY <2>2, <3>4, PlansTakes, Numbers DEF Submitted
      <4>2. l.n = k.n \/ l.n = hist'.subs[l.d]
        BY <3>4, <4>1 DEF Submitted
      <4> QED BY <2>2, <2>5, <3>1, <4>1, <4>2 DEF Ahead
    <3> QED BY <2>1, <3>2, <3>3, <3>4
  <2> QED BY <2>6, <2>7
<1> QED BY <1>1, <1>3, <1>4, <1>5, <1>6, ClientsDo

\* A client that waits for its submission never gets the artefact of an earlier
\* one, whoever else submits, fetches and deletes the same plan, as long as no upload
\* is served after the poller gave up on it and nobody cancels, prunes or wipes.
THEOREM NoClientGetsAnOlderResult ==
  ASSUME Calm
  PROVE  ClientSpec => []ResultNotOlder
<1>1. ClientInit => Peace /\ InOrder
  <2> SUFFICES ASSUME ClientInit PROVE Peace /\ InOrder
    OBVIOUS
  <2>1. Peace
    BY ClientsFirst DEF Peace
  <2>2. \A c \in Clients : client[c].n = 0 /\ client[c].d \in Digests
    BY DEF ClientInit, NewClient
  <2>3. \A d \in Digests : hist.subs[d] = 0
    BY DEF ClientInit, Init
  <2> QED BY <2>1, <2>2, <2>3 DEF InOrder, Ahead
<1>2. Peace /\ InOrder /\ [ClientNext]_allVars => (Peace /\ InOrder)'
  BY PeaceKept, InOrderKept
<1>3. InOrder => ResultNotOlder
  BY DEF InOrder, Ahead, ResultNotOlder, Waits
<1> QED BY <1>1, <1>2, <1>3, PTL DEF ClientSpec

-----------------------------------------------------------------------------
(* No artefact is deleted before somebody has it *)

\* Nobody removes anything but the clients, and there are at most two.
Alone ==
    /\ UserOps = {} /\ Calm
    /\ \A a, b, c \in Clients : a = b \/ b = c \/ a = c

Plain == \A c \in Clients : client[c].kind # "fresh"

\* A digest the server knows nothing of.
Cleared(d) == store.outputs[d] = NoArt /\ \A r \in Queue \cup Record : r[1] # d

\* What a client is about to deliver and to delete lies on the server still, or the
\* other client has deleted it and is gone.
Sole(c) ==
    client[c].pc \in {"deliver", "delete"} =>
      \/ store.outputs[client[c].d] = client[c].tar
      \/ /\ Cleared(client[c].d)
         /\ \A b \in Clients \ {c} : client[b].d = client[c].d => client[b].pc = "end"

\* Somebody has the artefact of a run.
Has(k, r) == k.d = r[1] /\ k.tar.n = r[2] /\ Safe(k)

Accounted(r) == store.outputs[r[1]].n = r[2] \/ \E c \in Clients : Has(client[c], r)

Books == Plain => /\ \A c \in Clients : Sole(c)
                  /\ \A r \in hist.published : Accounted(r)

\* A cleared digest stays so until somebody submits it.
LEMMA ClearedStays ==
  ASSUME Good, RunInv, "rollback" \notin LateOps, System, NEW d \in Digests, Cleared(d),
         store'.outputs[d] = store.outputs[d]
  PROVE  Cleared(d)'
<1>1. Does /\ Queue \subseteq Runs /\ Record \subseteq Runs
  BY StepsDo DEF Next, Queue, Record
<1>2. \A r \in Runs : ~Submits(r)
  <2>1. ASSUME NEW r \in Runs, Submits(r) PROVE FALSE
    <3>1. hist'.subs[r[1]] = hist.subs[r[1]] /\ hist.subs[r[1]] \in Int
      BY SystemCounts, Numbers, RunsAre
    <3>2. hist'.subs[r[1]] = hist.subs[r[1]] + 1
      BY <2>1, Numbers, RunsAre DEF Submits
    <3> QED BY <3>1, <3>2
  <2> QED BY <2>1
<1>3. Queue' \cup Record' \subseteq Queue \cup Record
  BY <1>1, <1>2 DEF Does, Aside, Dies, Claims, Cuts, Reports, GivesUp, Hands, Finishes, SameFiles,
                    GoesBack
<1>4. Cleared(d)' <=> /\ store'.outputs[d] = NoArt
                      /\ \A r \in Queue' \cup Record' : r[1] # d
  BY DEF Cleared
<1> QED BY <1>3, <1>4 DEF Cleared

\* A step of the system,
LEMMA BooksSystem ==
  ASSUME Calm, Peace, Books, Plain, System, client' = client
  PROVE  Books'
<1> USE DEF Peace
<1>1. /\ \A c \in Clients : Sole(c) /\ client[c].d \in Digests /\ Standing(client[c])
      /\ \A r \in hist.published : Accounted(r)
      /\ hist.published \subseteq Runs
  BY Typed DEF Books, Aboard, Programs, Good, Hists
<1>2. "rollback" \notin LateOps
  BY DEF Calm
<1>3. CASE BringsNone
  <2>1. \A d \in Digests : Cleared(d) => Cleared(d)'
    BY <1>2, <1>3, ClearedStays DEF BringsNone
  <2>2. \A c \in Clients : Sole(c)'
    BY <1>1, <1>3, <2>1 DEF Sole, BringsNone
  <2>3. \A r \in hist'.published : Accounted(r)'
    BY <1>1, <1>3 DEF Accounted, BringsNone
  <2> QED BY <2>2, <2>3 DEF Books
<1>4. ASSUME NEW r \in Runs, Brings(r) PROVE Books'
  <2>1. PICK a \in Artefact : /\ a.d = r[1] /\ a.n = r[2]
                              /\ store'.outputs = [store.outputs EXCEPT ![r[1]] = a]
    BY <1>4 DEF Brings
  <2>2. /\ store.outputs[r[1]] = NoArt /\ ~Cleared(r[1]) /\ r[1] \in Digests
    BY <1>4, RunsAre DEF Brings, Answered, HasOutput, Cleared
  <2>3. ASSUME NEW c \in Clients PROVE Sole(c)'
    <3> SUFFICES ASSUME client[c].pc \in {"deliver", "delete"}
                 PROVE  \/ store'.outputs[client[c].d] = client[c].tar
                        \/ /\ Cleared(client[c].d)'
                           /\ \A b \in Clients \ {c} : client[b].d = client[c].d => client[b].pc = "end"
      BY DEF Sole
    <3>1. client[c].d # r[1]
      BY <1>1, <2>2 DEF Sole, Standing
    <3>2. store'.outputs[client[c].d] = store.outputs[client[c].d]
      BY <1>1, <2>1, <3>1, Numbers
    <3>3. Cleared(client[c].d) => Cleared(client[c].d)'
      BY <1>1, <1>2, <3>2, ClearedStays
    <3> QED BY <1>1, <3>2, <3>3 DEF Sole
  <2>4. ASSUME NEW q \in hist'.published PROVE Accounted(q)'
    <3>1. q \in Runs /\ (q = r \/ q \in hist.published)
      BY <1>1, <1>4 DEF Brings
    <3>2. CASE q[1] = r[1]
      <4>1. CASE q = r
        BY <2>1, <2>2, <4>1, Numbers DEF Accounted
      <4>2. CASE q # r
        <5>1. store.outputs[q[1]].n # q[2]
          BY <2>2, <3>1, <3>2, Numbers, RunsAre
        <5> QED BY <1>1, <3>1, <4>2, <5>1 DEF Accounted
      <4> QED BY <4>1, <4>2
    <3>3. CASE q[1] # r[1]
      <4>1. store'.outputs[q[1]] = store.outputs[q[1]]
        BY <2>1, <3>1, <3>3, Numbers, RunsAre
      <4> QED BY <1>1, <3>1, <3>3, <4>1 DEF Accounted
    <3> QED BY <3>2, <3>3
  <2> QED BY <2>3, <2>4 DEF Books
<1> QED BY <1>3, <1>4, SystemCalm

\* Somebody who has it keeps it.
LEMMA HasStill ==
  ASSUME Aboard, NEW c \in Clients, NEW l \in Programs,
         Looks(c, l) \/ Takes(c, l) \/ Submitted(c, l) \/ Deleted(c, l),
         NEW r \in Runs, Has(client[c], r)
  PROVE  Has(l, r)
<1>1. r[2] # 0 /\ NoArt.n = 0
  BY RunsAre DEF NoArt
<1>2. client[c].tar # NoArt /\ client[c].pc \in {"delete", "end"} /\ Standing(client[c])
  BY <1>1 DEF Has, Aboard, Standing, Safe
<1>3. CASE Looks(c, l)
  BY <1>3 DEF Looks, Goes, Has
<1>4. CASE Deleted(c, l)
  BY <1>2, <1>4 DEF Deleted, Goes, Has
<1> QED BY <1>2, <1>3, <1>4 DEF Takes, Submitted

\* A step of a client: the other's artefact stays where its step does not reach,
LEMMA SoleBeside ==
  ASSUME Aboard, NEW c \in Clients, NEW l \in Programs, Goes(c, l), NEW b \in Clients, b # c, Sole(b),
         NEW d \in Digests, client[b].d = d, store'.outputs[d] = store.outputs[d],
         client[c].d # d /\ Cleared(d) => Cleared(d)'
  PROVE  Sole(b)'
<1>1. client' = [client EXCEPT ![c] = l] /\ client \in [Clients -> Programs]
  BY DEF Goes, Aboard
<1>2. client'[b] = client[b]
  BY <1>1
<1>3. client[c].pc # "end"
  BY DEF Goes
<1>4. \A a \in Clients \ {b} : a # c => client'[a] = client[a]
  BY <1>1
<1> SUFFICES ASSUME client[b].pc \in {"deliver", "delete"}
             PROVE  \/ store'.outputs[d] = client[b].tar
                    \/ /\ Cleared(d)'
                       /\ \A a \in Clients \ {b} : client'[a].d = d => client'[a].pc = "end"
  BY <1>2 DEF Sole
<1>5. CASE store.outputs[d] = client[b].tar
  BY <1>5
<1>6. CASE /\ Cleared(d)
           /\ \A a \in Clients \ {b} : client[a].d = d => client[a].pc = "end"
  <2>1. client[c].d # d
    BY <1>3, <1>6
  <2>2. client'[c].d # d
    BY <1>1, <2>1 DEF Goes
  <2> QED BY <1>4, <1>6, <2>1, <2>2
<1> QED BY <1>5, <1>6 DEF Sole

\* published artefacts that stay on the server, or have been taken from it, count,
LEMMA StillAccounted ==
  ASSUME Aboard, NEW c \in Clients, NEW l \in Programs,
         Looks(c, l) \/ Takes(c, l) \/ Submitted(c, l) \/ Deleted(c, l),
         NEW r \in Runs, Accounted(r),
         store.outputs[r[1]].n = r[2] => Has(l, r) \/ store'.outputs[r[1]] = store.outputs[r[1]]
  PROVE  Accounted(r)'
<1>1. client' = [client EXCEPT ![c] = l] /\ client \in [Clients -> Programs]
  BY DEF Looks, Takes, Submitted, Deleted, Goes, Aboard
<1>2. client'[c] = l /\ \A b \in Clients : b # c => client'[b] = client[b]
  BY <1>1
<1>3. Accounted(r)' <=> store'.outputs[r[1]].n = r[2] \/ \E b \in Clients : Has(client'[b], r)
  BY DEF Accounted, Has, Safe
<1>4. CASE store.outputs[r[1]].n = r[2]
  BY <1>2, <1>3, <1>4
<1>5. ASSUME NEW b \in Clients, Has(client[b], r) PROVE Accounted(r)'
  <2>1. b = c => Has(l, r)
    BY <1>5, HasStill
  <2> QED BY <1>2, <1>3, <1>5, <2>1
<1> QED BY <1>4, <1>5 DEF Accounted

\* and a delete that finds an artefact leaves nothing of its digest.
LEMMA DeleteClears ==
  ASSUME Peace, NEW d \in Digests, Deletes(d, TRUE), HasOutput(store, d) \/ Cleared(d)
  PROVE  Cleared(d)'
<1>1. /\ store'.outputs[d] = NoArt /\ store'.inputs = store.inputs
      /\ store'.done[d] = store.done[d] \/ store'.done[d] = NoFile
      /\ HasOutput(store, d) => store'.done[d] = NoFile
  BY DeletesTakes, Numbers DEF Peace
<1>2. \A r \in Queue : r[1] = d => ~HasOutput(store, d)
  BY DEF Peace, Undisturbed, Answerable, Answered, Queue
<1>3. Queue' = Queue
  BY <1>1 DEF Queue
<1>4. \A r \in Queue' : r[1] # d
  BY <1>2, <1>3 DEF Cleared
<1>5. \A r \in Record' : r[1] # d
  <2> SUFFICES ASSUME NEW r \in Runs, store'.done[r[1]].n = r[2], r[1] = d PROVE FALSE
    BY DEF Record
  <2>1. CASE store'.done[d] = NoFile
    BY <2>1, RunsAre, Values
  <2>2. CASE store'.done[d] = store.done[d] /\ ~HasOutput(store, d)
    BY <2>2 DEF Cleared, Record
  <2> QED BY <1>1, <2>1, <2>2
<1>6. Cleared(d)' <=> store'.outputs[d] = NoArt /\ \A r \in Queue' \cup Record' : r[1] # d
  BY DEF Cleared
<1> QED BY <1>1, <1>4, <1>5, <1>6

\* What a step does to another digest,
LEMMA ClearedBeside ==
  ASSUME Peace, NEW d \in Digests, NEW e \in Digests, d # e, Plans(d) \/ Deletes(d, TRUE), Cleared(e)
  PROVE  Cleared(e)'
<1>1. store'.outputs[e] = store.outputs[e]
  BY PlansTakes, DeletesTakes, Numbers DEF Peace
<1>2. /\ store'.inputs[e] = store.inputs[e]
      /\ store'.done[e] = store.done[e] \/ store'.done[e] = NoFile
  <2>1. store \in Directory
    BY Typed DEF Peace, Good
  <2>2. CASE Plans(d)
    BY <2>1, <2>2 DEF Plans, UserStep, QueueJob, Directory
  <2> QED BY <2>2, DeletesTakes DEF Peace
<1>3. \A r \in Queue' \cup Record' : r[1] # e
  <2> SUFFICES ASSUME NEW r \in Runs, r[1] = e,
                      store'.inputs[r[1]].n = r[2] \/ store'.done[r[1]].n = r[2]
               PROVE  FALSE
    BY DEF Queue, Record
  <2>1. CASE store.inputs[e].n = r[2]
    BY <2>1 DEF Cleared, Queue
  <2>2. CASE store.done[e].n = r[2]
    BY <2>2 DEF Cleared, Record
  <2>3. CASE store'.done[e] = NoFile /\ NoFile.n = r[2]
    BY <2>3, RunsAre, Values
  <2> QED BY <1>2, <2>1, <2>2, <2>3
<1>4. Cleared(e)' <=> store'.outputs[e] = NoArt /\ \A r \in Queue' \cup Record' : r[1] # e
  BY DEF Cleared
<1> QED BY <1>1, <1>3, <1>4 DEF Cleared

\* and what the step of a client does to the books.
LEMMA BooksClient ==
  ASSUME Alone, Peace, Books, Plain, NEW c \in Clients, Acts(c)
  PROVE  Books'
<1> USE DEF Peace
<1> DEFINE k == client[c]
<1>1. PICK l \in Programs : Looks(c, l) \/ Takes(c, l) \/ Submitted(c, l) \/ Deleted(c, l)
  BY DEF Acts
<1>2. Goes(c, l) /\ l.d = k.d /\ l.d \in Digests
  BY <1>1 DEF Looks, Takes, Submitted, Deleted, Goes, Programs
<1>3. /\ \A b \in Clients : Sole(b) /\ client[b].d \in Digests /\ Standing(client[b])
      /\ \A r \in hist.published : Accounted(r)
      /\ hist.published \subseteq Runs
  BY Typed DEF Books, Aboard, Programs, Good, Hists
<1>4. client'[c] = l /\ \A b \in Clients : b # c => client'[b] = client[b]
  BY <1>2 DEF Goes, Aboard
<1>5. CASE Looks(c, l) \/ Takes(c, l)
  <2>1. store' = store /\ hist' = hist
    BY <1>5 DEF Looks, Takes, vars
  <2>2. \A d \in Digests : Cleared(d) => Cleared(d)'
    BY <2>1 DEF Cleared, Queue, Record
  <2>3. ASSUME NEW b \in Clients, b # c PROVE Sole(b)'
    <3>1. PICK d \in Digests : client[b].d = d
      BY <1>3
    <3>2. Sole(b) /\ store'.outputs[d] = store.outputs[d]
      BY <1>3, <2>1
    <3> QED BY <1>2, <2>2, <2>3, <3>1, <3>2, SoleBeside
  <2>4. Sole(c)'
    <3>1. CASE Takes(c, l)
      BY <1>4, <2>1, <3>1 DEF Sole, Takes
    <3>2. CASE Looks(c, l)
      <4> SUFFICES ASSUME l.pc \in {"deliver", "delete"}
                   PROVE  \/ store'.outputs[l.d] = l.tar
                          \/ /\ Cleared(l.d)'
                             /\ \A b \in Clients \ {c} : client'[b].d = l.d => client'[b].pc = "end"
        BY <1>4 DEF Sole
      <4>1. k.pc = "deliver" /\ l.tar = k.tar
        BY <3>2 DEF Looks
      <4> QED BY <1>2, <1>3, <1>4, <2>1, <2>2, <4>1 DEF Sole
    <3> QED BY <1>5, <3>1, <3>2
  <2>5. \A r \in hist'.published : Accounted(r)'
    BY <1>1, <1>3, <2>1, StillAccounted
  <2> QED BY <2>3, <2>4, <2>5 DEF Books
<1>6. CASE Submitted(c, l)
  <2>1. Plans(l.d) /\ l.pc \notin {"deliver", "delete"}
    BY <1>6 DEF Submitted
  <2>2. store'.outputs = store.outputs /\ hist'.published = hist.published
    BY <1>2, <2>1, PlansTakes
  <2>3. ASSUME NEW d \in Digests, l.d # d, Cleared(d) PROVE Cleared(d)'
    BY <1>2, <2>1, <2>3, ClearedBeside
  <2>4. ASSUME NEW b \in Clients, b # c PROVE Sole(b)'
    <3>1. PICK d \in Digests : client[b].d = d
      BY <1>3
    <3>2. Sole(b) /\ store'.outputs[d] = store.outputs[d]
      BY <1>3, <2>2
    <3>3. k.d # d /\ Cleared(d) => Cleared(d)'
      BY <1>2, <2>3, <3>1
    <3> QED BY <1>2, <2>4, <3>1, <3>2, <3>3, SoleBeside
  <2>5. Sole(c)'
    BY <1>4, <2>1 DEF Sole
  <2>6. \A r \in hist'.published : Accounted(r)'
    BY <1>1, <1>3, <2>2, StillAccounted
  <2> QED BY <2>4, <2>5, <2>6 DEF Books
<1>7. CASE Deleted(c, l)
  <2>1. k.pc = "delete" /\ l.pc = "end" /\ l.tar = k.tar /\ Safe(l) /\ Deletes(l.d, TRUE)
    BY <1>3, <1>7 DEF Deleted, Plain, Standing
  <2>2. /\ store'.outputs = [store.outputs EXCEPT ![l.d] = NoArt] /\ hist' = hist
        /\ store.outputs \in [Digests -> Artefact \cup {NoArt}]
    BY <1>2, <2>1, DeletesTakes, Numbers
  <2>3. store.outputs[l.d] = k.tar \/ Cleared(l.d)
    BY <1>2, <1>3, <2>1 DEF Sole
  <2>4. Cleared(l.d)'
    BY <1>2, <1>3, <2>1, <2>3, DeleteClears DEF HasOutput, Standing
  <2>5. ASSUME NEW b \in Clients, b # c PROVE Sole(b)'
    <3> PICK d \in Digests : client[b].d = d
      BY <1>3
    <3>1. CASE d = l.d
      <4>1. \A a \in Clients \ {b} : a = c
        BY <2>5 DEF Alone
      <4> QED BY <1>4, <2>1, <2>4, <2>5, <3>1, <4>1 DEF Sole
    <3>2. CASE d # l.d
      <4>1. Cleared(d) => Cleared(d)'
        BY <1>2, <2>1, <3>2, ClearedBeside
      <4>2. Sole(b) /\ store'.outputs[d] = store.outputs[d]
        BY <1>3, <2>2, <3>2
      <4> QED BY <1>2, <1>3, <2>5, <4>1, <4>2, SoleBeside
    <3> QED BY <3>1, <3>2
  <2>6. Sole(c)'
    BY <1>4, <2>1 DEF Sole
  <2>7. ASSUME NEW r \in hist'.published PROVE Accounted(r)'
    <3>1. r \in Runs /\ Accounted(r) /\ r[1] \in Digests /\ r[2] # 0
      BY <1>3, <2>2, <2>7, RunsAre
    <3>2. ASSUME store.outputs[r[1]].n = r[2] PROVE Has(l, r) \/ store'.outputs[r[1]] = store.outputs[r[1]]
      <4>1. CASE r[1] # l.d
        BY <2>2, <3>1, <4>1
      <4>2. CASE r[1] = l.d
        <5>1. store.outputs[l.d] # NoArt
          BY <3>1, <3>2, <4>2, Numbers
        <5>2. store.outputs[l.d] = l.tar
          BY <2>1, <2>3, <5>1 DEF Cleared
        <5> QED BY <2>1, <3>2, <4>2, <5>2 DEF Has
      <4> QED BY <4>1, <4>2
    <3> QED BY <1>1, <3>1, <3>2, StillAccounted
  <2> QED BY <2>5, <2>6, <2>7 DEF Books
<1> QED BY <1>1, <1>5, <1>6, <1>7

\* Every step keeps the books.
LEMMA BooksKept ==
  ASSUME Alone, Peace, Books, [ClientNext]_allVars
  PROVE  Books'
<1>1. store \in Directory /\ hist \in Hists /\ Aboard
  BY Typed DEF Peace, Good
<1>2. CASE client' = client /\ store' = store /\ hist' = hist
  BY <1>2 DEF Books, Plain, Sole, Cleared, Queue, Record, Accounted, Has, Safe
<1>3. CASE System /\ client' = client
  <2>1. CASE Plain
    BY <1>3, <2>1, BooksSystem DEF Alone
  <2>2. CASE ~Plain
    BY <1>3, <2>2 DEF Books, Plain
  <2> QED BY <2>1, <2>2
<1>4. ASSUME NEW c \in Clients, Acts(c) PROVE Books'
  <2>1. PICK l \in Programs : Goes(c, l)
    BY <1>4 DEF Acts, Looks, Takes, Submitted, Deleted
  <2>2. \A b \in Clients : client'[b].kind = client[b].kind
    BY <1>1, <2>1 DEF Goes, Aboard
  <2>3. CASE Plain
    BY <1>4, <2>3, BooksClient
  <2>4. CASE ~Plain
    BY <2>2, <2>4 DEF Books, Plain
  <2> QED BY <2>3, <2>4
<1>5. ~Users
  BY DEF Alone, Users, Submit, Cancel, Delete, PruneStaleJobs, WipeAllJobs
<1> QED BY <1>1, <1>2, <1>3, <1>4, <1>5, ClientsDo DEF allVars, clientVars, vars

\* Two agents at work on plans, the same or not, lose no artefact between them: as
\* long as neither says --fresh and nobody else removes anything, whatever the poller
\* brought is on the server until one of them has it on disk, or failed to write it.
THEOREM NoResultIsLost ==
  ASSUME Alone
  PROVE  ClientSpec => []ResultKept
<1>1. ClientInit => Peace /\ Books
  <2> SUFFICES ASSUME ClientInit PROVE Peace /\ Books
    OBVIOUS
  <2>1. Peace
    BY ClientsFirst DEF Peace
  <2>2. \A c \in Clients : client[c].pc \in {"get", "post"}
    BY DEF ClientInit, NewClient
  <2>3. hist.published = {}
    BY DEF ClientInit, Init
  <2> QED BY <2>1, <2>2, <2>3 DEF Books, Sole
<1>2. Peace /\ Books /\ [ClientNext]_allVars => (Peace /\ Books)'
  BY PeaceKept, BooksKept DEF Alone
<1>3. Books => ResultKept
  BY DEF Books, Plain, Accounted, Has, Safe, ResultKept
<1> QED BY <1>1, <1>2, <1>3, PTL DEF ClientSpec
=============================================================================
