-------------------------- MODULE RunAnswersProofs --------------------------
(***************************************************************************)
(* For every number of launches, checkpoints, messages, restarts and       *)
(* failures: an accepted answer continues its run exactly once, a run that *)
(* can be continued names its last checkpoint, and a queued message is     *)
(* delivered at most once and never left behind an idle inbox.             *)
(***************************************************************************)
EXTENDS RunLifecycleProofs, FiniteSetTheorems

-----------------------------------------------------------------------------
(* What the steps do to the parts that the invariants read. *)

OthersSame(t) == \A u \in Tasks \ {t} : ex'[u] = ex[u]

LEMMA Owned ==
  ASSUME RunInv, NEW t \in Tasks, ex[t].pc # "off"
  PROVE  /\ owner = t /\ task[t].st = "owner" /\ ~PendingTask(t)
         /\ \A u \in Tasks \ {t} : ex[u].pc = "off" /\ ex[u].prod = "off" /\ task[u].st # "owner"
<1>1. owner = t /\ task[t].st = "owner"
  BY DEF RunInv, OneOwner
<1>2. \A u \in Tasks \ {t} : owner # u
  BY <1>1
<1> QED BY <1>1, <1>2, OwnerOnly DEF PendingTask

LEMMA Replaced ==
  ASSUME RunInv, NEW t \in Tasks, NEW g, ex' = [ex EXCEPT ![t] = g]
  PROVE  ex'[t] = g /\ OthersSame(t)
  BY ProducerTypes DEF OthersSame

\* Where a producer goes without a commit.
ProdMoves(p, q) ==
    \/ q = p
    \/ p = "run" /\ q = "empty"
    \/ p \in {"run", "empty", "parked"} /\ q = "draining"
    \/ p \in {"parked", "done", "draining"} /\ q = "ended"

\* A step of the producer that neither commits nor takes a resume.
LocalStep(t) ==
    /\ UNCHANGED <<doc, cps, task, owner, current, oldWaits, answered, inputs, incidents>>
    /\ OthersSame(t)
    /\ ex'[t].pc = ex[t].pc /\ ex'[t].status = ex[t].status /\ ex'[t].seen = ex[t].seen
    /\ ex'[t].wait = ex[t].wait /\ ex'[t].claim = ex[t].claim /\ ex'[t].svc = ex[t].svc
    /\ ex'[t].at = ex[t].at /\ ex'[t].input = ex[t].input
    /\ ProdMoves(ex[t].prod, ex'[t].prod)
    /\ \/ ex'[t].stream = ex[t].stream
       \/ /\ Producing(t) /\ ex'[t].prod \in {"draining", "ended"}
          /\ \E v \in {"failed", "done"} : ex'[t].stream = Append(ex[t].stream, v)

LEMMA ProducerClaimLocal ==
  ASSUME RunInv, NEW t \in Tasks, NEW m \in Messages, ProducerClaim(t, m)
  PROVE  LocalStep(t) /\ ex[t].prod = "run" /\ ex'[t].prod = "run" /\ ex'[t].held = {m}
<1>1. ex[t].prod = "run" /\ UNCHANGED cps /\ UNCHANGED producerVars
  BY DEF ProducerClaim
<1>2. PICK g : g = [ex[t] EXCEPT !.held = {m}] /\ ex' = [ex EXCEPT ![t] = g]
  BY ProducerTypes DEF ProducerClaim
<1>3. ex'[t] = g /\ OthersSame(t)
  BY <1>2, Replaced
<1>4. /\ g.pc = ex[t].pc /\ g.prod = ex[t].prod /\ g.status = ex[t].status /\ g.seen = ex[t].seen
      /\ g.wait = ex[t].wait /\ g.claim = ex[t].claim /\ g.svc = ex[t].svc
      /\ g.stream = ex[t].stream /\ g.at = ex[t].at /\ g.input = ex[t].input /\ g.held = {m}
  BY <1>2, ProducerTypes DEF Executions
<1> QED BY <1>1, <1>3, <1>4 DEF LocalStep, producerVars, ProdMoves

LEMMA ProducerEmptyLocal ==
  ASSUME RunInv, NEW t \in Tasks, ProducerEmpty(t)
  PROVE  LocalStep(t) /\ ex[t].prod = "run" /\ ex'[t].prod = "empty" /\ ex'[t].held = {}
<1>1. ex[t].prod = "run" /\ ex[t].held = {} /\ UNCHANGED cps /\ UNCHANGED producerVars
  BY DEF ProducerEmpty
<1>2. PICK g : g = [ex[t] EXCEPT !.prod = "empty"] /\ ex' = [ex EXCEPT ![t] = g]
  BY ProducerTypes DEF ProducerEmpty
<1>3. ex'[t] = g /\ OthersSame(t)
  BY <1>2, Replaced
<1>4. /\ g.pc = ex[t].pc /\ g.prod = "empty" /\ g.status = ex[t].status /\ g.seen = ex[t].seen
      /\ g.wait = ex[t].wait /\ g.claim = ex[t].claim /\ g.svc = ex[t].svc
      /\ g.stream = ex[t].stream /\ g.at = ex[t].at /\ g.input = ex[t].input /\ g.held = ex[t].held
  BY <1>2, ProducerTypes DEF Executions
<1> QED BY <1>1, <1>3, <1>4 DEF LocalStep, producerVars, ProdMoves

\* The other local steps keep what the node holds, and at most cancel the services.
EndingStep(t) ==
    /\ LocalStep(t)
    /\ ex'[t].held = ex[t].held
    /\ ex'[t].prod = ex[t].prod \/ ex'[t].prod \in {"draining", "ended"}
    /\ \/ services' = services
       \/ Producing(t) /\ services' = [services EXCEPT ![ex[t].svc].cancelled = TRUE]
LEMMA ProducerEnding ==
  ASSUME RunInv, NEW t \in Tasks,
         \/ ProducerFail(t) \/ ParkedCancel(t) \/ ParkedResumeRefused(t)
         \/ ProducerEnd(t) \/ ProducerEndFails(t)
         \/ \E failed \in BOOLEAN : KidsSettle(t, failed)
  PROVE  EndingStep(t)
<1>0. ex[t] \in Executions /\ ex \in [Tasks -> Executions]
  BY ProducerTypes
<1>1. CASE ParkedCancel(t)
  <2>1. PICK g : g = [ex[t] EXCEPT !.prod = "draining"] /\ ex' = [ex EXCEPT ![t] = g]
    BY <1>0, <1>1 DEF ParkedCancel
  <2>2. /\ ex[t].prod = "parked" /\ UNCHANGED <<cps, services>> /\ UNCHANGED producerVars
        /\ g.prod = "draining"
    BY <1>0, <1>1, <2>1 DEF ParkedCancel, Executions
  <2>8. /\ g.held = ex[t].held /\ g.stream = ex[t].stream
        /\ g.pc = ex[t].pc /\ g.status = ex[t].status /\ g.seen = ex[t].seen
        /\ g.wait = ex[t].wait /\ g.claim = ex[t].claim /\ g.svc = ex[t].svc
        /\ g.at = ex[t].at /\ g.input = ex[t].input
    BY <1>0, <2>1 DEF Executions
  <2> QED BY <2>1, <2>2, <2>8, Replaced DEF EndingStep, LocalStep, ProdMoves, producerVars
<1>2. CASE \E failed \in BOOLEAN : KidsSettle(t, failed)
  <2>1. PICK failed \in BOOLEAN : KidsSettle(t, failed)
    BY <1>2
  <2>0. PICK b : b = (ex[t].kidsFailed \/ failed)
    OBVIOUS
  <2>2. PICK g : /\ g = [ex[t] EXCEPT !.kids = FALSE, !.kidsFailed = b]
                 /\ ex' = [ex EXCEPT ![t] = g]
    BY <1>0, <2>0, <2>1 DEF KidsSettle
  <2>3. UNCHANGED <<cps, services>> /\ UNCHANGED producerVars
    BY <2>1 DEF KidsSettle
  <2>5. g.prod = ex[t].prod
    BY <1>0, <2>2 DEF Executions
  <2>8. /\ g.held = ex[t].held /\ g.stream = ex[t].stream
        /\ g.pc = ex[t].pc /\ g.status = ex[t].status /\ g.seen = ex[t].seen
        /\ g.wait = ex[t].wait /\ g.claim = ex[t].claim /\ g.svc = ex[t].svc
        /\ g.at = ex[t].at /\ g.input = ex[t].input
    BY <1>0, <2>2 DEF Executions
  <2> QED BY <2>2, <2>3, <2>5, <2>8, Replaced DEF EndingStep, LocalStep, ProdMoves, producerVars
<1>3. CASE ProducerFail(t)
  <2>1. PICK g : /\ g = [ex[t] EXCEPT !.prod = "draining", !.inbox = ex[t].inbox,
                                      !.stream = Append(ex[t].stream, "failed")]
                 /\ ex' = [ex EXCEPT ![t] = g]
    BY <1>0, <1>3 DEF ProducerFail, Executions
  <2>2. /\ ex[t].prod \in {"run", "empty"} /\ UNCHANGED cps /\ UNCHANGED producerVars
        /\ services' = [services EXCEPT ![ex[t].svc].cancelled = TRUE]
    BY <1>3 DEF ProducerFail
  <2>3. Producing(t)
    BY <2>2 DEF Producing
  <2>8. /\ g.held = ex[t].held /\ g.stream = Append(ex[t].stream, "failed")
        /\ g.pc = ex[t].pc /\ g.status = ex[t].status /\ g.seen = ex[t].seen
        /\ g.wait = ex[t].wait /\ g.claim = ex[t].claim /\ g.svc = ex[t].svc
        /\ g.at = ex[t].at /\ g.input = ex[t].input /\ g.prod = "draining"
    BY <1>0, <2>1 DEF Executions
  <2> QED BY <2>1, <2>2, <2>3, <2>8, Replaced DEF EndingStep, LocalStep, ProdMoves, producerVars
<1>4. CASE ParkedResumeRefused(t)
  <2>1. PICK g : /\ g = [ex[t] EXCEPT !.prod = "draining", !.inbox = Tail(ex[t].inbox),
                                      !.stream = Append(ex[t].stream, "failed")]
                 /\ ex' = [ex EXCEPT ![t] = g]
    BY <1>0, <1>4 DEF ParkedResumeRefused, Executions
  <2>2. /\ ex[t].prod = "parked" /\ UNCHANGED cps /\ UNCHANGED producerVars
        /\ services' = [services EXCEPT ![ex[t].svc].cancelled = TRUE]
    BY <1>4 DEF ParkedResumeRefused
  <2>3. Producing(t)
    BY <2>2 DEF Producing
  <2>8. /\ g.held = ex[t].held /\ g.stream = Append(ex[t].stream, "failed")
        /\ g.pc = ex[t].pc /\ g.status = ex[t].status /\ g.seen = ex[t].seen
        /\ g.wait = ex[t].wait /\ g.claim = ex[t].claim /\ g.svc = ex[t].svc
        /\ g.at = ex[t].at /\ g.input = ex[t].input /\ g.prod = "draining"
    BY <1>0, <2>1 DEF Executions
  <2> QED BY <2>1, <2>2, <2>3, <2>8, Replaced DEF EndingStep, LocalStep, ProdMoves, producerVars
<1>5. CASE ProducerEndFails(t)
  <2>1. PICK g : /\ g = [ex[t] EXCEPT !.prod = "ended", !.inbox = ex[t].inbox,
                                      !.stream = Append(ex[t].stream, "failed")]
                 /\ ex' = [ex EXCEPT ![t] = g]
    BY <1>0, <1>5 DEF ProducerEndFails, Executions
  <2>2. /\ ex[t].prod \in {"parked", "done", "draining"} /\ UNCHANGED cps /\ UNCHANGED producerVars
        /\ services' = [services EXCEPT ![ex[t].svc].cancelled = TRUE]
    BY <1>5 DEF ProducerEndFails, Drained
  <2>3. Producing(t)
    BY <2>2 DEF Producing
  <2>8. /\ g.held = ex[t].held /\ g.stream = Append(ex[t].stream, "failed")
        /\ g.pc = ex[t].pc /\ g.status = ex[t].status /\ g.seen = ex[t].seen
        /\ g.wait = ex[t].wait /\ g.claim = ex[t].claim /\ g.svc = ex[t].svc
        /\ g.at = ex[t].at /\ g.input = ex[t].input /\ g.prod = "ended"
    BY <1>0, <2>1 DEF Executions
  <2> QED BY <2>1, <2>2, <2>3, <2>8, Replaced DEF EndingStep, LocalStep, ProdMoves, producerVars
<1>6. CASE ProducerEnd(t)
  <2>0. PICK z : z = IF ex[t].prod = "done" THEN Append(ex[t].stream, "done") ELSE ex[t].stream
    OBVIOUS
  <2>1. PICK g : /\ g = [ex[t] EXCEPT !.prod = "ended", !.inbox = ex[t].inbox, !.stream = z]
                 /\ ex' = [ex EXCEPT ![t] = g]
    BY <1>0, <1>6, <2>0 DEF ProducerEnd, Executions
  <2>2. /\ ex[t].prod \in {"parked", "done", "draining"} /\ UNCHANGED <<cps, services>>
        /\ UNCHANGED producerVars
    BY <1>6 DEF ProducerEnd, Drained
  <2>3. Producing(t)
    BY <2>2 DEF Producing
  <2>8. /\ g.held = ex[t].held /\ g.stream = z
        /\ g.pc = ex[t].pc /\ g.status = ex[t].status /\ g.seen = ex[t].seen
        /\ g.wait = ex[t].wait /\ g.claim = ex[t].claim /\ g.svc = ex[t].svc
        /\ g.at = ex[t].at /\ g.input = ex[t].input /\ g.prod = "ended"
    BY <1>0, <2>1 DEF Executions
  <2> QED BY ZenonT(60), <2>0, <2>1, <2>2, <2>3, <2>8, Replaced DEF EndingStep, LocalStep, ProdMoves, producerVars
<1> QED BY <1>1, <1>2, <1>3, <1>4, <1>5, <1>6

\* A step of the producer that commits a checkpoint.
CommitStep(t) ==
    /\ UNCHANGED <<doc, task, owner, services, current, oldWaits, answered, inputs, incidents>>
    /\ OthersSame(t) /\ Working(t)
    /\ ex'[t].pc = ex[t].pc /\ ex'[t].status = ex[t].status /\ ex'[t].seen = ex[t].seen
    /\ ex'[t].wait = ex[t].wait /\ ex'[t].claim = ex[t].claim /\ ex'[t].svc = ex[t].svc
    /\ Len(cps') = Len(cps) + 1 /\ \A k \in 1..Len(cps) : cps'[k] = cps[k]
    /\ cps'[Len(cps) + 1].from = ex[t].at /\ cps'[Len(cps) + 1].input = ex[t].input
    /\ cps'[Len(cps) + 1].consumed = StateConsumed(ex[t].at) \union ex[t].held
    /\ cps'[Len(cps) + 1].inputs = StateInputs(ex[t].at) \union ({ex[t].input} \ {0})
    /\ ex'[t].at = Len(cps) + 1 /\ ex'[t].held = {} /\ ex'[t].input = 0
    /\ \/ ex'[t].prod \in {"run", "done"} /\ ex'[t].stream = ex[t].stream
       \/ /\ ex'[t].prod = "parked"
          /\ \E v \in WaitEvents : /\ ex'[t].stream = Append(ex[t].stream, v)
                                   /\ v = "stopped" => Cancelled(t)

LEMMA Committed ==
  ASSUME RunInv, NEW t \in Tasks, NEW f \in Executions, Commit(t, f)
  PROVE  /\ Len(cps') = Len(cps) + 1 /\ \A k \in 1..Len(cps) : cps'[k] = cps[k]
         /\ cps'[Len(cps) + 1].from = ex[t].at /\ cps'[Len(cps) + 1].input = ex[t].input
         /\ cps'[Len(cps) + 1].consumed = StateConsumed(ex[t].at) \union ex[t].held
         /\ cps'[Len(cps) + 1].inputs = StateInputs(ex[t].at) \union ({ex[t].input} \ {0})
         /\ OthersSame(t)
         /\ ex'[t].at = Len(cps) + 1 /\ ex'[t].held = {} /\ ex'[t].input = 0
         /\ ex'[t].pc = f.pc /\ ex'[t].status = f.status /\ ex'[t].seen = f.seen
         /\ ex'[t].wait = f.wait /\ ex'[t].claim = f.claim /\ ex'[t].svc = f.svc
         /\ ex'[t].prod = f.prod /\ ex'[t].stream = f.stream
<1>1. RunTypeOK
  BY DEF RunInv
<1>2. CommitEffect(t, f)
  BY <1>1, CommitFacts
<1>3. PICK c : /\ c = [from |-> ex[t].at, consumed |-> StateConsumed(ex[t].at) \union ex[t].held,
                      input |-> ex[t].input,
                      inputs |-> StateInputs(ex[t].at) \union ({ex[t].input} \ {0})]
              /\ cps' = Append(cps, c)
  BY DEF Commit
<1>4. /\ c.from = ex[t].at /\ c.input = ex[t].input
      /\ c.consumed = StateConsumed(ex[t].at) \union ex[t].held
      /\ c.inputs = StateInputs(ex[t].at) \union ({ex[t].input} \ {0})
  BY <1>3
<1>5. cps \in Seq(Checkpoints) /\ Len(cps) \in Nat
  BY <1>1 DEF RunTypeOK, Shapes
<1>6. cps'[Len(cps) + 1] = c /\ Len(cps') = Len(cps) + 1 /\ \A k \in 1..Len(cps) : cps'[k] = cps[k]
  BY <1>3, <1>5
<1>7. PICK n \in Nat : n = Len(cps) + 1
  BY <1>5
<1>8. PICK g : g = [f EXCEPT !.at = n, !.held = {}, !.input = 0] /\ ex' = [ex EXCEPT ![t] = g]
  BY <1>7 DEF Commit
<1>9. /\ g.at = n /\ g.held = {} /\ g.input = 0 /\ g.pc = f.pc /\ g.status = f.status
      /\ g.seen = f.seen /\ g.wait = f.wait /\ g.claim = f.claim /\ g.svc = f.svc
      /\ g.prod = f.prod /\ g.stream = f.stream
  BY <1>8 DEF Executions
<1>10. ex'[t] = g /\ OthersSame(t)
  BY <1>8, Replaced
<1> QED BY <1>4, <1>6, <1>7, <1>9, <1>10

LEMMA ProducerCommitting ==
  ASSUME RunInv, NEW t \in Tasks, ProducerStep(t) \/ ProducerWait(t) \/ ProducerDone(t)
  PROVE  CommitStep(t)
<1>0. ex[t] \in Executions
  BY ProducerTypes
<1>1. CASE ProducerStep(t)
  <2>1. PICK kids \in {ex[t].kids, TRUE} : Commit(t, [ex[t] EXCEPT !.kids = kids])
    BY <1>1 DEF ProducerStep
  <2>2. PICK f : f = [ex[t] EXCEPT !.kids = kids] /\ Commit(t, f)
    BY <2>1
  <2>3. f \in Executions
    BY <1>0, <2>2 DEF Executions
  <2>4. /\ f.pc = ex[t].pc /\ f.status = ex[t].status /\ f.seen = ex[t].seen
        /\ f.wait = ex[t].wait /\ f.claim = ex[t].claim /\ f.svc = ex[t].svc
        /\ f.prod = ex[t].prod /\ f.stream = ex[t].stream
    BY <1>0, <2>2 DEF Executions
  <2>5. ex[t].prod = "run" /\ UNCHANGED services /\ UNCHANGED producerVars
    BY <1>1 DEF ProducerStep
  <2> QED BY ZenonT(60), <2>2, <2>3, <2>4, <2>5, Committed DEF CommitStep, Working, producerVars
<1>2. CASE ProducerDone(t)
  <2>2. PICK f : f = [ex[t] EXCEPT !.prod = "done"] /\ Commit(t, f)
    BY <1>2 DEF ProducerDone
  <2>3. f \in Executions
    BY <1>0, <2>2 DEF Executions
  <2>4. /\ f.pc = ex[t].pc /\ f.status = ex[t].status /\ f.seen = ex[t].seen
        /\ f.wait = ex[t].wait /\ f.claim = ex[t].claim /\ f.svc = ex[t].svc
        /\ f.prod = "done" /\ f.stream = ex[t].stream
    BY <1>0, <2>2 DEF Executions
  <2>5. ex[t].prod = "run" /\ UNCHANGED services /\ UNCHANGED producerVars
    BY <1>2 DEF ProducerDone
  <2> QED BY ZenonT(60), <2>2, <2>3, <2>4, <2>5, Committed DEF CommitStep, Working, producerVars
<1>3. CASE ProducerWait(t)
  <2>1. PICK w \in {"inbox", "input", "model_selection", "stopped"} :
          Park(t, w) /\ (w = "stopped" => Cancelled(t))
    BY <1>3 DEF ProducerWait
  <2>2. w \in WaitEvents /\ w \in StreamEvents
    BY DEF WaitEvents, WaitKinds, StreamEvents
  <2>3. PICK z : z = Append(ex[t].stream, w)
    OBVIOUS
  <2>4. z \in Seq(StreamEvents)
    BY <2>2, <2>3, ProducerTypes, AppendLast
  <2>5. PICK f : f = [ex[t] EXCEPT !.prod = "parked", !.stream = z] /\ Commit(t, f)
    BY <2>1, <2>3, ProducerTypes DEF Park, Executions
  <2>6. f \in Executions
    BY <1>0, <2>4, <2>5 DEF Executions
  <2>7. /\ f.pc = ex[t].pc /\ f.status = ex[t].status /\ f.seen = ex[t].seen
        /\ f.wait = ex[t].wait /\ f.claim = ex[t].claim /\ f.svc = ex[t].svc
        /\ f.prod = "parked" /\ f.stream = z
    BY <1>0, <2>5 DEF Executions
  <2>8. Working(t) /\ UNCHANGED services /\ UNCHANGED producerVars
    BY <1>3 DEF ProducerWait, Working
  <2> QED BY ZenonT(60), <2>1, <2>2, <2>3, <2>5, <2>6, <2>7, <2>8, Committed DEF CommitStep, producerVars
<1> QED BY <1>1, <1>2, <1>3

\* The step that takes the resume of task r.
ResumedStep(t, r) ==
    /\ UNCHANGED <<doc, cps, owner, services, current, oldWaits, answered, inputs, incidents>>
    /\ OthersSame(t) /\ ex[t].prod = "parked" /\ ~Cancelled(t)
    /\ r \in Tasks /\ task[r].st = "offered" /\ task[r].resume = ex[t].at
    /\ task'[r].st = "gone" /\ \A u \in Tasks \ {r} : task'[u] = task[u]
    /\ ex'[t].pc = ex[t].pc /\ ex'[t].status = ex[t].status /\ ex'[t].seen = ex[t].seen
    /\ ex'[t].wait = ex[t].wait /\ ex'[t].svc = ex[t].svc /\ ex'[t].at = ex[t].at
    /\ ex'[t].held = ex[t].held /\ ex'[t].prod = "run" /\ ex'[t].input = task[r].input
    /\ ex'[t].stream = Append(ex[t].stream, "resumed")

LEMMA ProducerResuming ==
  ASSUME RunInv, NEW t \in Tasks, ParkedResume(t)
  PROVE  ResumedStep(t, Front(t))
<1>1. /\ ex[t].prod = "parked" /\ ex[t].inbox # <<>> /\ ~Cancelled(t)
      /\ task[Front(t)].resume = ex[t].at /\ task' = [task EXCEPT ![Front(t)] = Gone]
      /\ UNCHANGED <<doc, cps, owner, services, current, oldWaits, answered, inputs, incidents>>
  BY DEF ParkedResume
<1>2. PICK s \in Seq(Tasks) : s = ex[t].inbox
  BY ProducerTypes
<1>3. s # <<>>
  BY <1>1, <1>2
<1>4. Head(s) \in Tasks /\ Head(s) = s[1] /\ Len(s) >= 1 /\ Len(s) \in Nat
  BY <1>3, TailFacts
<1>5. task[s[1]].st = "offered"
  BY <1>1, <1>2, <1>4 DEF RunInv, OffersQueued
<1>6. Front(t) \in Tasks /\ task[Front(t)].st = "offered"
  BY <1>2, <1>4, <1>5 DEF Front
<1>7. task'[Front(t)].st = "gone" /\ \A u \in Tasks \ {Front(t)} : task'[u] = task[u]
  BY <1>1, <1>6, TaskFacts
<1>8. PICK r : r = Front(t)
  OBVIOUS
<1>9. PICK g : /\ g = [ex[t] EXCEPT !.inbox = Tail(ex[t].inbox), !.prod = "run", !.claim = task[r].claim,
                                    !.input = task[r].input,
                                    !.stream = Append(ex[t].stream, "resumed")]
               /\ ex' = [ex EXCEPT ![t] = g]
  BY <1>8, ProducerTypes DEF ParkedResume, Executions
<1>10. /\ g.pc = ex[t].pc /\ g.status = ex[t].status /\ g.seen = ex[t].seen
       /\ g.wait = ex[t].wait /\ g.svc = ex[t].svc /\ g.at = ex[t].at
       /\ g.held = ex[t].held /\ g.prod = "run" /\ g.input = task[r].input
       /\ g.stream = Append(ex[t].stream, "resumed")
  BY <1>9, ProducerTypes DEF Executions
<1>11. ex'[t] = g /\ OthersSame(t)
  BY <1>9, Replaced
<1> QED BY <1>1, <1>6, <1>7, <1>8, <1>10, <1>11 DEF ResumedStep

-----------------------------------------------------------------------------
(* The consumer. *)

\* The producer's part of an execution is left alone.
ProducerSame(t) ==
    /\ ex'[t].prod = ex[t].prod /\ ex'[t].at = ex[t].at /\ ex'[t].held = ex[t].held
    /\ ex'[t].input = ex[t].input /\ ex'[t].svc = ex[t].svc /\ ex'[t].claim = ex[t].claim

FlushStep(t) ==
    /\ UNCHANGED <<cps, task, owner, services, current, oldWaits, answered, inputs, incidents>>
    /\ OthersSame(t) /\ ProducerSame(t) /\ ex[t].pc \in {"run", "publish", "final"}
    /\ ex'[t].pc = ex[t].pc /\ ex'[t].status = ex[t].status /\ ex'[t].wait = ex[t].wait
    /\ ex'[t].stream = ex[t].stream
    /\ ex'[t].seen = doc'.checkpoint /\ ex[t].seen <= doc'.checkpoint
    /\ doc'.checkpoint \in Nat /\ doc.checkpoint < doc'.checkpoint /\ doc'.checkpoint <= Len(cps)
    /\ doc'.status = doc.status /\ doc'.wait = doc.wait /\ doc'.abort = doc.abort
    /\ doc'.resumeClaim = doc.resumeClaim /\ doc'.resumeCheckpoint = doc.resumeCheckpoint
    /\ doc'.resumeInput = doc.resumeInput /\ doc'.queue = doc.queue

LEMMA Flushing == ASSUME RunInv, NEW t \in Tasks, Flush(t) PROVE FlushStep(t)
<1>1. PICK k \in (doc.checkpoint + 1)..Len(cps) :
        /\ ex[t].seen <= k /\ ex' = [ex EXCEPT ![t].seen = k] /\ doc' = [doc EXCEPT !.checkpoint = k]
  BY DEF Flush
<1>2. /\ UNCHANGED <<cps, task, owner, services, current, oldWaits, answered, inputs, incidents>>
      /\ ex[t].pc \in {"run", "publish", "final"}
  BY DEF Flush, consumerVars
<1>3. k \in Nat /\ doc.checkpoint < k /\ k <= Len(cps)
  BY ConsumerStart
<1>4. PICK g : g = [ex[t] EXCEPT !.seen = k] /\ ex' = [ex EXCEPT ![t] = g]
  BY <1>1, ConsumerStart DEF Executions
<1>5. /\ g.pc = ex[t].pc /\ g.prod = ex[t].prod /\ g.status = ex[t].status /\ g.seen = k
      /\ g.wait = ex[t].wait /\ g.claim = ex[t].claim /\ g.svc = ex[t].svc
      /\ g.at = ex[t].at /\ g.input = ex[t].input /\ g.held = ex[t].held
      /\ g.stream = ex[t].stream
  BY <1>4, ConsumerStart DEF Executions
<1>6. ex'[t] = g /\ OthersSame(t)
  BY <1>4, Replaced
<1>7. /\ doc'.checkpoint = k /\ doc'.status = doc.status /\ doc'.wait = doc.wait
      /\ doc'.resumeClaim = doc.resumeClaim /\ doc'.resumeCheckpoint = doc.resumeCheckpoint
      /\ doc'.resumeInput = doc.resumeInput /\ doc'.abort = doc.abort /\ doc'.queue = doc.queue
  BY <1>1, ConsumerStart DEF Documents
<1> QED BY <1>1, <1>2, <1>3, <1>5, <1>6, <1>7 DEF FlushStep, ProducerSame

\* The consumer takes an event from the stream.
EventStep(t) ==
    /\ UNCHANGED <<doc, cps, task, owner, services, current, oldWaits, answered, inputs, incidents>>
    /\ OthersSame(t) /\ ProducerSame(t) /\ ex[t].pc = "run"
    /\ ex[t].stream # <<>> /\ ex'[t].stream = Tail(ex[t].stream)
    /\ \/ /\ Head(ex[t].stream) \in {"resumed", "done"}
          /\ ex'[t].status \in {"running", "completed"} /\ ex'[t].pc = "run"
       \/ /\ Head(ex[t].stream) = "failed" /\ ex'[t].pc = "run"
          /\ ex'[t].status = ex[t].status /\ ex'[t].wait = ex[t].wait /\ ex'[t].seen = ex[t].seen
       \/ /\ Head(ex[t].stream) \in WaitEvents /\ ex'[t].pc \in {"run", "publish"}
          /\ ex'[t].seen = Len(cps) /\ ex'[t].wait.id = waits + 1
          /\ ex'[t].status \in {"stopped", "waiting"}
          /\ ex'[t].status = "stopped" => Head(ex[t].stream) = "stopped"

LEMMA TakingEvent == ASSUME RunInv, NEW t \in Tasks, TakeEvent(t) PROVE EventStep(t)
<1>1. /\ ex[t] \in Executions /\ ex[t].pc = "run" /\ ex[t].stream # <<>>
      /\ UNCHANGED <<doc, task, current>> /\ UNCHANGED consumerVars
  BY ConsumerStart DEF TakeEvent
<1>2. PICK z : z = Tail(ex[t].stream)
  OBVIOUS
<1>3. PICK v : v = Head(ex[t].stream)
  OBVIOUS
<1>4. PICK rest : rest = [ex[t] EXCEPT !.stream = z]
  OBVIOUS
<1>5. PICK wait : wait = [id |-> waits + 1, kind |-> v]
  OBVIOUS
<1>6. wait.id = waits + 1
  BY <1>5
<1>7. v \in StreamEvents
  <2>1. PICK s \in Seq(StreamEvents) : s = ex[t].stream
    BY ProducerTypes
  <2> QED BY <1>1, <1>3, <2>1, TailFacts
<1>8. CASE v \in {"resumed", "done"}
  <2>1. PICK s : s = IF v = "resumed" THEN "running" ELSE "completed"
    OBVIOUS
  <2>2. PICK g : g = [rest EXCEPT !.status = s, !.wait = NoWait] /\ ex' = [ex EXCEPT ![t] = g]
    BY <1>2, <1>3, <1>4, <1>8, <2>1 DEF TakeEvent
  <2>3. /\ g.prod = ex[t].prod /\ g.claim = ex[t].claim /\ g.svc = ex[t].svc /\ g.held = ex[t].held
        /\ g.at = ex[t].at /\ g.input = ex[t].input /\ g.stream = z /\ g.pc = ex[t].pc /\ g.status = s
    BY <1>1, <1>4, <2>2 DEF Executions
  <2>4. ex'[t] = g /\ OthersSame(t)
    BY <2>2, Replaced
  <2> QED BY <1>1, <1>2, <1>3, <1>8, <2>1, <2>3, <2>4 DEF EventStep, ProducerSame, consumerVars
<1>9. CASE v = "failed"
  <2>2. PICK g : g = [rest EXCEPT !.failed = TRUE] /\ ex' = [ex EXCEPT ![t] = g]
    BY <1>2, <1>3, <1>4, <1>9 DEF TakeEvent
  <2>3. /\ g.prod = ex[t].prod /\ g.claim = ex[t].claim /\ g.svc = ex[t].svc /\ g.held = ex[t].held
        /\ g.at = ex[t].at /\ g.input = ex[t].input /\ g.stream = z /\ g.pc = ex[t].pc
        /\ g.status = ex[t].status /\ g.wait = ex[t].wait /\ g.seen = ex[t].seen
    BY <1>1, <1>4, <2>2 DEF Executions
  <2>4. ex'[t] = g /\ OthersSame(t)
    BY <2>2, Replaced
  <2> QED BY <1>1, <1>2, <1>3, <1>9, <2>3, <2>4 DEF EventStep, ProducerSame, consumerVars
<1>10. CASE v \in WaitEvents
  <2>1. PICK s : s = IF v = "stopped" THEN "stopped" ELSE "waiting"
    OBVIOUS
  <2>2. PICK p : p = IF ex[t].kids THEN "publish" ELSE "run"
    OBVIOUS
  <2>3. PICK g : /\ g = [rest EXCEPT !.seen = Len(cps), !.wait = wait, !.status = s,
                                     !.active = ex[t].kids, !.pc = p]
                 /\ ex' = [ex EXCEPT ![t] = g]
    <3>1. v \notin {"resumed", "done", "failed"}
      BY <1>10 DEF WaitEvents, WaitKinds
    <3> QED BY <1>2, <1>3, <1>4, <1>5, <2>1, <2>2, <3>1 DEF TakeEvent
  <2>4. /\ g.prod = ex[t].prod /\ g.claim = ex[t].claim /\ g.svc = ex[t].svc /\ g.held = ex[t].held
        /\ g.at = ex[t].at /\ g.input = ex[t].input /\ g.stream = z /\ g.pc = p
        /\ g.status = s /\ g.wait = wait /\ g.seen = Len(cps)
    BY <1>1, <1>4, <2>3 DEF Executions
  <2>5. ex'[t] = g /\ OthersSame(t)
    BY <2>3, Replaced
  <2> QED BY <1>1, <1>2, <1>3, <1>6, <1>10, <2>1, <2>2, <2>4, <2>5 DEF EventStep, ProducerSame, consumerVars
<1> QED BY <1>7, <1>8, <1>9, <1>10 DEF StreamEvents, WaitEvents, WaitKinds

ClosedStep(t) ==
    /\ UNCHANGED <<doc, cps, task, owner, services, current, oldWaits, answered, inputs, incidents>>
    /\ OthersSame(t) /\ ex[t].pc = "run" /\ ex'[t].pc = "final"
    /\ ex[t].prod = "ended" /\ ex[t].stream = <<>>
    /\ ex'[t].prod = "ended" /\ ex'[t].stream = <<>> /\ ex'[t].held = ex[t].held
    /\ ex'[t].seen = Len(cps)
    /\ ex'[t].claim = ex[t].claim /\ ex'[t].wait = ex[t].wait
    /\ ex'[t].status = "waiting" => ex[t].status = "waiting"

LEMMA ClosingStream == ASSUME RunInv, NEW t \in Tasks, StreamClosed(t) PROVE ClosedStep(t)
<1>1. /\ ex[t] \in Executions /\ ex[t].pc = "run" /\ ex[t].prod = "ended" /\ ex[t].stream = <<>>
      /\ UNCHANGED <<doc, task, current, waits>> /\ UNCHANGED consumerVars
  BY ConsumerStart DEF StreamClosed
<1>2. PICK s : /\ s = IF Cancelled(t) /\ doc.abort THEN "stopped"
                      ELSE IF Cancelled(t) /\ closed THEN "interrupted"
                      ELSE IF ex[t].failed
                      THEN IF doc.abort THEN "stopped" ELSE IF closed THEN "interrupted" ELSE "error"
                      ELSE ex[t].status
               /\ ex' = [ex EXCEPT ![t] = [ex[t] EXCEPT !.pc = "final", !.seen = Len(cps),
                                             !.active = FALSE, !.status = s]]
  BY ConsumerStart DEF StreamClosed, Executions
<1>3. s \in {"stopped", "interrupted", "error"} \/ s = ex[t].status
  BY <1>2
<1>4. PICK g : /\ g = [ex[t] EXCEPT !.pc = "final", !.seen = Len(cps), !.active = FALSE, !.status = s]
               /\ ex' = [ex EXCEPT ![t] = g]
  BY <1>2
<1>5. /\ g.pc = "final" /\ g.prod = ex[t].prod /\ g.status = s /\ g.seen = Len(cps) /\ g.held = ex[t].held
      /\ g.claim = ex[t].claim /\ g.wait = ex[t].wait /\ g.stream = ex[t].stream
  BY <1>1, <1>4 DEF Executions
<1>6. ex'[t] = g /\ OthersSame(t)
  BY <1>4, Replaced
<1> QED BY <1>1, <1>3, <1>5, <1>6 DEF ClosedStep, consumerVars
\* What persist_event makes of the document, for the execution e.
MergedInto(d, e) ==
    /\ IF AlreadyClaimed(doc, e) THEN d.status = "running" /\ d.wait = NoWait
       ELSE /\ d.wait = e.wait
            /\ d.status = e.status \/ (d.status = "stopped" /\ e.status = "waiting" /\ doc.abort)
    /\ d.checkpoint = e.seen /\ d.resumeClaim = doc.resumeClaim /\ d.abort = doc.abort
    /\ IF doc.resumeCheckpoint # 0 /\ e.seen # 0 /\ e.seen # doc.resumeCheckpoint
       THEN d.resumeInput = 0 /\ d.resumeCheckpoint = 0
       ELSE d.resumeInput = doc.resumeInput /\ d.resumeCheckpoint = doc.resumeCheckpoint
    /\ \A m \in Messages :
         IF doc.queue[m] = "pending" /\ m \in Consumed(e.seen)
         THEN d.queue[m] = "consumed" ELSE d.queue[m] = doc.queue[m]

LEMMA Merging ==
  ASSUME RunInv, NEW t \in Tasks, NEW d, d = Merged(doc, ex[t])
  PROVE  MergedInto(d, ex[t])
<1>1. ex[t] \in Executions /\ doc \in Documents
  BY ConsumerStart
<1>2. PICK claimed \in BOOLEAN : claimed = AlreadyClaimed(doc, ex[t])
  BY DEF AlreadyClaimed
<1>3. PICK s : s = IF doc.abort /\ (IF claimed THEN "running" ELSE ex[t].status) = "waiting" THEN "stopped"
                   ELSE IF claimed THEN "running" ELSE ex[t].status
  OBVIOUS
<1>4. IF claimed THEN s = "running"
      ELSE s = ex[t].status \/ (s = "stopped" /\ ex[t].status = "waiting" /\ doc.abort)
  BY <1>3
<1>5. PICK w : w = IF claimed THEN NoWait ELSE ex[t].wait
  OBVIOUS
<1>6. PICK applied \in BOOLEAN :
        applied = (doc.resumeCheckpoint # 0 /\ ex[t].seen # 0 /\ ex[t].seen # doc.resumeCheckpoint)
  OBVIOUS
<1>7. PICK i : i = IF applied THEN 0 ELSE doc.resumeInput
  OBVIOUS
<1>8. PICK c : c = IF applied THEN 0 ELSE doc.resumeCheckpoint
  OBVIOUS
<1>9. PICK q : q = [m \in Messages |-> IF doc.queue[m] = "pending" /\ m \in Consumed(ex[t].seen)
                                       THEN "consumed" ELSE doc.queue[m]]
  OBVIOUS
<1>10. d = [doc EXCEPT !.status = s, !.wait = w, !.checkpoint = ex[t].seen, !.active = ex[t].active,
                       !.resumeInput = i, !.resumeCheckpoint = c, !.queue = q]
  BY <1>1, <1>2, <1>3, <1>5, <1>6, <1>7, <1>8, <1>9 DEF Merged, Documents
<1>11. /\ d.status = s /\ d.wait = w /\ d.checkpoint = ex[t].seen /\ d.resumeInput = i
       /\ d.resumeCheckpoint = c /\ d.resumeClaim = doc.resumeClaim /\ d.abort = doc.abort /\ d.queue = q
  BY <1>1, <1>10 DEF Documents
<1>12. \A m \in Messages : IF doc.queue[m] = "pending" /\ m \in Consumed(ex[t].seen)
                          THEN d.queue[m] = "consumed" ELSE d.queue[m] = doc.queue[m]
  BY <1>9, <1>11
<1>13. IF AlreadyClaimed(doc, ex[t]) THEN d.status = "running" /\ d.wait = NoWait
       ELSE /\ d.wait = ex[t].wait
            /\ d.status = ex[t].status \/ (d.status = "stopped" /\ ex[t].status = "waiting" /\ doc.abort)
  BY <1>2, <1>4, <1>5, <1>11
<1>14. IF doc.resumeCheckpoint # 0 /\ ex[t].seen # 0 /\ ex[t].seen # doc.resumeCheckpoint
       THEN d.resumeInput = 0 /\ d.resumeCheckpoint = 0
       ELSE d.resumeInput = doc.resumeInput /\ d.resumeCheckpoint = doc.resumeCheckpoint
  BY <1>6, <1>7, <1>8, <1>11
<1> QED BY <1>11, <1>12, <1>13, <1>14 DEF MergedInto

\* What is left of a closing execution, and of one that moves on.
Closing(t) ==
    /\ ex'[t].pc = "close" /\ ex'[t].prod = "ended" /\ ex'[t].held = {} /\ ex'[t].stream = <<>>
Moving(t, p) ==
    /\ ex'[t].pc = p /\ ProducerSame(t)
    /\ ex'[t].status = ex[t].status /\ ex'[t].wait = ex[t].wait
    /\ ex'[t].stream = ex[t].stream /\ ex'[t].seen = ex[t].seen

LEMMA GoingOn ==
  ASSUME RunInv, NEW t \in Tasks, NEW p \in {"run", "wake", "lastWake"}, ex' = [ex EXCEPT ![t] = After(@, p)]
  PROVE  OthersSame(t) /\ Moving(t, p)
<1>1. PICK g : g = [ex[t] EXCEPT !.pc = p] /\ ex' = [ex EXCEPT ![t] = g]
  BY ConsumerStart DEF After
<1>2. /\ g.pc = p /\ g.prod = ex[t].prod /\ g.status = ex[t].status /\ g.seen = ex[t].seen
      /\ g.wait = ex[t].wait /\ g.claim = ex[t].claim /\ g.svc = ex[t].svc
      /\ g.at = ex[t].at /\ g.input = ex[t].input /\ g.held = ex[t].held
      /\ g.stream = ex[t].stream
  BY <1>1, ConsumerStart DEF Executions
<1>3. ex'[t] = g /\ OthersSame(t)
  BY <1>1, Replaced
<1> QED BY <1>2, <1>3 DEF Moving, ProducerSame

LEMMA Ending ==
  ASSUME RunInv, NEW t \in Tasks, ex' = [ex EXCEPT ![t] = After(@, "close")]
  PROVE  OthersSame(t) /\ Closing(t)
<1>1. PICK g : g = [NoExecution EXCEPT !.pc = "close", !.prod = "ended"] /\ ex' = [ex EXCEPT ![t] = g]
  BY ConsumerStart DEF After
<1>2. g.pc = "close" /\ g.prod = "ended" /\ g.held = {} /\ g.stream = <<>>
  BY <1>1 DEF NoExecution
<1>3. ex'[t] = g /\ OthersSame(t)
  BY <1>1, Replaced
<1> QED BY <1>2, <1>3 DEF Closing

PersistStep(t) ==
    /\ UNCHANGED <<cps, task, owner, services, current, oldWaits, answered, inputs>>
    /\ OthersSame(t) /\ MergedInto(doc', ex[t])
    /\ incidents' = incidents \union
         IF ClaimPending /\ doc'.status # "running" THEN {"overwritten claim"} ELSE {}
    /\ \/ ex[t].pc = "publish" /\ Moving(t, "wake")
       \/ ex[t].pc = "final" /\ Moving(t, "lastWake")
       \/ ex[t].pc = "failed" /\ Closing(t)

LEMMA Persisting ==
  ASSUME RunInv, NEW t \in Tasks, PublishWait(t) \/ PersistFinal(t) \/ PersistFailure(t)
  PROVE  PersistStep(t)
<1>1. PICK p \in {"wake", "lastWake", "close"} :
        /\ PersistEvent(t, p)
        /\ \/ ex[t].pc = "publish" /\ p = "wake"
           \/ ex[t].pc = "final" /\ p = "lastWake"
           \/ ex[t].pc = "failed" /\ p = "close"
  BY DEF PublishWait, PersistFinal, PersistFailure
<1>2. /\ UNCHANGED <<cps, task, owner, services, current, oldWaits, answered, inputs>>
      /\ doc' = Merged(doc, ex[t]) /\ ex' = [ex EXCEPT ![t] = After(@, p)]
      /\ incidents' = incidents \union
           IF ClaimPending /\ doc'.status # "running" THEN {"overwritten claim"} ELSE {}
  BY <1>1 DEF PersistEvent
<1>3. MergedInto(doc', ex[t])
  BY <1>2, Merging
<1>4. OthersSame(t) /\ IF p = "close" THEN Closing(t) ELSE Moving(t, p)
  <2>1. CASE p = "close"
    BY <1>2, <2>1, Ending
  <2>2. CASE p # "close"
    BY <1>2, <2>2, GoingOn
  <2> QED BY <2>1, <2>2
<1> QED BY <1>1, <1>2, <1>3, <1>4 DEF PersistStep

\* A wake that finds nothing to wake, the failure that cannot be recorded, and the
\* end of an execution.
IdleWakeStep(t) ==
    /\ UNCHANGED <<doc, cps, task, owner, services, current, oldWaits, answered, inputs, incidents>>
    /\ OthersSame(t)
    /\ \/ ex[t].pc = "wake" /\ Moving(t, "run")
       \/ ex[t].pc = "lastWake" /\ Closing(t)
    /\ InboxWait(doc) => Pending(doc) = {} \/ doc.checkpoint = 0

UnrecordedStep(t) ==
    /\ UNCHANGED <<doc, cps, task, owner, services, current, oldWaits, answered, inputs>>
    /\ incidents' = incidents \union {"unrecorded failure"}
    /\ OthersSame(t) /\ ex[t].pc = "failed" /\ Closing(t)

LEMMA NotRecording ==
  ASSUME RunInv, NEW t \in Tasks, PersistFailureFails(t) PROVE UnrecordedStep(t)
  BY Ending DEF PersistFailureFails, UnrecordedStep

EndStep(t) ==
    /\ UNCHANGED <<doc, cps, services, current, oldWaits, answered, inputs, incidents>>
    /\ OthersSame(t) /\ ex[t].pc = "close" /\ owner' = 0
    /\ ex'[t].pc = "off" /\ ex'[t].prod = "off" /\ ex'[t].held = {} /\ ex'[t].stream = <<>>
    /\ task'[t].st = "gone" /\ \A u \in Tasks \ {t} : task'[u] = task[u]

LEMMA ClosingExecution == ASSUME RunInv, NEW t \in Tasks, Close(t) PROVE EndStep(t)
<1>1. /\ UNCHANGED <<doc, cps, services, current, oldWaits, answered, inputs, incidents>>
      /\ ex[t].pc = "close" /\ owner' = 0 /\ ex' = [ex EXCEPT ![t] = NoExecution]
      /\ task' = [task EXCEPT ![t] = Gone]
  BY DEF Close
<1>2. /\ NoExecution.pc = "off" /\ NoExecution.prod = "off" /\ NoExecution.held = {}
      /\ NoExecution.stream = <<>>
  BY DEF NoExecution
<1>3. task'[t].st = "gone" /\ \A u \in Tasks \ {t} : task'[u] = task[u]
  BY <1>1, TaskFacts
<1>4. ex'[t] = NoExecution /\ OthersSame(t)
  BY <1>1, Replaced
<1> QED BY <1>1, <1>2, <1>3, <1>4 DEF EndStep

-----------------------------------------------------------------------------
(* Claims. *)

\* The run is continued from d, doc with another queue, by the new task f.
ClaimStep(f, d, input) ==
    /\ OnlyQueue(d) /\ doc.checkpoint # 0
    /\ f \in Tasks /\ task[f].st = "none" /\ ex[f].pc = "off" /\ doc.resumeClaim < f
    /\ doc'.status = "running" /\ doc'.wait = NoWait /\ doc'.abort = FALSE
    /\ doc'.checkpoint = doc.checkpoint /\ doc'.resumeCheckpoint = doc.checkpoint
    /\ doc'.resumeClaim = f /\ doc'.resumeInput = input /\ doc'.queue = d.queue
    /\ task'[f].st = "new" /\ task'[f].claim = f /\ task'[f].resume = doc.checkpoint
    /\ task'[f].input = input /\ \A u \in Tasks \ {f} : task'[u] = task[u]
    /\ current' = IF doc.status \in {"stopped", "interrupted"} THEN 0 ELSE current

LEMMA Claiming ==
  ASSUME RunInv, NEW d, OnlyQueue(d), NEW input, ClaimResume(d, input)
  PROVE  \E f \in Tasks : ClaimStep(f, d, input)
<1>1. /\ CanLaunch /\ d.checkpoint # 0 /\ doc' = Claimed(d, input)
      /\ current' = (IF d.status \in {"stopped", "interrupted"} THEN 0 ELSE current)
  BY DEF ClaimResume
<1>2. PICK f : f = FreeTask
  OBVIOUS
<1>3. f \in Tasks /\ task[f].st = "none"
  BY <1>1, <1>2, FreeTaskFacts
<1>4. ex[f].pc = "off" /\ doc.resumeClaim < f
  BY <1>3 DEF RunInv, OneOwner, ClaimsInOrder
<1>5. doc' = [d EXCEPT !.resumeInput = input, !.resumeCheckpoint = d.checkpoint,
              !.status = "running", !.wait = NoWait, !.abort = FALSE, !.resumeClaim = f]
  BY <1>1, <1>2 DEF Claimed
<1>6. d \in Documents /\ d.checkpoint = doc.checkpoint /\ d.status = doc.status
  BY DEF OnlyQueue
<1>7. /\ doc'.status = "running" /\ doc'.wait = NoWait /\ doc'.abort = FALSE
      /\ doc'.checkpoint = d.checkpoint /\ doc'.resumeCheckpoint = d.checkpoint
      /\ doc'.resumeClaim = f /\ doc'.resumeInput = input /\ doc'.queue = d.queue
  BY <1>5, <1>6 DEF Documents
<1>8. PICK l : /\ l = [st |-> "new", claim |-> f, resume |-> d.checkpoint, input |-> input, target |-> 0]
               /\ task' = [task EXCEPT ![f] = l]
  BY <1>2 DEF ClaimResume
<1>9. l.st = "new" /\ l.claim = f /\ l.resume = d.checkpoint /\ l.input = input
  BY <1>8
<1>10. task'[f] = l /\ \A u \in Tasks \ {f} : task'[u] = task[u]
  BY <1>3, <1>8, TaskFacts
<1>11. ClaimStep(f, d, input)
  BY <1>1, <1>3, <1>4, <1>6, <1>7, <1>9, <1>10 DEF ClaimStep
<1> QED BY <1>3, <1>11
\* The run is claimed by a command, or by an execution that looks at its queue.
WakeMoves(t) ==
    \/ ex[t].pc = "wake" /\ Moving(t, "run")
    \/ ex[t].pc = "lastWake" /\ Closing(t)

ClaimedStep(f, input) ==
    /\ UNCHANGED <<cps, owner, services, oldWaits, incidents>>
    /\ doc.checkpoint # 0
    /\ f \in Tasks /\ task[f].st = "none" /\ ex[f].pc = "off" /\ doc.resumeClaim < f
    /\ doc'.status = "running" /\ doc'.wait = NoWait /\ doc'.abort = FALSE
    /\ doc'.checkpoint = doc.checkpoint /\ doc'.resumeCheckpoint = doc.checkpoint
    /\ doc'.resumeClaim = f /\ doc'.resumeInput = input
    /\ \A m \in Messages : \/ doc'.queue[m] = doc.queue[m]
                           \/ doc.queue[m] = "absent" /\ doc'.queue[m] = "pending"
    /\ task'[f].st = "new" /\ task'[f].claim = f /\ task'[f].resume = doc.checkpoint
    /\ task'[f].input = input /\ \A u \in Tasks \ {f} : task'[u] = task[u]
    /\ current' = IF doc.status \in {"stopped", "interrupted"} THEN 0 ELSE current
    /\ \/ ex' = ex
       \/ \E t \in Tasks : OthersSame(t) /\ WakeMoves(t)
    /\ \/ /\ doc.status = "waiting" /\ answered' = answered \union {doc.wait.id}
          /\ (input = 0 /\ inputs' = inputs) \/ (input = inputs + 1 /\ inputs' = input)
       \/ doc.status = "waiting" /\ input = 0 /\ UNCHANGED <<answered, inputs>>
       \/ /\ doc.status \in {"stopped", "interrupted"} /\ input = doc.resumeInput
          /\ UNCHANGED <<answered, inputs>>

LEMMA AnswerClaims ==
  ASSUME RunInv, Answer PROVE \E f \in Tasks : \E input \in Nat : ClaimedStep(f, input)
<1>1. PICK input : /\ input = IF doc.wait.kind = "model_selection" THEN 0 ELSE inputs + 1
                   /\ ClaimResume(doc, input) /\ doc.status = "waiting"
                   /\ answered' = answered \union {doc.wait.id}
                   /\ inputs' = IF input = 0 THEN inputs ELSE input
                   /\ UNCHANGED <<owner, services, incidents>> /\ UNCHANGED commandVars
  BY DEF Answer
<1>2. inputs \in Nat
  BY StateStart
<1>3. input \in Nat /\ ((input = 0 /\ inputs' = inputs) \/ (input = inputs + 1 /\ inputs' = input))
  BY <1>1, <1>2
<1>4. PICK f \in Tasks : ClaimStep(f, doc, input)
  BY <1>1, DocumentItself, Claiming
<1>5. ClaimedStep(f, input)
  BY <1>1, <1>3, <1>4 DEF ClaimStep, ClaimedStep, commandVars
<1> QED BY <1>3, <1>5

LEMMA ResumeClaims ==
  ASSUME RunInv, NEW S \in SUBSET Messages, Resume(S)
  PROVE  \E f \in Tasks : \E input \in Nat : ClaimedStep(f, input)
<1>1. PICK q : q = [m \in Messages |-> IF m \in S THEN "pending" ELSE doc.queue[m]]
  OBVIOUS
<1>2. q \in [Messages -> MessageStates]
  BY <1>1, DocumentItself DEF Documents, MessageStates
<1>3. PICK d : /\ d = [doc EXCEPT !.queue = q] /\ ClaimResume(d, doc.resumeInput)
               /\ doc.status \in {"stopped", "interrupted"}
               /\ \A m \in S : doc.queue[m] = "absent"
               /\ UNCHANGED <<owner, services, answered, inputs, incidents>> /\ UNCHANGED commandVars
  BY <1>1 DEF Resume
<1>4. OnlyQueue(d) /\ d.queue = q
  BY <1>2, <1>3, DocumentItself, QueueWith DEF Documents
<1>5. PICK f \in Tasks : ClaimStep(f, d, doc.resumeInput)
  BY <1>3, <1>4, Claiming
<1>6. \A m \in Messages : \/ d.queue[m] = doc.queue[m]
                          \/ doc.queue[m] = "absent" /\ d.queue[m] = "pending"
  BY <1>1, <1>3, <1>4
<1>7. ClaimedStep(f, doc.resumeInput)
  BY <1>3, <1>5, <1>6 DEF ClaimStep, ClaimedStep, commandVars
<1>8. doc.resumeInput \in Nat
  BY DocumentItself DEF Documents
<1> QED BY <1>7, <1>8

\* The queue of the document, and nothing else, may change.
SameButQueue ==
    /\ doc'.status = doc.status /\ doc'.wait = doc.wait /\ doc'.checkpoint = doc.checkpoint
    /\ doc'.resumeCheckpoint = doc.resumeCheckpoint /\ doc'.resumeInput = doc.resumeInput
    /\ doc'.resumeClaim = doc.resumeClaim /\ doc'.abort = doc.abort

\* A command that launches nothing.
QuietStep ==
    /\ UNCHANGED <<cps, task, owner, ex, current, oldWaits, answered, inputs, incidents>>
    /\ \/ /\ services' = services /\ SameButQueue
          /\ \A m \in Messages :
               \/ doc'.queue[m] = doc.queue[m]
               \/ doc.queue[m] = "absent" /\ doc'.queue[m] = "pending" /\ ~InboxWait(doc)
               \/ /\ doc.queue[m] = "pending" /\ doc'.queue[m] = "cancelled"
                  /\ current # 0 => m \notin services[current].claimed
       \/ /\ services' = IF current = 0 THEN services
                         ELSE [services EXCEPT ![current].cancelled = TRUE]
          /\ doc'.queue = doc.queue
          /\ doc'.wait = doc.wait /\ doc'.checkpoint = doc.checkpoint
          /\ doc'.resumeCheckpoint = doc.resumeCheckpoint /\ doc'.resumeInput = doc.resumeInput
          /\ doc'.resumeClaim = doc.resumeClaim
          /\ \/ doc'.status = doc.status /\ doc'.abort = doc.abort
             \/ doc.status = "running" /\ doc'.status = "running" /\ doc'.abort = TRUE
             \/ doc.status = "waiting" /\ doc'.status = "stopped" /\ doc'.abort = TRUE

LEMMA QueueClaimsOrWaits ==
  ASSUME RunInv, NEW m \in Messages, Queue(m)
  PROVE  QuietStep \/ \E f \in Tasks : \E input \in Nat : ClaimedStep(f, input)
<1>1. PICK s \in MessageStates : s = "pending"
  BY DEF MessageStates
<1>2. doc.queue \in [Messages -> MessageStates]
  BY DocumentItself DEF Documents
<1>3. PICK q \in [Messages -> MessageStates] : q = [doc.queue EXCEPT ![m] = s]
  BY <1>2
<1>4. [doc EXCEPT !.queue[m] = s] = [doc EXCEPT !.queue = q]
  BY <1>3, DocumentItself DEF Documents
<1>5. PICK d : /\ d = [doc EXCEPT !.queue = q] /\ doc.queue[m] = "absent"
               /\ \/ InboxWait(doc) /\ ClaimResume(d, 0)
                  \/ ~InboxWait(doc) /\ doc' = d /\ UNCHANGED <<task, current>>
               /\ UNCHANGED <<owner, services, answered, inputs, incidents>> /\ UNCHANGED commandVars
  BY <1>1, <1>4 DEF Queue
<1>6. OnlyQueue(d) /\ d.queue = q
  BY <1>5, DocumentItself, QueueWith DEF Documents
<1>7. \A n \in Messages : \/ d.queue[n] = doc.queue[n]
                          \/ doc.queue[n] = "absent" /\ d.queue[n] = "pending"
  BY <1>1, <1>2, <1>3, <1>5, <1>6
<1>8. CASE InboxWait(doc) /\ ClaimResume(d, 0)
  <2>1. PICK f \in Tasks : ClaimStep(f, d, 0)
    BY <1>6, <1>8, Claiming
  <2>2. ClaimedStep(f, 0)
    BY <1>5, <1>7, <1>8, <2>1 DEF ClaimStep, ClaimedStep, commandVars, InboxWait
  <2> QED BY <2>2
<1>9. CASE ~InboxWait(doc) /\ doc' = d /\ UNCHANGED <<task, current>>
  <2>1. SameButQueue
    BY <1>6, <1>9 DEF SameButQueue, OnlyQueue
  <2> QED BY <1>5, <1>7, <1>9, <2>1 DEF QuietStep, commandVars
<1> QED BY <1>5, <1>8, <1>9

LEMMA Withdrawing == ASSUME RunInv, NEW m \in Messages, RemoveMessage(m) PROVE QuietStep
<1>1. PICK s \in MessageStates : s = "cancelled"
  BY DEF MessageStates
<1>2. doc.queue \in [Messages -> MessageStates]
  BY DocumentItself DEF Documents
<1>3. PICK q \in [Messages -> MessageStates] : q = [doc.queue EXCEPT ![m] = s]
  BY <1>2
<1>4. [doc EXCEPT !.queue[m] = s] = [doc EXCEPT !.queue = q]
  BY <1>3, DocumentItself DEF Documents
<1>5. PICK d : d = [doc EXCEPT !.queue = q] /\ doc' = d
  BY <1>1, <1>4 DEF RemoveMessage
<1>6. OnlyQueue(d) /\ d.queue = q
  BY <1>5, DocumentItself, QueueWith DEF Documents
<1>7. \A n \in Messages : d.queue[n] = doc.queue[n] \/ (n = m /\ d.queue[n] = "cancelled")
  BY <1>1, <1>2, <1>3, <1>6
<1>8. /\ doc.queue[m] = "pending" /\ (current # 0 => m \notin services[current].claimed)
      /\ UNCHANGED <<cps, task, owner, ex, services, current, oldWaits, answered, inputs, incidents>>
  BY DEF RemoveMessage, commandVars
<1>9. SameButQueue
  BY <1>5, <1>6 DEF SameButQueue, OnlyQueue
<1> QED BY <1>5, <1>7, <1>8, <1>9 DEF QuietStep

LEMMA Stopping == ASSUME RunInv, Cancel \/ Shutdown PROVE QuietStep
<1>1. CASE Cancel
  <2>1. doc \in Documents
    BY DocumentItself
  <2>2. PICK s : s = IF doc.status = "waiting" THEN "stopped" ELSE doc.status
    OBVIOUS
  <2>3. doc' = [doc EXCEPT !.abort = TRUE, !.status = s]
    BY <1>1, <2>1, <2>2 DEF Cancel, Documents
  <2>4. /\ doc'.queue = doc.queue /\ doc'.wait = doc.wait /\ doc'.checkpoint = doc.checkpoint
        /\ doc'.resumeCheckpoint = doc.resumeCheckpoint /\ doc'.resumeInput = doc.resumeInput
        /\ doc'.resumeClaim = doc.resumeClaim /\ doc'.status = s /\ doc'.abort = TRUE
    BY <2>1, <2>3 DEF Documents
  <2>5. \/ doc.status = "running" /\ doc'.status = "running"
        \/ doc.status = "waiting" /\ doc'.status = "stopped"
    BY <1>1, <2>2, <2>4 DEF Cancel
  <2> QED BY <1>1, <2>4, <2>5 DEF Cancel, commandVars, QuietStep
<1>2. CASE Shutdown
  BY <1>2 DEF Shutdown, QuietStep
<1> QED BY <1>1, <1>2

LEMMA Waking ==
  ASSUME RunInv, NEW t \in Tasks, WakePublished(t) \/ WakeFinal(t)
  PROVE  IdleWakeStep(t) \/ \E f \in Tasks : \E input \in Nat : ClaimedStep(f, input)
<1>1. /\ UNCHANGED <<cps, owner, services, oldWaits, answered, inputs, incidents>>
      /\ IF InboxWait(doc) /\ Pending(doc) # {} /\ doc.checkpoint # 0
         THEN ClaimResume(doc, 0) ELSE UNCHANGED <<doc, task, current>>
      /\ \/ ex[t].pc = "wake" /\ ex' = [ex EXCEPT ![t] = After(@, "run")]
         \/ ex[t].pc = "lastWake" /\ ex' = [ex EXCEPT ![t] = After(@, "close")]
  BY DEF WakePublished, WakeFinal, WakeQueuedInput, consumerVars
<1>2. OthersSame(t) /\ WakeMoves(t)
  BY <1>1, GoingOn, Ending DEF WakeMoves
<1>3. CASE InboxWait(doc) /\ Pending(doc) # {} /\ doc.checkpoint # 0
  <2>1. PICK f \in Tasks : ClaimStep(f, doc, 0)
    BY <1>1, <1>3, DocumentItself, Claiming
  <2>2. ClaimedStep(f, 0)
    BY <1>1, <1>2, <1>3, <2>1 DEF ClaimStep, ClaimedStep, InboxWait
  <2> QED BY <2>2
<1>4. CASE ~(InboxWait(doc) /\ Pending(doc) # {} /\ doc.checkpoint # 0)
  BY <1>1, <1>2, <1>4 DEF IdleWakeStep, WakeMoves
<1> QED BY <1>3, <1>4

-----------------------------------------------------------------------------
(* Launches and restarts. *)

\* The owner loads its run; its execution continues from the task's checkpoint.
LoadStep(t) ==
    /\ UNCHANGED <<doc, cps, task, owner, oldWaits, answered, inputs, incidents>>
    /\ OthersSame(t) /\ ex[t].pc = "load"
    /\ ex'[t].pc = "run" /\ ex'[t].prod = "run" /\ ex'[t].at = task[t].resume
    /\ ex'[t].input = task[t].input /\ ex'[t].claim = task[t].claim
    /\ ex'[t].seen = doc.checkpoint /\ ex'[t].status = doc.status /\ ex'[t].wait = doc.wait
    /\ ex'[t].svc = current' /\ ex'[t].held = ex[t].held
    /\ ex'[t].stream = IF task[t].resume = 0 THEN <<>> ELSE <<"resumed">>
    /\ current' \in 1..Len(services') /\ (services'[current'].cancelled \/ ~doc.abort)

LEMMA Loading == ASSUME RunInv, NEW t \in Tasks, Load(t) PROVE LoadStep(t)
<1>1. /\ ex[t].pc = "load"
      /\ UNCHANGED <<doc, cps, task, owner, oldWaits, answered, inputs, incidents>>
  BY DEF Load
<1>2. PICK reuse \in BOOLEAN : reuse = (current # 0 /\ ~services[current].cancelled)
  OBVIOUS
<1>3. PICK s : s = IF reuse THEN current ELSE Len(services) + 1
  OBVIOUS
<1>4. PICK c \in BOOLEAN : c = (doc.abort \/ (closed /\ ~reuse))
  OBVIOUS
<1>5. /\ current' = s
      /\ services' = IF reuse THEN [services EXCEPT ![s].cancelled = c]
                     ELSE Append(services, [cancelled |-> c, claimed |-> {}])
  BY <1>2, <1>3, <1>4 DEF Load
<1>6. s \in 1..Len(services') /\ services'[s].cancelled = c
  <2>1. services \in Seq(ServiceObjects) /\ Len(services) \in Nat /\ current \in Nat
        /\ current <= Len(services)
    BY ConsumerStart
  <2>2. CASE reuse
    <3>0. s = current /\ current # 0
      BY <1>2, <1>3, <2>2
    <3>1. s \in 1..Len(services) /\ services[s] \in ServiceObjects
      BY <2>1, <3>0
    <3>2. PICK o : o = [services[s] EXCEPT !.cancelled = c]
      OBVIOUS
    <3>3. o.cancelled = c
      BY <3>1, <3>2 DEF ServiceObjects
    <3>4. services' = [services EXCEPT ![s] = o]
      BY <1>5, <2>2, <3>2
    <3>5. services'[s] = o /\ Len(services') = Len(services)
      BY <2>1, <3>1, <3>4
    <3> QED BY <3>1, <3>3, <3>5
  <2>3. CASE ~reuse
    <3>1. PICK o : o = [cancelled |-> c, claimed |-> {}]
      OBVIOUS
    <3>2. o \in ServiceObjects /\ o.cancelled = c
      BY <3>1 DEF ServiceObjects
    <3>3. services' = Append(services, o)
      BY <2>3, <3>1, <1>5
    <3>4. Len(services') = Len(services) + 1 /\ services'[Len(services) + 1] = o
      BY <2>1, <3>2, <3>3, AppendFacts
    <3> QED BY <1>3, <2>1, <2>3, <3>2, <3>4
  <2> QED BY <2>2, <2>3
<1>7. PICK z : z = IF task[t].resume = 0 THEN <<>> ELSE <<"resumed">>
  OBVIOUS
<1>8. PICK kids \in BOOLEAN :
        ex' = [ex EXCEPT ![t] =
                [ex[t] EXCEPT !.pc = "run", !.prod = "run", !.at = task[t].resume, !.kids = kids,
                          !.input = task[t].input, !.seen = doc.checkpoint,
                          !.status = doc.status, !.wait = doc.wait,
                          !.active = doc.active, !.claim = task[t].claim, !.svc = s,
                          !.stream = z]]
  BY <1>2, <1>3, <1>7, ConsumerStart DEF Load
<1>9. PICK g : /\ g = [ex[t] EXCEPT !.pc = "run", !.prod = "run", !.at = task[t].resume, !.kids = kids,
                          !.input = task[t].input, !.seen = doc.checkpoint,
                          !.status = doc.status, !.wait = doc.wait,
                          !.active = doc.active, !.claim = task[t].claim, !.svc = s,
                          !.stream = z]
               /\ ex' = [ex EXCEPT ![t] = g]
  BY <1>8
<1>10. /\ g.pc = "run" /\ g.prod = "run" /\ g.at = task[t].resume /\ g.input = task[t].input
       /\ g.seen = doc.checkpoint /\ g.status = doc.status /\ g.wait = doc.wait
       /\ g.claim = task[t].claim /\ g.svc = s /\ g.held = ex[t].held /\ g.stream = z
  BY <1>9, ConsumerStart DEF Executions
<1>11. ex'[t] = g /\ OthersSame(t)
  BY <1>9, Replaced
<1>12. services'[current'].cancelled \/ ~doc.abort
  BY <1>4, <1>5, <1>6
<1> QED BY <1>1, <1>5, <1>6, <1>7, <1>10, <1>11, <1>12 DEF LoadStep

\* The execution breaks off, before it has begun or after.
FailStep(t) ==
    /\ UNCHANGED <<doc, cps, task, owner, current, oldWaits, answered, inputs>>
    /\ OthersSame(t)
    /\ ex'[t].pc = "failed" /\ ex'[t].prod = "ended" /\ ex'[t].seen = doc.checkpoint
    /\ ex'[t].status \in {"interrupted", "error"} /\ ex'[t].held = {} /\ ex'[t].stream = <<>>
    /\ \/ ex[t].pc = "load" /\ UNCHANGED <<services, incidents>>
       \/ Executing(t) /\ "failed execution" \in incidents'
       \/ ex[t].pc = "lastWake" /\ "failed execution" \in incidents'
    /\ incidents \subseteq incidents' /\ ("unrecorded failure" \in incidents' => "unrecorded failure" \in incidents)

LEMMA Failing ==
  ASSUME RunInv, NEW t \in Tasks, LoadFails(t) \/ ExecuteFails(t) PROVE FailStep(t)
<1>1. /\ ex' = [ex EXCEPT ![t] = Failed]
      /\ UNCHANGED <<doc, cps, task, owner, current, oldWaits, answered, inputs>>
      /\ \/ ex[t].pc = "load" /\ UNCHANGED <<services, incidents>>
         \/ /\ ex[t].pc \in {"run", "publish", "wake", "final", "lastWake"}
            /\ incidents' = incidents \union {"failed execution"}
  BY DEF LoadFails, ExecuteFails, Fault
<1>2. ex'[t] = Failed /\ OthersSame(t)
  BY <1>1, Replaced
<1>3. Failed.held = {} /\ Failed.stream = <<>>
  BY DEF Failed, NoExecution
<1>4. /\ Failed.pc = "failed" /\ Failed.prod = "ended" /\ Failed.seen = doc.checkpoint
      /\ Failed.status \in {"interrupted", "error"}
  BY FailedFacts
<1>5. \/ ex[t].pc = "load" /\ UNCHANGED <<services, incidents>>
      \/ Executing(t) /\ "failed execution" \in incidents'
      \/ ex[t].pc = "lastWake" /\ "failed execution" \in incidents'
  BY <1>1 DEF Executing
<1>6. incidents \subseteq incidents' /\ ("unrecorded failure" \in incidents' => "unrecorded failure" \in incidents)
  BY <1>1
<1> QED BY <1>1, <1>2, <1>3, <1>4, <1>5, <1>6 DEF FailStep

\* The task becomes the owner of the run.
OwnStep(t) ==
    /\ UNCHANGED <<doc, cps, services, current, oldWaits, answered, inputs, incidents>>
    /\ OthersSame(t) /\ task[t].st = "new" /\ owner = 0 /\ owner' = t
    /\ task'[t].st = "owner" /\ task'[t].claim = task[t].claim
    /\ task'[t].resume = task[t].resume /\ task'[t].input = task[t].input
    /\ \A u \in Tasks \ {t} : task'[u] = task[u]
    /\ ex'[t].pc = "load" /\ ex'[t].prod = "off" /\ ex'[t].held = {} /\ ex'[t].stream = <<>>

LEMMA Owning == ASSUME RunInv, NEW t \in Tasks, TakeOwnership(t) PROVE OwnStep(t)
<1>1. /\ task[t].st = "new" /\ owner = 0 /\ owner' = t
      /\ UNCHANGED <<doc, cps, services, current, oldWaits, answered, inputs, incidents>>
  BY DEF TakeOwnership
<1>2. PICK l : l = [task[t] EXCEPT !.st = "owner"] /\ task' = [task EXCEPT ![t] = l]
  BY TaskFacts DEF TakeOwnership
<1>3. /\ l.st = "owner" /\ l.claim = task[t].claim /\ l.resume = task[t].resume
      /\ l.input = task[t].input
  <2>1. task[t] \in Launches
    BY TaskFacts
  <2> QED BY <1>2, <2>1 DEF Launches
<1>4. task'[t] = l /\ \A u \in Tasks \ {t} : task'[u] = task[u]
  BY <1>2, TaskFacts
<1>5. PICK g : g = [NoExecution EXCEPT !.pc = "load"] /\ ex' = [ex EXCEPT ![t] = g]
  BY DEF TakeOwnership
<1>6. g.pc = "load" /\ g.prod = "off" /\ g.held = {} /\ g.stream = <<>>
  BY <1>5 DEF NoExecution
<1>7. ex'[t] = g /\ OthersSame(t)
  BY <1>5, Replaced
<1> QED BY <1>1, <1>3, <1>4, <1>6, <1>7 DEF OwnStep

\* An offered resume, or nothing, moves: no invariant here sees the difference.
HandoverStep ==
    /\ SameExecutions /\ SameLaunches /\ \A u \in Tasks : ex'[u].held = ex[u].held
    /\ UNCHANGED <<doc, cps, owner, services, current, oldWaits, answered, inputs, incidents>>

LEMMA HandingOver ==
  ASSUME RunInv, NEW t \in Tasks, Offer(t) \/ OfferDropped(t) \/ AwaitFinished(t)
  PROVE  HandoverStep
<1>1. task \in [Tasks -> Launches] /\ ex \in [Tasks -> Executions]
  BY DEF RunInv, RunTypeOK, Shapes
<1>2. CASE OfferDropped(t) \/ AwaitFinished(t)
  <2>1. PICK q \in {"new", "unaccepted"} :
          task' = [task EXCEPT ![t] = [task[t] EXCEPT !.st = q, !.target = task[t].target]]
    BY <1>1, <1>2 DEF OfferDropped, AwaitFinished, Launches
  <2>2. PendingTask(t) /\ task[t].target \in 0..MaxTasks
    BY <1>1, <1>2 DEF OfferDropped, AwaitFinished, PendingTask, Launches
  <2>3. SameLaunches
    BY <2>1, <2>2, PendingMoves
  <2>4. SameExecutions /\ \A u \in Tasks : ex'[u].held = ex[u].held
    BY <1>1, <1>2 DEF OfferDropped, AwaitFinished, SameExecutions
  <2> QED BY <1>2, <2>3, <2>4 DEF HandoverStep, OfferDropped, AwaitFinished
<1>3. CASE Offer(t)
  <2>1. PICK q \in {"offered", "unaccepted"} :
          task' = [task EXCEPT ![t] = [task[t] EXCEPT !.st = q, !.target = owner]]
    BY <1>1, <1>3 DEF Offer, Launches
  <2>2. PendingTask(t) /\ owner \in 0..MaxTasks
    BY <1>3 DEF Offer, PendingTask, RunInv, RunTypeOK, Shapes
  <2>3. SameLaunches
    BY <2>1, <2>2, PendingMoves
  <2>4. SameExecutions /\ \A u \in Tasks : ex'[u].held = ex[u].held
    <3>1. CASE ex' = ex
      BY <1>1, <3>1 DEF SameExecutions
    <3>2. CASE ex' = [ex EXCEPT ![owner].inbox = Append(@, t)]
      <4>1. owner \in Tasks
        BY <1>3, <2>2, BoundsAssumption DEF Offer, Tasks
      <4>2. PICK g : g = [ex[owner] EXCEPT !.inbox = Append(ex[owner].inbox, t)]
                     /\ ex' = [ex EXCEPT ![owner] = g]
        BY <1>1, <3>2, <4>1
      <4>3. ex[owner] \in Executions /\ Append(ex[owner].inbox, t) \in Seq(Tasks)
        BY <1>1, <4>1 DEF Executions
      <4>4. /\ g \in Executions /\ g.pc = ex[owner].pc /\ g.prod = ex[owner].prod /\ g.status = ex[owner].status
            /\ g.wait = ex[owner].wait /\ g.claim = ex[owner].claim /\ g.svc = ex[owner].svc
            /\ g.seen = ex[owner].seen /\ g.failed = ex[owner].failed
            /\ g.at = ex[owner].at /\ g.input = ex[owner].input /\ g.held = ex[owner].held
            /\ g.stream = ex[owner].stream
        BY <4>2, <4>3 DEF Executions
      <4>5. ex' \in [Tasks -> Executions] /\ ex'[owner] = g /\ \A u \in Tasks \ {owner} : ex'[u] = ex[u]
        BY <1>1, <4>1, <4>2, <4>4
      <4> QED BY <4>4, <4>5 DEF SameExecutions
    <3> QED BY <1>3, <3>1, <3>2 DEF Offer
  <2> QED BY <1>3, <2>3, <2>4 DEF HandoverStep, Offer
<1> QED BY <1>2, <1>3

LEMMA Stuttering == ASSUME RunInv, UNCHANGED vars PROVE HandoverStep
  BY DEF vars, RunInv, RunTypeOK, Shapes, SameExecutions, SameLaunches, PendingTask, HandoverStep

\* What the recovery makes of the document.
RecoveredInto(d) ==
    /\ d.wait = doc.wait /\ d.resumeClaim = doc.resumeClaim /\ d.abort = doc.abort
    /\ d.status = IF doc.status = "running" THEN "interrupted" ELSE doc.status
    /\ \/ /\ doc.status # "running" /\ d.checkpoint = doc.checkpoint
          /\ d.resumeInput = doc.resumeInput /\ d.resumeCheckpoint = doc.resumeCheckpoint
          /\ d.queue = doc.queue
       \/ /\ d.checkpoint = Len(cps)
          /\ IF doc.resumeCheckpoint # 0 /\ Len(cps) # 0 /\ doc.resumeCheckpoint # Len(cps)
             THEN d.resumeInput = 0 /\ d.resumeCheckpoint = 0
             ELSE d.resumeInput = doc.resumeInput /\ d.resumeCheckpoint = doc.resumeCheckpoint
          /\ \A m \in Messages : IF doc.queue[m] = "pending" /\ m \in Consumed(Len(cps))
                                 THEN d.queue[m] = "consumed" ELSE d.queue[m] = doc.queue[m]

LEMMA Recovering ==
  ASSUME RunInv, NEW d, d = Recovered(doc) PROVE RecoveredInto(d)
<1>1. doc \in Documents /\ Len(cps) \in Nat
  BY StateStart
<1>2. CASE ~(doc.status = "running" \/ doc.active)
  <2>1. d = doc
    BY <1>2 DEF Recovered
  <2> QED BY <1>2, <2>1 DEF RecoveredInto
<1>3. CASE doc.status = "running" \/ doc.active
  <2>1. PICK n \in Nat : n = Len(cps)
    BY <1>1
  <2>2. PICK applied \in BOOLEAN : applied = (doc.resumeCheckpoint # 0 /\ n # 0 /\ doc.resumeCheckpoint # n)
    OBVIOUS
  <2>3. PICK i : i = IF applied THEN 0 ELSE doc.resumeInput
    OBVIOUS
  <2>4. PICK c : c = IF applied THEN 0 ELSE doc.resumeCheckpoint
    OBVIOUS
  <2>5. PICK q : q = [m \in Messages |-> IF doc.queue[m] = "pending" /\ m \in Consumed(n)
                                         THEN "consumed" ELSE doc.queue[m]]
    OBVIOUS
  <2>6. PICK s : s = IF doc.status = "running" THEN "interrupted" ELSE doc.status
    OBVIOUS
  <2>7. d = [doc EXCEPT !.checkpoint = n, !.resumeInput = i, !.resumeCheckpoint = c, !.queue = q,
                        !.status = s, !.active = FALSE]
    BY <1>1, <1>3, <2>1, <2>2, <2>3, <2>4, <2>5, <2>6 DEF Recovered, Documents
  <2>8. /\ d.status = s /\ d.wait = doc.wait /\ d.checkpoint = n /\ d.resumeInput = i
        /\ d.resumeCheckpoint = c /\ d.resumeClaim = doc.resumeClaim /\ d.abort = doc.abort
        /\ d.queue = q
    BY <1>1, <2>7 DEF Documents
  <2>9. \A m \in Messages : IF doc.queue[m] = "pending" /\ m \in Consumed(n)
                            THEN d.queue[m] = "consumed" ELSE d.queue[m] = doc.queue[m]
    BY <2>5, <2>8
  <2>10. IF doc.resumeCheckpoint # 0 /\ n # 0 /\ doc.resumeCheckpoint # n
         THEN d.resumeInput = 0 /\ d.resumeCheckpoint = 0
         ELSE d.resumeInput = doc.resumeInput /\ d.resumeCheckpoint = doc.resumeCheckpoint
    BY <2>2, <2>3, <2>4, <2>8
  <2> QED BY <2>1, <2>6, <2>8, <2>9, <2>10 DEF RecoveredInto
<1> QED BY <1>2, <1>3

RestartStep ==
    /\ UNCHANGED <<cps, waits, answered, inputs>>
    /\ RecoveredInto(doc') /\ owner' = 0 /\ services' = <<>> /\ current' = 0 /\ oldWaits' = waits
    /\ \A u \in Tasks :
         /\ ex'[u].pc = "off" /\ ex'[u].prod = "off" /\ ex'[u].held = {} /\ ex'[u].stream = <<>>
         /\ ~PendingTask(u)'
    /\ incidents' = incidents \ {"unrecorded failure"}

LEMMA Restarting == ASSUME RunInv, Restart PROVE RestartStep
<1>1. /\ doc' = Recovered(doc) /\ owner' = 0 /\ ex' = [t \in Tasks |-> NoExecution]
      /\ task' = [t \in Tasks |-> IF task[t].st = "none" THEN NoTask ELSE Gone]
      /\ current' = 0 /\ services' = <<>> /\ oldWaits' = waits
      /\ UNCHANGED <<cps, waits, answered, inputs>>
      /\ incidents' = incidents \ {"unrecorded failure"}
  BY DEF Restart
<1>2. RecoveredInto(doc')
  BY <1>1, Recovering
<1>3. /\ NoExecution.pc = "off" /\ NoExecution.prod = "off" /\ NoExecution.held = {}
      /\ NoExecution.stream = <<>>
  BY DEF NoExecution
<1>4. \A u \in Tasks : ex'[u] = NoExecution /\ task'[u].st \in {"none", "gone"}
  BY <1>1, TaskFacts
<1> QED BY <1>1, <1>2, <1>3, <1>4 DEF RestartStep, PendingTask

-----------------------------------------------------------------------------
(* Waits, whatever happens. *)

\* What the steps of a producer have in common here.
WaitStep(t) ==
    /\ UNCHANGED <<doc, owner, oldWaits, answered, incidents>>
    /\ OthersSame(t)
    /\ ex'[t].pc = ex[t].pc /\ ex'[t].status = ex[t].status /\ ex'[t].seen = ex[t].seen
    /\ ex'[t].wait = ex[t].wait
    /\ \A u \in Tasks : task'[u] = task[u] \/ (PendingTask(u) /\ task'[u].st = "gone")
    /\ Len(cps) <= Len(cps')
    /\ Len(cps') = Len(cps) \/ (Producing(t) /\ ~Halted(t))
    /\ \/ /\ ex'[t].stream = ex[t].stream /\ ex'[t].claim = ex[t].claim
          /\ Halted(t) => Halted(t)'
       \/ /\ Producing(t)
          /\ \E v \in StreamEvents :
               /\ ex'[t].stream = Append(ex[t].stream, v)
               /\ v = "resumed" \/ (Halted(t)' /\ ex'[t].claim = ex[t].claim)
               /\ v \in WaitEvents => Len(cps') # 0

LEMMA StreamGrows ==
  ASSUME RunInv, NEW t \in Tasks, NEW v \in StreamEvents, ex'[t].stream = Append(ex[t].stream, v)
  PROVE  /\ Len(ex[t].stream) \in Nat /\ Len(ex'[t].stream) = Len(ex[t].stream) + 1
         /\ ex'[t].stream[Len(ex[t].stream) + 1] = v
         /\ \A n \in Sent(t) : ex'[t].stream[n] = ex[t].stream[n]
         /\ \A n : n \in Sent(t)' <=> n \in Sent(t) \/ n = Len(ex[t].stream) + 1
<1>1. PICK s \in Seq(StreamEvents) : s = ex[t].stream
  BY ProducerTypes
<1>2. Len(s) \in Nat
  BY <1>1
<1>3. /\ Len(Append(s, v)) = Len(s) + 1 /\ Append(s, v)[Len(s) + 1] = v
      /\ \A k \in 1..Len(s) : Append(s, v)[k] = s[k]
  BY AppendFacts
<1>4. \A n : n \in 1..(Len(s) + 1) <=> n \in 1..Len(s) \/ n = Len(s) + 1
  BY <1>2
<1> QED BY <1>1, <1>2, <1>3, <1>4 DEF Sent

LEMMA ProducerWaitStep ==
  ASSUME RunInv, NEW t \in Tasks,
         LocalStep(t) \/ CommitStep(t) \/ \E r \in Tasks : ResumedStep(t, r)
  PROVE  WaitStep(t)
<1>0. Len(cps) \in Nat
  BY Numbers
<1>1. CASE LocalStep(t)
  <2>1. /\ UNCHANGED <<doc, cps, task, owner, oldWaits, answered, incidents>> /\ OthersSame(t)
        /\ ex'[t].pc = ex[t].pc /\ ex'[t].status = ex[t].status /\ ex'[t].seen = ex[t].seen
        /\ ex'[t].wait = ex[t].wait /\ ex'[t].claim = ex[t].claim
    BY <1>1 DEF LocalStep
  <2>2. Halted(t) => Halted(t)'
    BY <1>1 DEF LocalStep, Halted, ProdMoves
  <2>3. \/ ex'[t].stream = ex[t].stream
        \/ /\ Producing(t) /\ Halted(t)'
           /\ \E v \in {"failed", "done"} : ex'[t].stream = Append(ex[t].stream, v)
    BY <1>1 DEF LocalStep, Halted
  <2>4. {"failed", "done"} \subseteq StreamEvents \ WaitEvents
    BY DEF StreamEvents, WaitEvents, WaitKinds
  <2> QED BY <1>0, <2>1, <2>2, <2>3, <2>4 DEF WaitStep
<1>2. CASE CommitStep(t)
  <2>1. /\ UNCHANGED <<doc, task, owner, oldWaits, answered, incidents>> /\ OthersSame(t)
        /\ ex'[t].pc = ex[t].pc /\ ex'[t].status = ex[t].status /\ ex'[t].seen = ex[t].seen
        /\ ex'[t].wait = ex[t].wait /\ ex'[t].claim = ex[t].claim
        /\ Len(cps') = Len(cps) + 1
    BY <1>2 DEF CommitStep
  <2>2. ~Halted(t) /\ Producing(t)
    BY <1>2 DEF CommitStep, Halted, Working, Producing
  <2>3. \/ ex'[t].stream = ex[t].stream
        \/ Halted(t)' /\ \E v \in WaitEvents : ex'[t].stream = Append(ex[t].stream, v)
    BY <1>2 DEF CommitStep, Halted
  <2>4. WaitEvents \subseteq StreamEvents
    BY DEF StreamEvents, WaitEvents, WaitKinds
  <2>5. Len(cps) <= Len(cps') /\ Len(cps') # 0
    BY <1>0, <2>1
  <2> QED BY <2>1, <2>2, <2>3, <2>4, <2>5 DEF WaitStep
<1>3. ASSUME NEW r \in Tasks, ResumedStep(t, r) PROVE WaitStep(t)
  <2>1. /\ UNCHANGED <<doc, cps, owner, oldWaits, answered, incidents>> /\ OthersSame(t)
        /\ ex'[t].pc = ex[t].pc /\ ex'[t].status = ex[t].status /\ ex'[t].seen = ex[t].seen
        /\ ex'[t].wait = ex[t].wait
        /\ ex'[t].stream = Append(ex[t].stream, "resumed")
    BY <1>3 DEF ResumedStep
  <2>2. Producing(t) /\ \A u \in Tasks : task'[u] = task[u] \/ (PendingTask(u) /\ task'[u].st = "gone")
    BY <1>3 DEF ResumedStep, Producing, PendingTask
  <2>3. "resumed" \in StreamEvents /\ "resumed" \notin WaitEvents
    BY DEF StreamEvents, WaitEvents, WaitKinds
  <2> QED BY <1>0, <2>1, <2>2, <2>3 DEF WaitStep
<1> QED BY <1>1, <1>2, <1>3

LEMMA OwnerInRange == ASSUME RunInv PROVE owner = 0 \/ owner \in Tasks
  BY DEF RunInv, RunTypeOK, Shapes, Tasks

LEMMA ProducerKeepsWaits ==
  ASSUME RunInv, RunInv', WaitInv, NEW t \in Tasks, WaitStep(t)
  PROVE  WaitInv'
<1>0. /\ Len(cps) \in Nat /\ Len(cps') \in Nat /\ Len(cps) <= Len(cps')
      /\ UNCHANGED <<doc, owner, oldWaits, answered, incidents>>
      /\ \A u \in Tasks \ {t} : ex'[u] = ex[u]
      /\ ex'[t].pc = ex[t].pc /\ ex'[t].status = ex[t].status /\ ex'[t].seen = ex[t].seen
      /\ ex'[t].wait = ex[t].wait
  <2>1. cps \in Seq(Checkpoints) /\ cps' \in Seq(Checkpoints)
    BY DEF RunInv, RunTypeOK, Shapes
  <2>2. Len(cps) \in Nat /\ Len(cps') \in Nat
    BY <2>1
  <2> QED BY <2>2 DEF WaitStep, OthersSame
<1>1. PublishedAfresh' /\ WaitingHasCheckpoint' /\ AnswerOnce'
  BY <1>0 DEF WaitInv, PublishedAfresh, WaitingHasCheckpoint, AnswerOnce, Executing
<1>2. FirstLaunchAlone'
  <2>1. \A u \in Tasks : task'[u] = task[u] \/ (task[u].st # "none" /\ ~PendingTask(u)' /\ PendingTask(u))
    BY DEF WaitStep, PendingTask
  <2>2. \A u \in Tasks : PendingTask(u)' \/ ex'[u].pc = "load" =>
          /\ PendingTask(u) \/ ex[u].pc = "load"
          /\ task'[u] = task[u]
    <3>1. \A u \in Tasks : ex'[u].pc = ex[u].pc
      BY <1>0
    <3>2. \A u \in Tasks : PendingTask(u) => ex[u].pc = "off"
      BY Owned
    <3> QED BY <2>1, <3>1, <3>2 DEF PendingTask
  <2>3. \A u \in Tasks : task[u].st = "none" => task'[u].st = "none"
    BY <2>1
  <2> QED BY <1>0, <2>2, <2>3 DEF WaitInv, FirstLaunchAlone
<1>3. InboxSwept'
  <2>1. \A u \in Tasks : ex'[u].pc = ex[u].pc
    BY <1>0
  <2>2. Unattended' => Unattended
    BY <1>0, <2>1, OwnerInRange DEF Unattended
  <2> QED BY <1>0, <2>2 DEF WaitInv, InboxSwept, InboxWait, Pending
<1>4. \A u \in Tasks : Awaits(u) => Len(cps') = Len(cps)
  <2>1. ASSUME NEW u \in Tasks, Awaits(u), Producing(t) PROVE Halted(t)
    <3>1. ex[t].pc # "off" /\ ex[u].pc # "off"
      BY <2>1 DEF RunInv, OneOwner, Awaits, Executing
    <3>2. u = t
      BY <3>1 DEF RunInv, OneOwner
    <3> QED BY <2>1, <3>2 DEF WaitInv, AnsweredIsClaimed
  <2> QED BY <2>1 DEF WaitStep
<1>5. CASE ex'[t].stream = ex[t].stream /\ ex'[t].claim = ex[t].claim /\ (Halted(t) => Halted(t)')
  <2>1. \A u \in Tasks : /\ ex'[u].stream = ex[u].stream /\ (Halted(u) => Halted(u)')
                          /\ (Resumes(u)' <=> Resumes(u)) /\ (Awaits(u)' <=> Awaits(u))
                          /\ ex'[u].pc = ex[u].pc /\ ex'[u].seen = ex[u].seen
                          /\ ex'[u].claim = ex[u].claim /\ ex'[u].wait = ex[u].wait
    BY <1>0, <1>5 DEF Halted, Resumes, Sent, Awaits, Executing
  <2>2. WaitsCommitted' /\ StreamsRead'
    BY <1>0, <2>1 DEF WaitInv, WaitsCommitted, StreamsRead, Sent
  <2>3. AnsweredIsClaimed'
    BY <1>0, <1>4, <2>1 DEF WaitInv, AnsweredIsClaimed
  <2> QED BY <1>1, <1>2, <1>3, <2>2, <2>3 DEF WaitInv
<1>6. ASSUME Producing(t), NEW v \in StreamEvents, ex'[t].stream = Append(ex[t].stream, v),
             v = "resumed" \/ (Halted(t)' /\ ex'[t].claim = ex[t].claim),
             v \in WaitEvents => Len(cps') # 0
      PROVE  WaitInv'
  <2>1. /\ Len(ex[t].stream) \in Nat /\ Len(ex'[t].stream) = Len(ex[t].stream) + 1
        /\ ex'[t].stream[Len(ex[t].stream) + 1] = v
        /\ \A n \in Sent(t) : ex'[t].stream[n] = ex[t].stream[n]
        /\ \A n : n \in Sent(t)' <=> n \in Sent(t) \/ n = Len(ex[t].stream) + 1
    BY <1>6, StreamGrows
  <2>2. StreamsRead'
    BY <1>0, <1>6 DEF WaitInv, StreamsRead, RunInv, OneOwner
  <2>3. WaitsCommitted'
    <3>1. ASSUME NEW u \in Tasks \ {t}, NEW n \in Sent(u)', ex'[u].stream[n] \in WaitEvents
          PROVE  /\ Len(cps') # 0
                 /\ Halted(u)' \/ \E j \in n..Len(ex'[u].stream) : ex'[u].stream[j] = "resumed"
      BY <1>0, <3>1 DEF WaitInv, WaitsCommitted, Sent, Halted
    <3>2. ASSUME NEW n \in Sent(t)', ex'[t].stream[n] \in WaitEvents
          PROVE  /\ Len(cps') # 0
                 /\ Halted(t)' \/ \E j \in n..Len(ex'[t].stream) : ex'[t].stream[j] = "resumed"
      <4>1. Len(cps') # 0
        <5>1. CASE n \in Sent(t)
          BY <1>0, <2>1, <3>2, <5>1 DEF WaitInv, WaitsCommitted
        <5> QED BY <1>6, <2>1, <3>2, <5>1
      <4>2. v = "resumed" => \E j \in n..Len(ex'[t].stream) : ex'[t].stream[j] = "resumed"
        BY <2>1 DEF Sent
      <4> QED BY <1>6, <4>1, <4>2
    <3> QED BY <3>1, <3>2 DEF WaitsCommitted
  <2>4. AnsweredIsClaimed'
    <3>1. ASSUME NEW u \in Tasks, Awaits(u)'
          PROVE  /\ Awaits(u) /\ Halted(u)' /\ ex'[u].claim = ex[u].claim
                 /\ ex'[u].seen = ex[u].seen /\ ex'[u].wait = ex[u].wait
      <4>1. CASE u = t
        <5>1. v # "resumed" /\ ~Resumes(t)
          BY <2>1, <3>1, <4>1 DEF Awaits, Resumes
        <5> QED BY <1>0, <1>6, <3>1, <4>1, <5>1 DEF Awaits, Executing
      <4>2. CASE u # t
        <5>1. Awaits(u)
          BY <1>0, <3>1, <4>2 DEF Awaits, Executing, Resumes, Sent
        <5> QED BY <1>0, <4>2, <5>1 DEF WaitInv, AnsweredIsClaimed, Halted
      <4> QED BY <4>1, <4>2
    <3> QED BY <1>0, <1>4, <3>1 DEF WaitInv, AnsweredIsClaimed
  <2> QED BY <1>1, <1>2, <1>3, <2>2, <2>3, <2>4 DEF WaitInv
<1> QED BY <1>5, <1>6 DEF WaitStep

\* What WaitInv says of one execution.
TaskWaits(t) ==
    /\ \A n \in Sent(t) : ex[t].stream[n] \in WaitEvents =>
         /\ Len(cps) # 0
         /\ Halted(t) \/ \E j \in n..Len(ex[t].stream) : ex[t].stream[j] = "resumed"
    /\ ex[t].pc \notin {"run", "publish", "wake"} => ex[t].stream = <<>>
    /\ Awaits(t) =>
        /\ ex[t].seen = Len(cps) /\ Halted(t)
        /\ ex[t].wait.id \in answered =>
             /\ doc.status = "running" /\ doc.wait = NoWait
             /\ doc.resumeClaim # ex[t].claim /\ doc.resumeCheckpoint = ex[t].seen
        /\ doc.status = "waiting" /\ doc.wait.id = ex[t].wait.id => doc.checkpoint = ex[t].seen
    /\ ex[t].pc = "publish" => ex[t].wait.id \notin answered \union {0, doc.wait.id}
    /\ Executing(t) /\ ex[t].status = "waiting" => ex[t].seen # 0

LEMMA WaitParts ==
  WaitInv <=> /\ \A t \in Tasks : TaskWaits(t)
              /\ FirstLaunchAlone /\ InboxSwept /\ AnswerOnce
              /\ doc.status = "waiting" => doc.checkpoint # 0
  BY DEF WaitInv, TaskWaits, WaitsCommitted, StreamsRead, AnsweredIsClaimed, PublishedAfresh,
         WaitingHasCheckpoint

LEMMA WaitPartsNext ==
  WaitInv' <=> /\ \A t \in Tasks : TaskWaits(t)'
               /\ FirstLaunchAlone' /\ InboxSwept' /\ AnswerOnce'
               /\ doc'.status = "waiting" => doc'.checkpoint # 0
  BY DEF WaitInv, TaskWaits, WaitsCommitted, StreamsRead, AnsweredIsClaimed, PublishedAfresh,
         WaitingHasCheckpoint

\* An execution that has not begun, or is over, waits for nothing.
LEMMA NotWaiting ==
  ASSUME NEW t \in Tasks, ex'[t].pc \in {"off", "load", "lastWake", "failed", "close"}, ex'[t].stream = <<>>
  PROVE  TaskWaits(t)'
<1>1. Sent(t)' = {}
  BY DEF Sent
<1>2. ~Executing(t)' /\ ~Awaits(t)' /\ ex'[t].pc # "publish"
  BY DEF Executing, Awaits
<1> QED BY <1>1, <1>2 DEF TaskWaits

LEMMA WaitsFrom ==
  ASSUME RunInv, WaitInv, NEW t \in Tasks, \A u \in Tasks \ {t} : ex[u].pc = "off", OthersSame(t),
         TaskWaits(t)', FirstLaunchAlone', InboxSwept', AnswerOnce',
         doc'.status = "waiting" => doc'.checkpoint # 0
  PROVE  WaitInv'
<1>1. ASSUME NEW u \in Tasks, u # t PROVE TaskWaits(u)'
  <2>1. ex'[u] = ex[u] /\ ex[u].pc = "off"
    BY <1>1 DEF OthersSame
  <2>2. ex[u].stream = <<>>
    BY <2>1 DEF WaitInv, StreamsRead
  <2> QED BY <2>1, <2>2, NotWaiting
<1> QED BY <1>1, WaitPartsNext

\* A launch of a new run is over once an execution has begun.
LEMMA NobodyFirst ==
  ASSUME RunInv, WaitInv, NEW t \in Tasks, ex[t].pc \notin {"off", "load"}
  PROVE  \A u \in Tasks : ~((PendingTask(u) \/ ex[u].pc = "load") /\ task[u].resume = 0)
<1>1. /\ task[t].st = "owner" /\ ~PendingTask(t)
      /\ \A u \in Tasks \ {t} : ex[u].pc = "off"
  BY Owned
<1> QED BY <1>1 DEF WaitInv, FirstLaunchAlone

LEMMA FirstLaunchKept ==
  ASSUME RunInv, WaitInv, NEW t \in Tasks, ex[t].pc \notin {"off", "load"},
         OthersSame(t), ex'[t].pc # "load",
         \A u \in Tasks : task'[u] = task[u] \/ (~PendingTask(u)' /\ u = t)
  PROVE  FirstLaunchAlone'
<1>1. \A u \in Tasks : ~((PendingTask(u) \/ ex[u].pc = "load") /\ task[u].resume = 0)
  BY NobodyFirst
<1>2. \A u \in Tasks : ex'[u].pc = "load" => ex[u].pc = "load" /\ u # t
  BY DEF OthersSame
<1>3. \A u \in Tasks : ~((PendingTask(u)' \/ ex'[u].pc = "load") /\ task'[u].resume = 0)
  BY <1>1, <1>2 DEF PendingTask
<1> QED BY <1>3 DEF FirstLaunchAlone

LEMMA FlushKeepsWaits ==
  ASSUME RunInv, RunInv', WaitInv, NEW t \in Tasks, FlushStep(t) PROVE WaitInv'
<1>1. /\ ex[t].pc \in {"run", "publish", "final"} /\ ex'[t].pc = ex[t].pc /\ OthersSame(t)
      /\ UNCHANGED <<cps, task, owner, oldWaits, answered, incidents>>
      /\ ex'[t].status = ex[t].status /\ ex'[t].wait = ex[t].wait /\ ex'[t].stream = ex[t].stream
      /\ ex'[t].prod = ex[t].prod /\ ex'[t].claim = ex[t].claim
      /\ doc'.status = doc.status /\ doc'.wait = doc.wait /\ doc'.queue = doc.queue
      /\ doc'.resumeClaim = doc.resumeClaim /\ doc'.resumeCheckpoint = doc.resumeCheckpoint
  BY DEF FlushStep, ProducerSame
<1>2. PICK k \in Nat : /\ k = doc'.checkpoint /\ ex'[t].seen = k /\ k # 0 /\ k <= Len(cps) /\ ex[t].seen <= k
  BY Numbers DEF FlushStep
<1>3. \A u \in Tasks \ {t} : ex[u].pc = "off" /\ owner = t
  BY <1>1, Owned
<1>4. (Awaits(t)' <=> Awaits(t)) /\ (Halted(t)' <=> Halted(t)) /\ Sent(t)' = Sent(t)
  BY <1>1 DEF Awaits, Executing, Resumes, Sent, Halted
<1>5. Awaits(t) => k = ex[t].seen
  <2>1. Awaits(t) => ex[t].seen = Len(cps)
    BY DEF WaitInv, AnsweredIsClaimed
  <2>2. ex[t].seen \in Nat /\ Len(cps) \in Nat
    BY Numbers
  <2> QED BY <1>2, <2>1, <2>2
<1>6. TaskWaits(t)
  BY WaitParts
<1>7. TaskWaits(t)'
  BY <1>1, <1>2, <1>4, <1>5, <1>6 DEF TaskWaits
<1>8. FirstLaunchAlone'
  BY <1>1, FirstLaunchKept
<1>9. InboxSwept'
  <2>1. ~Unattended'
    BY <1>1, <1>3, Numbers, Owned DEF Unattended
  <2> QED BY <2>1 DEF InboxSwept
<1>10. AnswerOnce'
  BY <1>1 DEF WaitInv, AnswerOnce
<1> QED BY <1>1, <1>2, <1>3, <1>7, <1>8, <1>9, <1>10, WaitsFrom

LEMMA EventKeepsWaits ==
  ASSUME RunInv, RunInv', WaitInv, NEW t \in Tasks, EventStep(t) PROVE WaitInv'
<1>1. /\ ex[t].pc = "run" /\ ex'[t].pc \in {"run", "publish"} /\ OthersSame(t)
      /\ UNCHANGED <<doc, cps, task, owner, oldWaits, answered, incidents>>
      /\ ex'[t].prod = ex[t].prod /\ ex'[t].claim = ex[t].claim
      /\ ex[t].stream # <<>> /\ ex'[t].stream = Tail(ex[t].stream)
  BY DEF EventStep, ProducerSame
<1>2. PICK s \in Seq(StreamEvents) : s = ex[t].stream
  BY ProducerTypes
<1>3. PICK z : z = ex'[t].stream
  OBVIOUS
<1>4. /\ Head(s) = s[1] /\ Len(s) >= 1 /\ Len(s) \in Nat /\ Len(z) = Len(s) - 1
      /\ \A n \in 1..Len(z) : z[n] = s[n + 1]
  BY <1>1, <1>2, <1>3, TailFacts
<1>5. \A n \in Tasks \ {t} : ex[n].pc = "off" /\ owner = t
  BY <1>1, Owned
<1>6. owner = t /\ owner # 0
  BY <1>1, Owned, Numbers
<1>7. TaskWaits(t)
  BY WaitParts
<1>8. \A n \in 1..Len(s) : s[n] \in WaitEvents =>
         /\ Len(cps) # 0
         /\ Halted(t) \/ \E j \in n..Len(s) : s[j] = "resumed"
  BY <1>2, <1>7 DEF TaskWaits, Sent
<1>9. Halted(t)' <=> Halted(t)
  BY <1>1 DEF Halted
<1>10. \A n \in 1..Len(z) : z[n] \in WaitEvents =>
         /\ Len(cps) # 0
         /\ Halted(t) \/ \E j \in n..Len(z) : z[j] = "resumed"
  <2>1. ASSUME NEW n \in 1..Len(z), z[n] \in WaitEvents, ~Halted(t)
        PROVE  \E j \in n..Len(z) : z[j] = "resumed"
    <3>1. n + 1 \in 1..Len(s) /\ s[n + 1] \in WaitEvents
      BY <1>4, <2>1
    <3>2. PICK j \in (n + 1)..Len(s) : s[j] = "resumed"
      BY <1>8, <2>1, <3>1
    <3>3. j - 1 \in n..Len(z) /\ z[j - 1] = s[j]
      BY <1>4
    <3> QED BY <3>2, <3>3
  <2>2. ASSUME NEW n \in 1..Len(z), z[n] \in WaitEvents PROVE Len(cps) # 0
    <3>1. n + 1 \in 1..Len(s) /\ s[n + 1] \in WaitEvents
      BY <1>4, <2>2
    <3> QED BY <1>8, <3>1
  <2> QED BY <2>1, <2>2
<1>11. Resumes(t) => Resumes(t)' \/ s[1] = "resumed"
  <2>1. ASSUME NEW n \in 1..Len(s), s[n] = "resumed", n # 1 PROVE \E j \in 1..Len(z) : z[j] = "resumed"
    <3>1. n - 1 \in 1..Len(z) /\ z[n - 1] = s[n]
      BY <1>4, <2>1
    <3> QED BY <2>1, <3>1
  <2>2. Resumes(t) => \E n \in 1..Len(s) : s[n] = "resumed"
    BY <1>2 DEF Resumes, Sent
  <2>3. (\E j \in 1..Len(z) : z[j] = "resumed") => Resumes(t)'
    BY <1>3 DEF Resumes, Sent
  <2> QED BY <2>1, <2>2, <2>3
<1>12. /\ answered \subseteq 1..waits /\ waits \in Nat /\ doc.wait.id <= waits /\ doc.wait.id \in Nat
  BY DocumentItself DEF RunInv, RunTypeOK, Shapes, Documents, Waits
<1>13. waits + 1 \notin answered \union {0, doc.wait.id}
  BY <1>12
<1>14. TaskWaits(t)'
  <2>0. \A n \in Sent(t)' : ex'[t].stream[n] \in WaitEvents =>
         /\ Len(cps') # 0
         /\ Halted(t)' \/ \E j \in n..Len(ex'[t].stream) : ex'[t].stream[j] = "resumed"
    BY <1>1, <1>3, <1>9, <1>10 DEF Sent
  <2>1. CASE Head(s) \in {"resumed", "done"} /\ ex'[t].status \in {"running", "completed"} /\ ex'[t].pc = "run"
    <3>1. ~Awaits(t)' /\ ex'[t].status # "waiting"
      BY <2>1 DEF Awaits
    <3> QED BY <2>0, <2>1, <3>1 DEF TaskWaits
  <2>2. CASE /\ Head(s) = "failed" /\ ex'[t].pc = "run"
             /\ ex'[t].status = ex[t].status /\ ex'[t].wait = ex[t].wait /\ ex'[t].seen = ex[t].seen
    <3>1. Awaits(t)' => Awaits(t)
      BY <1>1, <1>4, <1>11, <2>2 DEF Awaits, Executing
    <3>2. Executing(t)' <=> Executing(t)
      BY <1>1, <2>2 DEF Executing
    <3> QED BY <1>1, <1>7, <1>9, <2>0, <2>2, <3>1, <3>2 DEF TaskWaits
  <2>3. CASE /\ Head(s) \in WaitEvents
             /\ ex'[t].seen = Len(cps) /\ ex'[t].wait.id = waits + 1
    <3>1. s[1] # "resumed" /\ 1 \in 1..Len(s) /\ Len(cps) # 0
      BY <1>4, <1>8, <2>3 DEF WaitEvents, WaitKinds
    <3>2. Halted(t) \/ Resumes(t)
      BY <1>2, <1>4, <1>8, <2>3, <3>1 DEF Resumes, Sent
    <3>3. Awaits(t)' => Halted(t)'
      BY <1>9, <1>11, <3>1, <3>2 DEF Awaits
    <3> QED BY <1>1, <1>13, <2>0, <2>3, <3>1, <3>3 DEF TaskWaits
  <2> QED BY <1>2, <2>1, <2>2, <2>3 DEF EventStep
<1>15. FirstLaunchAlone'
  BY <1>1, FirstLaunchKept
<1>16. InboxSwept'
  <2>1. ~Unattended'
    BY <1>1, <1>6 DEF Unattended
  <2> QED BY <2>1 DEF InboxSwept
<1>17. AnswerOnce' /\ (doc'.status = "waiting" => doc'.checkpoint # 0)
  BY <1>1 DEF WaitInv, AnswerOnce, WaitingHasCheckpoint
<1> QED BY <1>1, <1>5, <1>14, <1>15, <1>16, <1>17, WaitsFrom

LEMMA ClosedKeepsWaits ==
  ASSUME RunInv, RunInv', WaitInv, NEW t \in Tasks, ClosedStep(t) PROVE WaitInv'
<1>1. /\ ex[t].pc = "run" /\ ex'[t].pc = "final" /\ OthersSame(t)
      /\ UNCHANGED <<doc, cps, task, owner, oldWaits, answered, incidents>>
      /\ ex'[t].claim = ex[t].claim /\ ex'[t].wait = ex[t].wait
      /\ ex[t].prod = "ended" /\ ex'[t].prod = "ended" /\ ex[t].stream = <<>> /\ ex'[t].stream = <<>>
      /\ ex'[t].seen = Len(cps) /\ (ex'[t].status = "waiting" => ex[t].status = "waiting")
  BY DEF ClosedStep
<1>2. Sent(t) = {} /\ Sent(t)' = {}
  BY <1>1 DEF Sent
<1>3. TaskWaits(t)
  BY WaitParts
<1>4. ex'[t].status = "waiting" => Awaits(t) /\ ex[t].seen = Len(cps) /\ ex[t].seen # 0
  BY <1>1, <1>2, <1>3 DEF Awaits, Executing, Resumes, TaskWaits
<1>5. Halted(t)'
  BY <1>1 DEF Halted
<1>6. Awaits(t)' => ex'[t].status = "waiting"
  BY DEF Awaits
<1>7. TaskWaits(t)'
  BY <1>1, <1>2, <1>3, <1>4, <1>5, <1>6 DEF TaskWaits
<1>8. (\A u \in Tasks \ {t} : ex[u].pc = "off") /\ owner = t /\ owner # 0
  BY <1>1, Owned, Numbers
<1>9. FirstLaunchAlone'
  BY <1>1, FirstLaunchKept
<1>10. InboxSwept'
  <2>1. ~Unattended'
    BY <1>1, <1>8 DEF Unattended
  <2> QED BY <2>1 DEF InboxSwept
<1>11. AnswerOnce' /\ (doc'.status = "waiting" => doc'.checkpoint # 0)
  BY <1>1 DEF WaitInv, AnswerOnce, WaitingHasCheckpoint
<1> QED BY <1>1, <1>7, <1>8, <1>9, <1>10, <1>11, WaitsFrom

LEMMA PersistKeepsWaits ==
  ASSUME RunInv, RunInv', WaitInv, NEW t \in Tasks, PersistStep(t) PROVE WaitInv'
<1>1. /\ OthersSame(t) /\ MergedInto(doc', ex[t])
      /\ UNCHANGED <<cps, task, owner, oldWaits, answered>>
      /\ ex[t].pc \in {"publish", "final", "failed"} /\ ex'[t].pc \in {"wake", "lastWake", "close"}
  BY DEF PersistStep, Moving, Closing
<1>2. (\A u \in Tasks \ {t} : ex[u].pc = "off") /\ owner = t /\ owner # 0
  BY <1>1, Owned, Numbers
<1>3. TaskWaits(t)
  BY WaitParts
<1>4. ex[t].pc = "failed" => ex[t].status # "waiting"
  BY DEF RunInv, StreamSettles
<1>5. doc'.status = "waiting" =>
        /\ ex[t].status = "waiting" /\ doc'.wait = ex[t].wait /\ ~AlreadyClaimed(doc, ex[t])
        /\ doc'.checkpoint = ex[t].seen /\ ex[t].seen # 0 /\ ex[t].pc # "failed"
  <2>1. doc'.status = "waiting" =>
          /\ ex[t].status = "waiting" /\ doc'.wait = ex[t].wait /\ ~AlreadyClaimed(doc, ex[t])
          /\ doc'.checkpoint = ex[t].seen
    BY <1>1 DEF MergedInto
  <2> QED BY <1>1, <1>3, <1>4, <2>1 DEF TaskWaits, Executing
<1>6. ex[t].pc = "final" /\ ex[t].status = "waiting" /\ ex[t].wait.id \in answered
        => AlreadyClaimed(doc, ex[t])
  <2>1. ex[t].pc = "final" /\ ex[t].status = "waiting" => Awaits(t) /\ ex[t].seen # 0
    BY <1>3 DEF TaskWaits, Awaits, Executing, Resumes, Sent
  <2> QED BY <1>3, <2>1 DEF TaskWaits, AlreadyClaimed
<1>7. AnswerOnce'
  <2>1. ex[t].pc = "publish" => ex[t].wait.id \notin answered
    BY <1>3 DEF TaskWaits
  <2> QED BY <1>1, <1>5, <1>6, <2>1 DEF AnswerOnce
<1>8. TaskWaits(t)'
  <2>1. CASE ex[t].pc = "publish" /\ Moving(t, "wake")
    <3>1. /\ ex'[t].pc = "wake" /\ ex'[t].prod = ex[t].prod /\ ex'[t].claim = ex[t].claim
          /\ ex'[t].status = ex[t].status /\ ex'[t].wait = ex[t].wait
          /\ ex'[t].stream = ex[t].stream /\ ex'[t].seen = ex[t].seen
      BY <2>1 DEF Moving, ProducerSame
    <3>2. /\ (Awaits(t)' <=> Awaits(t)) /\ (Halted(t)' <=> Halted(t)) /\ Sent(t)' = Sent(t)
          /\ Executing(t)
      BY <2>1, <3>1 DEF Awaits, Executing, Resumes, Sent, Halted
    <3> QED BY <1>1, <1>3, <1>5, <2>1, <3>1, <3>2 DEF TaskWaits
  <2>2. CASE ex[t].pc = "final" /\ Moving(t, "lastWake")
    <3>1. ex'[t].pc = "lastWake" /\ ex'[t].stream = <<>>
      BY <1>3, <2>2 DEF Moving, TaskWaits
    <3> QED BY <3>1, NotWaiting
  <2>3. CASE ex[t].pc = "failed" /\ Closing(t)
    BY <2>3, NotWaiting DEF Closing
  <2> QED BY <2>1, <2>2, <2>3 DEF PersistStep
<1>9. FirstLaunchAlone'
  BY <1>1, FirstLaunchKept
<1>10. InboxSwept'
  <2>1. Unattended' => ex[t].pc = "failed"
    BY <1>1, <1>2 DEF Unattended, PersistStep, Moving
  <2> QED BY <1>5, <2>1 DEF InboxSwept, InboxWait
<1> QED BY <1>1, <1>2, <1>5, <1>7, <1>8, <1>9, <1>10, WaitsFrom

LEMMA IdleWakeKeepsWaits ==
  ASSUME RunInv, RunInv', WaitInv, NEW t \in Tasks, IdleWakeStep(t) PROVE WaitInv'
<1>1. /\ OthersSame(t) /\ UNCHANGED <<doc, cps, task, owner, oldWaits, answered, incidents>>
      /\ ex[t].pc \in {"wake", "lastWake"} /\ ex'[t].pc \in {"run", "close"}
  BY DEF IdleWakeStep, Moving, Closing
<1>2. (\A u \in Tasks \ {t} : ex[u].pc = "off") /\ owner = t /\ owner # 0
  BY <1>1, Owned, Numbers
<1>3. TaskWaits(t)
  BY WaitParts
<1>4. TaskWaits(t)'
  <2>1. CASE ex[t].pc = "wake" /\ Moving(t, "run")
    <3>1. /\ ex'[t].pc = "run" /\ ex'[t].prod = ex[t].prod /\ ex'[t].claim = ex[t].claim
          /\ ex'[t].status = ex[t].status /\ ex'[t].wait = ex[t].wait
          /\ ex'[t].stream = ex[t].stream /\ ex'[t].seen = ex[t].seen
      BY <2>1 DEF Moving, ProducerSame
    <3>2. /\ (Awaits(t)' <=> Awaits(t)) /\ (Halted(t)' <=> Halted(t)) /\ Sent(t)' = Sent(t)
          /\ Executing(t)
      BY <2>1, <3>1 DEF Awaits, Executing, Resumes, Sent, Halted
    <3> QED BY <1>1, <1>3, <2>1, <3>1, <3>2 DEF TaskWaits
  <2>2. CASE ex[t].pc = "lastWake" /\ Closing(t)
    BY <2>2, NotWaiting DEF Closing
  <2> QED BY <2>1, <2>2 DEF IdleWakeStep
<1>5. FirstLaunchAlone'
  BY <1>1, FirstLaunchKept
<1>6. AnswerOnce' /\ (doc'.status = "waiting" => doc'.checkpoint # 0)
  BY <1>1 DEF WaitInv, AnswerOnce, WaitingHasCheckpoint
<1>7. InboxSwept'
  <2>1. InboxWait(doc) => Pending(doc) = {}
    BY DEF IdleWakeStep, InboxWait, WaitInv, WaitingHasCheckpoint
  <2> QED BY <1>1, <2>1 DEF InboxSwept, InboxWait, Pending
<1> QED BY <1>1, <1>2, <1>4, <1>5, <1>6, <1>7, WaitsFrom

LEMMA ClaimedKeepsWaits ==
  ASSUME RunInv, RunInv', WaitInv, NEW f \in Tasks, NEW input \in Nat, ClaimedStep(f, input)
  PROVE  WaitInv'
<1>1. /\ UNCHANGED <<cps, owner, oldWaits, incidents>>
      /\ doc.checkpoint # 0 /\ task[f].st = "none" /\ ex[f].pc = "off" /\ doc.resumeClaim < f
      /\ doc'.status = "running" /\ doc'.wait = NoWait /\ doc'.resumeCheckpoint = doc.checkpoint
      /\ doc'.resumeClaim = f /\ task'[f].resume = doc.checkpoint
      /\ \A u \in Tasks \ {f} : task'[u] = task[u]
      /\ doc.status \in {"waiting", "stopped", "interrupted"}
  BY DEF ClaimedStep
<1>2. /\ answered \subseteq answered'
      /\ \A i \in answered' : i \in answered \/ (doc.status = "waiting" /\ i = doc.wait.id)
  BY DEF ClaimedStep
<1>3. ASSUME NEW u \in Tasks, ~Closing(u)
      PROVE  /\ ex'[u].prod = ex[u].prod /\ ex'[u].claim = ex[u].claim /\ ex'[u].stream = ex[u].stream
             /\ ex'[u].status = ex[u].status /\ ex'[u].wait = ex[u].wait /\ ex'[u].seen = ex[u].seen
             /\ ex'[u].pc = ex[u].pc \/ (ex[u].pc = "wake" /\ ex'[u].pc = "run")
  <2>1. CASE ex' = ex
    BY <2>1
  <2>2. ASSUME NEW t \in Tasks, OthersSame(t), WakeMoves(t)
        PROVE  /\ ex'[u].prod = ex[u].prod /\ ex'[u].claim = ex[u].claim /\ ex'[u].stream = ex[u].stream
               /\ ex'[u].status = ex[u].status /\ ex'[u].wait = ex[u].wait /\ ex'[u].seen = ex[u].seen
               /\ ex'[u].pc = ex[u].pc \/ (ex[u].pc = "wake" /\ ex'[u].pc = "run")
    <3>1. CASE u = t
      BY <1>3, <2>2, <3>1 DEF WakeMoves, Moving, ProducerSame
    <3>2. CASE u # t
      BY <2>2, <3>2 DEF OthersSame
    <3> QED BY <3>1, <3>2
  <2> QED BY <2>1, <2>2 DEF ClaimedStep
<1>4. ASSUME NEW u \in Tasks PROVE TaskWaits(u)'
  <2>1. CASE Closing(u)
    BY <2>1, NotWaiting DEF Closing
  <2>2. CASE ~Closing(u)
    <3>1. /\ ex'[u].prod = ex[u].prod /\ ex'[u].claim = ex[u].claim /\ ex'[u].stream = ex[u].stream
          /\ ex'[u].status = ex[u].status /\ ex'[u].wait = ex[u].wait /\ ex'[u].seen = ex[u].seen
          /\ ex'[u].pc = ex[u].pc \/ (ex[u].pc = "wake" /\ ex'[u].pc = "run")
      BY <1>3, <2>2
    <3>2. /\ (Awaits(u)' <=> Awaits(u)) /\ (Executing(u)' <=> Executing(u))
          /\ (Halted(u)' <=> Halted(u)) /\ Sent(u)' = Sent(u)
      BY <3>1 DEF Awaits, Executing, Resumes, Sent, Halted
    <3>3. TaskWaits(u)
      BY WaitParts
    <3>4. ex[u].claim <= doc.resumeClaim /\ ex[u].claim \in Nat /\ doc.resumeClaim \in Nat /\ f \in Nat
      BY Numbers DEF RunInv, ClaimsInOrder, Tasks
    <3>5. f # ex'[u].claim
      BY <1>1, <3>1, <3>4
    <3>6. Awaits(u) => (ex[u].wait.id \in answered' => doc.checkpoint = ex[u].seen)
      BY <1>1, <1>2, <3>3 DEF TaskWaits
    <3>7. ex'[u].pc = "publish" => ex'[u].wait.id \notin answered' \union {0, doc'.wait.id}
      <4>1. doc'.wait.id = 0
        BY <1>1 DEF NoWait
      <4> QED BY <1>2, <3>1, <3>3, <4>1 DEF TaskWaits
    <3> QED BY <1>1, <3>1, <3>2, <3>3, <3>5, <3>6, <3>7 DEF TaskWaits
  <2> QED BY <2>1, <2>2
<1>5. FirstLaunchAlone'
  <2>1. ASSUME NEW u \in Tasks, PendingTask(u)' \/ ex'[u].pc = "load", task'[u].resume = 0 PROVE FALSE
    <3>1. u # f
      BY <1>1, <2>1
    <3>2. PendingTask(u) \/ ex[u].pc = "load"
      BY <1>1, <1>3, <2>1, <3>1 DEF PendingTask, Closing
    <3> QED BY <1>1, <2>1, <3>1, <3>2 DEF WaitInv, FirstLaunchAlone
  <2> QED BY <2>1 DEF FirstLaunchAlone
<1>6. InboxSwept' /\ AnswerOnce'
  BY <1>1 DEF InboxSwept, InboxWait, AnswerOnce
<1> QED BY <1>1, <1>4, <1>5, <1>6, WaitPartsNext

LEMMA EndsKeepWaits ==
  ASSUME RunInv, RunInv', WaitInv, NEW t \in Tasks, UnrecordedStep(t) \/ EndStep(t) \/ FailStep(t)
  PROVE  WaitInv'
<1>1. /\ OthersSame(t) /\ UNCHANGED <<doc, cps, oldWaits, answered>>
      /\ ex[t].pc # "off" /\ ex'[t].pc \in {"off", "close", "failed"} /\ ex'[t].stream = <<>>
      /\ ex'[t].prod # "run"
      /\ \A u \in Tasks \ {t} : task'[u] = task[u]
  BY DEF UnrecordedStep, EndStep, FailStep, Closing, Executing
<1>2. (\A u \in Tasks \ {t} : ex[u].pc = "off") /\ owner = t /\ owner # 0 /\ task[t].st = "owner"
  BY <1>1, Owned, Numbers
<1>3. TaskWaits(t)'
  BY <1>1, NotWaiting
<1>4. FirstLaunchAlone'
  <2>1. ~PendingTask(t)'
    BY <1>2 DEF UnrecordedStep, EndStep, FailStep, PendingTask
  <2>2. ASSUME NEW u \in Tasks, PendingTask(u)' \/ ex'[u].pc = "load", task'[u].resume = 0 PROVE FALSE
    <3>1. u # t /\ PendingTask(u) /\ task[u].resume = 0
      BY <1>1, <1>2, <2>1, <2>2 DEF PendingTask, OthersSame
    <3>2. task[t].st = "none"
      BY <3>1 DEF WaitInv, FirstLaunchAlone
    <3> QED BY <1>2, <3>2
  <2> QED BY <2>2 DEF FirstLaunchAlone
<1>5. AnswerOnce' /\ (doc'.status = "waiting" => doc'.checkpoint # 0)
  BY <1>1 DEF WaitInv, AnswerOnce, WaitingHasCheckpoint
<1>6. InboxSwept'
  <2>1. CASE UnrecordedStep(t)
    BY <2>1 DEF UnrecordedStep, InboxSwept
  <2>2. CASE EndStep(t)
    BY <1>1, <1>2, <2>2 DEF EndStep, WaitInv, InboxSwept, InboxWait, Pending, Unattended
  <2>3. CASE FailStep(t)
    <3>1. ~Unattended'
      BY <1>2, <2>3 DEF FailStep, Unattended
    <3> QED BY <3>1 DEF InboxSwept
  <2> QED BY <2>1, <2>2, <2>3
<1> QED BY <1>1, <1>2, <1>3, <1>4, <1>5, <1>6, WaitsFrom

LEMMA OwnKeepsWaits ==
  ASSUME RunInv, RunInv', WaitInv, NEW t \in Tasks, OwnStep(t) PROVE WaitInv'
<1>1. /\ OthersSame(t) /\ UNCHANGED <<doc, cps, oldWaits, answered, incidents>>
      /\ task[t].st = "new" /\ owner = 0 /\ task'[t].resume = task[t].resume
      /\ task'[t].st = "owner" /\ \A u \in Tasks \ {t} : task'[u] = task[u]
      /\ ex'[t].pc = "load" /\ ex'[t].stream = <<>>
  BY DEF OwnStep
<1>2. \A u \in Tasks : ex[u].pc = "off"
  <2>1. \A u \in Tasks : owner # u
    BY <1>1, Numbers
  <2> QED BY <2>1, OwnerOnly
<1>3. TaskWaits(t)'
  BY <1>1, NotWaiting
<1>4. FirstLaunchAlone'
  <2>1. ASSUME NEW u \in Tasks, PendingTask(u)' \/ ex'[u].pc = "load"
        PROVE  PendingTask(u) /\ task'[u].resume = task[u].resume
    BY <1>1, <1>2, <2>1 DEF PendingTask, OthersSame
  <2>2. \A u \in Tasks : task[u].st = "none" => task'[u].st = "none"
    BY <1>1
  <2> QED BY <1>1, <2>1, <2>2 DEF WaitInv, FirstLaunchAlone
<1>5. AnswerOnce' /\ (doc'.status = "waiting" => doc'.checkpoint # 0)
  BY <1>1 DEF WaitInv, AnswerOnce, WaitingHasCheckpoint
<1>6. InboxSwept'
  BY <1>1 DEF WaitInv, InboxSwept, InboxWait, Pending, Unattended
<1> QED BY <1>1, <1>2, <1>3, <1>4, <1>5, <1>6, WaitsFrom

LEMMA LoadKeepsWaits ==
  ASSUME RunInv, RunInv', WaitInv, NEW t \in Tasks, LoadStep(t) PROVE WaitInv'
<1>1. /\ OthersSame(t) /\ UNCHANGED <<doc, cps, task, owner, oldWaits, answered, incidents>>
      /\ ex[t].pc = "load" /\ ex'[t].pc = "run"
      /\ ex'[t].seen = doc.checkpoint /\ ex'[t].status = doc.status
      /\ ex'[t].stream = IF task[t].resume = 0 THEN <<>> ELSE <<"resumed">>
  BY DEF LoadStep
<1>2. (\A u \in Tasks \ {t} : ex[u].pc = "off") /\ owner = t /\ owner # 0
  BY <1>1, Owned, Numbers
<1>3. task[t].resume = 0 => doc.status = "running"
  BY <1>1 DEF WaitInv, FirstLaunchAlone
<1>4. (\A n \in Sent(t)' : ex'[t].stream[n] \notin WaitEvents) /\ (task[t].resume # 0 => Resumes(t)')
  <2>1. CASE task[t].resume = 0
    BY <1>1, <2>1 DEF Sent
  <2>2. CASE task[t].resume # 0
    <3>1. Len(ex'[t].stream) = 1 /\ ex'[t].stream[1] = "resumed"
      BY <1>1, <2>2
    <3> QED BY <3>1 DEF Sent, Resumes, WaitEvents, WaitKinds
  <2> QED BY <2>1, <2>2
<1>5. ~Awaits(t)'
  BY <1>1, <1>3, <1>4 DEF Awaits
<1>6. doc'.status = "waiting" => doc'.checkpoint # 0
  BY <1>1 DEF WaitInv, WaitingHasCheckpoint
<1>7. TaskWaits(t)'
  BY <1>1, <1>4, <1>5, <1>6 DEF TaskWaits
<1>8. FirstLaunchAlone'
  <2>1. \A u \in Tasks : ex'[u].pc = "load" => ex[u].pc = "load"
    BY <1>1 DEF OthersSame
  <2> QED BY <1>1, <2>1 DEF WaitInv, FirstLaunchAlone, PendingTask
<1>9. InboxSwept'
  <2>1. ~Unattended'
    BY <1>1, <1>2 DEF Unattended
  <2> QED BY <2>1 DEF InboxSwept
<1>10. AnswerOnce'
  BY <1>1 DEF WaitInv, AnswerOnce
<1> QED BY <1>1, <1>2, <1>6, <1>7, <1>8, <1>9, <1>10, WaitsFrom

LEMMA QuietKeepsWaits == ASSUME RunInv, RunInv', WaitInv, QuietStep PROVE WaitInv'
<1>1. /\ UNCHANGED <<cps, task, owner, ex, oldWaits, answered, incidents>>
      /\ doc'.wait = doc.wait /\ doc'.checkpoint = doc.checkpoint
      /\ doc'.resumeCheckpoint = doc.resumeCheckpoint /\ doc'.resumeClaim = doc.resumeClaim
      /\ doc'.status = doc.status \/ (doc.status = "waiting" /\ doc'.status = "stopped")
  BY DEF QuietStep, SameButQueue
<1>2. ASSUME NEW u \in Tasks PROVE TaskWaits(u)'
  <2>1. TaskWaits(u)
    BY WaitParts
  <2>2. /\ (Awaits(u)' <=> Awaits(u)) /\ (Executing(u)' <=> Executing(u))
        /\ (Halted(u)' <=> Halted(u)) /\ Sent(u)' = Sent(u)
    BY <1>1 DEF Awaits, Executing, Resumes, Sent, Halted
  <2> QED BY <1>1, <2>1, <2>2 DEF TaskWaits
<1>3. FirstLaunchAlone'
  BY <1>1 DEF WaitInv, FirstLaunchAlone, PendingTask
<1>4. AnswerOnce' /\ (doc'.status = "waiting" => doc'.checkpoint # 0)
  BY <1>1 DEF WaitInv, AnswerOnce, WaitingHasCheckpoint
<1>5. InboxSwept'
  <2>1. InboxWait(doc') => InboxWait(doc) /\ Pending(doc') \subseteq Pending(doc)
    <3>1. InboxWait(doc') => InboxWait(doc)
      BY <1>1 DEF InboxWait
    <3>2. InboxWait(doc) => \A m \in Messages : doc'.queue[m] = "pending" => doc.queue[m] = "pending"
      BY DEF QuietStep
    <3> QED BY <3>1, <3>2 DEF Pending
  <2>2. InboxWait(doc)' <=> InboxWait(doc')
    BY DEF InboxWait
  <2>3. Pending(doc)' = Pending(doc')
    BY DEF Pending
  <2>4. Unattended' <=> Unattended
    BY <1>1 DEF Unattended
  <2> QED BY <1>1, <2>1, <2>2, <2>3, <2>4 DEF WaitInv, InboxSwept
<1> QED BY <1>2, <1>3, <1>4, <1>5, WaitPartsNext

LEMMA HandoverKeepsWaits == ASSUME RunInv, RunInv', WaitInv, HandoverStep PROVE WaitInv'
<1>1. /\ UNCHANGED <<doc, cps, owner, oldWaits, answered, incidents>>
      /\ \A u \in Tasks :
         /\ ex'[u].pc = ex[u].pc /\ ex'[u].prod = ex[u].prod /\ ex'[u].seen = ex[u].seen
         /\ ex'[u].status = ex[u].status /\ ex'[u].wait = ex[u].wait /\ ex'[u].claim = ex[u].claim
         /\ ex'[u].stream = ex[u].stream
         /\ task'[u].resume = task[u].resume /\ (PendingTask(u)' <=> PendingTask(u))
         /\ (task'[u].st = "none") <=> (task[u].st = "none")
  BY DEF HandoverStep, SameExecutions, SameLaunches
<1>2. ASSUME NEW u \in Tasks PROVE TaskWaits(u)'
  <2>1. TaskWaits(u)
    BY WaitParts
  <2>2. /\ (Awaits(u)' <=> Awaits(u)) /\ (Executing(u)' <=> Executing(u))
        /\ (Halted(u)' <=> Halted(u)) /\ Sent(u)' = Sent(u)
    BY <1>1 DEF Awaits, Executing, Resumes, Sent, Halted
  <2> QED BY <1>1, <2>1, <2>2 DEF TaskWaits
<1>3. FirstLaunchAlone'
  BY <1>1 DEF WaitInv, FirstLaunchAlone
<1>4. AnswerOnce' /\ (doc'.status = "waiting" => doc'.checkpoint # 0)
  BY <1>1 DEF WaitInv, AnswerOnce, WaitingHasCheckpoint
<1>5. InboxSwept'
  <2>1. Unattended' <=> Unattended
    BY <1>1, OwnerInRange DEF Unattended
  <2> QED BY <1>1, <2>1 DEF WaitInv, InboxSwept, InboxWait, Pending
<1> QED BY <1>2, <1>3, <1>4, <1>5, WaitPartsNext

LEMMA RestartKeepsWaits == ASSUME RunInv, RunInv', WaitInv, RestartStep PROVE WaitInv'
<1>1. /\ UNCHANGED <<cps, waits, answered>> /\ RecoveredInto(doc') /\ oldWaits' = waits
      /\ \A u \in Tasks : ex'[u].pc = "off" /\ ex'[u].stream = <<>> /\ ~PendingTask(u)'
  BY DEF RestartStep
<1>2. \A u \in Tasks : TaskWaits(u)'
  BY <1>1, NotWaiting
<1>3. FirstLaunchAlone'
  BY <1>1 DEF FirstLaunchAlone
<1>4. doc'.wait = doc.wait /\ (doc'.status = "waiting" => doc.status = "waiting")
  BY <1>1 DEF RecoveredInto
<1>5. AnswerOnce'
  BY <1>1, <1>4 DEF WaitInv, AnswerOnce
<1>6. doc'.status = "waiting" => doc'.checkpoint # 0
  <2>1. doc'.checkpoint = doc.checkpoint \/ doc'.checkpoint = Len(cps)
    BY <1>1 DEF RecoveredInto
  <2>2. doc.status = "waiting" => doc.checkpoint # 0
    BY DEF WaitInv, WaitingHasCheckpoint
  <2> QED BY <1>4, <2>1, <2>2, StateStart
<1>7. InboxSwept'
  <2>1. doc.wait.id <= waits /\ doc.wait.id \in Nat /\ waits \in Nat
    BY StateStart DEF Documents, Waits
  <2>2. ~(doc'.wait.id > oldWaits')
    BY <1>1, <1>4, <2>1
  <2> QED BY <2>2 DEF InboxSwept
<1> QED BY <1>2, <1>3, <1>5, <1>6, <1>7, WaitPartsNext

LEMMA InitWaits == Init => WaitInv
<1> SUFFICES ASSUME Init PROVE WaitInv
  OBVIOUS
<1>1. /\ doc.status = "running" /\ ex = [t \in Tasks |-> NoExecution]
      /\ task = [t \in Tasks |-> IF t = 1 THEN [NoTask EXCEPT !.st = "new"] ELSE NoTask]
  BY DEF Init
<1>2. \A t \in Tasks : ex[t].pc = "off" /\ ex[t].stream = <<>>
  BY <1>1 DEF NoExecution
<1>3. \A t \in Tasks : Sent(t) = {} /\ ~Executing(t) /\ ~Awaits(t)
  BY <1>2 DEF Sent, Executing, Awaits
<1>4. \A t \in Tasks : task[t].st = IF t = 1 THEN "new" ELSE "none"
  BY <1>1 DEF NoTask
<1>5. \A t \in Tasks : PendingTask(t) => t = 1
  BY <1>4 DEF PendingTask
<1> QED BY <1>1, <1>2, <1>3, <1>4, <1>5
        DEF WaitInv, WaitsCommitted, StreamsRead, AnsweredIsClaimed, PublishedAfresh, FirstLaunchAlone,
            WaitingHasCheckpoint, InboxSwept, InboxWait, AnswerOnce

-----------------------------------------------------------------------------
(* Every step is one of these. *)

ProducerMoves(t) ==
    \/ \E m \in Messages : ProducerClaim(t, m)
    \/ ProducerEmpty(t)
    \/ EndingStep(t)
    \/ CommitStep(t)
    \/ \E r \in Tasks : ResumedStep(t, r)

ConsumerMoves(t) ==
    \/ FlushStep(t) \/ EventStep(t) \/ ClosedStep(t) \/ PersistStep(t) \/ IdleWakeStep(t)
    \/ UnrecordedStep(t) \/ EndStep(t)

LaunchMoves(t) == OwnStep(t) \/ LoadStep(t) \/ FailStep(t)

LEMMA Steps ==
  ASSUME RunInv, [Next]_vars
  PROVE  \/ QuietStep \/ HandoverStep \/ RestartStep
         \/ \E f \in Tasks : \E input \in Nat : ClaimedStep(f, input)
         \/ \E t \in Tasks : ProducerMoves(t) \/ ConsumerMoves(t) \/ LaunchMoves(t)
<1>1. CASE Command
  BY <1>1, AnswerClaims, ResumeClaims, QueueClaimsOrWaits, Withdrawing, Stopping DEF Command
<1>2. ASSUME NEW t \in Tasks, Launch(t) PROVE HandoverStep \/ LaunchMoves(t)
  BY <1>2, Owning, Loading, Failing, HandingOver DEF Launch, LaunchMoves
<1>3. ASSUME NEW t \in Tasks, Producer(t) PROVE ProducerMoves(t)
  <2>1. CASE \E failed \in BOOLEAN : KidsSettle(t, failed)
    BY <2>1, ProducerEnding DEF ProducerMoves
  <2>2. CASE ParkedResume(t)
    <3>1. ResumedStep(t, Front(t))
      BY <2>2, ProducerResuming
    <3>2. Front(t) \in Tasks
      BY <3>1 DEF ResumedStep
    <3> QED BY <3>1, <3>2 DEF ProducerMoves
  <2>3. CASE \/ ProducerFail(t) \/ ParkedCancel(t) \/ ParkedResumeRefused(t)
             \/ ProducerEnd(t) \/ ProducerEndFails(t)
    BY <2>3, ProducerEnding DEF ProducerMoves
  <2>4. CASE ProducerStep(t) \/ ProducerWait(t) \/ ProducerDone(t)
    BY <2>4, ProducerCommitting DEF ProducerMoves
  <2> QED BY <1>3, <2>1, <2>2, <2>3, <2>4 DEF Producer, ProducerMoves
<1>4. ASSUME NEW t \in Tasks, Consumer(t)
      PROVE  ConsumerMoves(t) \/ \E f \in Tasks : \E input \in Nat : ClaimedStep(f, input)
  BY <1>4, Flushing, TakingEvent, ClosingStream, Persisting, Waking, NotRecording, ClosingExecution
     DEF Consumer, ConsumerMoves
<1> QED BY <1>1, <1>2, <1>3, <1>4, Restarting, Stuttering DEF Next

LEMMA WaitKept == ASSUME RunInv, WaitInv, [Next]_vars PROVE WaitInv'
<1>1. RunInv'
  BY NextKeeps
<1>2. ASSUME NEW t \in Tasks, ProducerMoves(t) PROVE WaitInv'
  <2>1. LocalStep(t) \/ CommitStep(t) \/ \E r \in Tasks : ResumedStep(t, r)
    BY <1>2, ProducerClaimLocal, ProducerEmptyLocal DEF ProducerMoves, EndingStep
  <2> QED BY <1>1, <2>1, ProducerWaitStep, ProducerKeepsWaits
<1>3. ASSUME NEW t \in Tasks, ConsumerMoves(t) PROVE WaitInv'
  BY <1>1, <1>3, FlushKeepsWaits, EventKeepsWaits, ClosedKeepsWaits, PersistKeepsWaits,
     IdleWakeKeepsWaits, EndsKeepWaits DEF ConsumerMoves
<1>4. ASSUME NEW t \in Tasks, LaunchMoves(t) PROVE WaitInv'
  BY <1>1, <1>4, OwnKeepsWaits, LoadKeepsWaits, EndsKeepWaits DEF LaunchMoves
<1> QED BY <1>1, <1>2, <1>3, <1>4, Steps, QuietKeepsWaits, HandoverKeepsWaits, RestartKeepsWaits,
           ClaimedKeepsWaits

\* What an execution waits for is what is shown or has been answered, a wait is
\* published under an identity of its own and never again once answered, and an
\* inbox that no execution will look at again has nothing to deliver.
THEOREM WaitInvariant == Spec => []WaitInv
<1>1. Init => RunInv /\ WaitInv
  BY InitEstablishes, InitWaits
<1>2. RunInv /\ WaitInv /\ [Next]_vars => RunInv' /\ WaitInv'
  BY NextKeeps, WaitKept
<1> QED BY <1>1, <1>2, PTL DEF Spec

-----------------------------------------------------------------------------
(* The line of work. *)

Line == CarrierKept /\ FrontKept /\ ShownKept /\ RestKept /\ HistoryKept

\* What ShownKept says of the stream of an execution.
OneWait(t) ==
    /\ \A n, j \in Sent(t) :
         ex[t].stream[n] \in WaitEvents /\ ex[t].stream[j] \in WaitEvents => n = j
    /\ ex[t].pc = "publish" => \A n \in Sent(t) : ex[t].stream[n] \notin WaitEvents

\* What the steps that claim, launch, commit and publish nothing have in common.
CalmDocument ==
    /\ UNCHANGED <<cps, inputs>>
    /\ doc'.status = doc.status \/ (doc.status = "waiting" /\ doc'.status = "stopped")
    /\ doc'.checkpoint = doc.checkpoint \/ doc.checkpoint # Len(cps)
    /\ doc'.resumeClaim = doc.resumeClaim /\ doc'.resumeCheckpoint = doc.resumeCheckpoint
    /\ doc'.resumeInput = doc.resumeInput
CalmLaunch(u) ==
    /\ PendingTask(u)' <=> PendingTask(u)
    /\ ex'[u].pc = "load" => ex[u].pc = "load"
    /\ PendingTask(u)' \/ ex'[u].pc = "load" =>
         task'[u].claim = task[u].claim /\ task'[u].resume = task[u].resume /\ task'[u].input = task[u].input
CalmProducer(u) ==
    /\ Working(u)' => Working(u) /\ ex'[u].input = ex[u].input
    /\ ex'[u].prod = "parked" => ex[u].prod = "parked"
    /\ ex'[u].prod = "done" => ex[u].prod = "done"
    /\ Working(u)' \/ ex'[u].prod = "parked" => ex'[u].at = ex[u].at
CalmConsumer(u) ==
    /\ Unshown(u)' => Unshown(u) /\ Halted(u)'
    /\ OneWait(u)'
    /\ Awaits(u)' => Awaits(u) \/ Unshown(u)
    /\ ex'[u].pc \in {"publish", "final", "failed"} => ex'[u].seen = Len(cps)
CalmStep ==
    /\ CalmDocument
    /\ \A u \in Tasks : CalmLaunch(u) /\ CalmProducer(u) /\ CalmConsumer(u)

LEMMA CalmStepKeepsLine == ASSUME Line, CalmStep PROVE Line'
<1>1. (NonePending' <=> NonePending) /\ \A u \in Tasks : Carrier(u)' => Carrier(u)
  BY DEF CalmStep, CalmLaunch, NonePending, Carrier
<1>2. CarrierKept'
  <2>1. ASSUME NEW u \in Tasks, Carrier(u)'
        PROVE  /\ doc'.status = "running" /\ doc'.checkpoint = Len(cps')
               /\ task'[u].resume = Len(cps') /\ doc'.resumeCheckpoint = Len(cps')
               /\ task'[u].input = doc'.resumeInput
               /\ PendingTask(u)' => task'[u].claim = doc'.resumeClaim
               /\ \A w \in Tasks : Carrier(w)' => w = u
    <3>1. Carrier(u) /\ (PendingTask(u)' => PendingTask(u))
      BY <1>1, <2>1 DEF CalmStep, CalmDocument, CalmLaunch, CalmProducer, CalmConsumer
    <3>2. /\ doc.status = "running" /\ doc.checkpoint = Len(cps)
          /\ task[u].resume = Len(cps) /\ doc.resumeCheckpoint = Len(cps)
          /\ task[u].input = doc.resumeInput
          /\ PendingTask(u) => task[u].claim = doc.resumeClaim
          /\ \A w \in Tasks : Carrier(w) => w = u
      BY <3>1 DEF Line, CarrierKept
    <3>3. task'[u].claim = task[u].claim /\ task'[u].resume = task[u].resume /\ task'[u].input = task[u].input
      BY <2>1 DEF CalmStep, CalmLaunch, Carrier
    <3> QED BY <1>1, <3>1, <3>2, <3>3 DEF CalmStep, CalmDocument, CalmLaunch, CalmProducer, CalmConsumer
  <2> QED BY <2>1 DEF CarrierKept
<1>3. FrontKept'
  <2>1. ASSUME NEW u \in Tasks
        PROVE  /\ Working(u)' \/ ex'[u].prod = "parked" => ex'[u].at = Len(cps')
               /\ Working(u)' \/ ex'[u].prod = "done" => doc'.status = "running" /\ NonePending'
               /\ Working(u)' =>
                    /\ ex'[u].input # 0 => doc'.resumeCheckpoint = Len(cps')
                    /\ doc'.resumeCheckpoint = Len(cps') => ex'[u].input = doc'.resumeInput
    <3>1. /\ Working(u) \/ ex[u].prod = "parked" => ex[u].at = Len(cps)
          /\ Working(u) \/ ex[u].prod = "done" => doc.status = "running" /\ NonePending
          /\ Working(u) =>
               /\ ex[u].input # 0 => doc.resumeCheckpoint = Len(cps)
               /\ doc.resumeCheckpoint = Len(cps) => ex[u].input = doc.resumeInput
      BY DEF Line, FrontKept
    <3> QED BY <1>1, <3>1 DEF CalmStep, CalmDocument, CalmLaunch, CalmProducer, CalmConsumer
  <2> QED BY <2>1 DEF FrontKept
<1>4. ShownKept'
  <2>1. ASSUME NEW u \in Tasks
        PROVE  /\ Unshown(u)' => /\ doc'.status = "running" /\ NonePending' /\ Halted(u)'
                                 /\ doc'.resumeCheckpoint # Len(cps')
               /\ OneWait(u)'
               /\ Awaits(u)' /\ NonePending' => doc'.resumeCheckpoint # Len(cps')
               /\ ex'[u].pc \in {"publish", "final", "failed"} => ex'[u].seen = Len(cps')
    <3>1. /\ Unshown(u) => /\ doc.status = "running" /\ NonePending
                           /\ doc.resumeCheckpoint # Len(cps)
          /\ Awaits(u) /\ NonePending => doc.resumeCheckpoint # Len(cps)
      BY DEF Line, ShownKept
    <3> QED BY <1>1, <3>1 DEF CalmStep, CalmDocument, CalmLaunch, CalmProducer, CalmConsumer
  <2> QED BY <2>1 DEF ShownKept, OneWait
<1>5. RestKept' /\ HistoryKept'
  <2>1. /\ doc.status # "running" =>
            /\ doc.checkpoint = Len(cps)
            /\ doc.resumeInput # 0 => doc.resumeCheckpoint = Len(cps)
        /\ doc.status = "waiting" => doc.resumeInput = 0
        /\ doc.resumeCheckpoint = 0 => doc.resumeInput = 0
    BY DEF Line, RestKept
  <2>2. RestKept'
    BY <2>1 DEF CalmStep, CalmDocument, RestKept
  <2>3. HistoryKept'
    BY DEF Line, CalmStep, CalmDocument, HistoryKept, StateInputs, Appliers
  <2> QED BY <2>2, <2>3
<1> QED BY <1>2, <1>3, <1>4, <1>5 DEF Line

\* An execution that has not begun, or is over, is no part of the line.
LEMMA OutOfLine ==
  ASSUME NEW t \in Tasks, ex'[t].pc \in {"off", "load", "lastWake", "close"},
         ex'[t].prod \in {"off", "ended"}, ex'[t].stream = <<>>
  PROVE  /\ ~Working(t)' /\ ex'[t].prod # "parked" /\ ex'[t].prod # "done"
         /\ ~Unshown(t)' /\ OneWait(t)' /\ ~Awaits(t)'
         /\ ex'[t].pc \notin {"publish", "final", "failed"}
<1>1. Sent(t)' = {}
  BY DEF Sent
<1> QED BY <1>1 DEF Working, Unshown, OneWait, Awaits, Executing

LEMMA NotStarted ==
  ASSUME RunInv, WaitInv, NEW u \in Tasks, ex[u].pc = "off", ex'[u] = ex[u]
  PROVE  /\ ex'[u].pc = "off" /\ ex'[u].prod = "off" /\ ex'[u].stream = <<>>
         /\ ~Working(u)' /\ ex'[u].prod # "parked" /\ ex'[u].prod # "done"
         /\ ~Unshown(u)' /\ OneWait(u)' /\ ~Awaits(u)'
<1>1. ex[u].prod = "off" /\ ex[u].stream = <<>>
  BY DEF RunInv, OffersQueued, WaitInv, StreamsRead
<1> QED BY <1>1, OutOfLine

LEMMA HandoverIsCalm == ASSUME Line, HandoverStep PROVE CalmStep
<1>1. /\ UNCHANGED <<doc, cps, owner, inputs>>
      /\ \A u \in Tasks :
         /\ ex'[u].pc = ex[u].pc /\ ex'[u].prod = ex[u].prod /\ ex'[u].seen = ex[u].seen
         /\ ex'[u].status = ex[u].status /\ ex'[u].at = ex[u].at /\ ex'[u].input = ex[u].input
         /\ ex'[u].stream = ex[u].stream
         /\ task'[u].resume = task[u].resume /\ (PendingTask(u)' <=> PendingTask(u))
         /\ task'[u].claim = task[u].claim /\ task'[u].input = task[u].input
  BY DEF HandoverStep, SameExecutions, SameLaunches
<1>2. ASSUME NEW u \in Tasks
      PROVE  /\ (Working(u)' <=> Working(u)) /\ (Unshown(u)' <=> Unshown(u)) /\ (Awaits(u)' <=> Awaits(u))
             /\ (Halted(u)' <=> Halted(u)) /\ (OneWait(u)' <=> OneWait(u))
  BY <1>1 DEF Working, Unshown, Awaits, Executing, Resumes, Sent, Halted, OneWait
<1>3. \A u \in Tasks :
         /\ Unshown(u) => Halted(u)
         /\ OneWait(u)
         /\ ex[u].pc \in {"publish", "final", "failed"} => ex[u].seen = Len(cps)
  BY DEF Line, ShownKept, OneWait
<1> QED BY <1>1, <1>2, <1>3 DEF CalmStep, CalmDocument, CalmLaunch, CalmProducer, CalmConsumer

LEMMA QuietIsCalm == ASSUME Line, QuietStep PROVE CalmStep
<1>1. /\ UNCHANGED <<cps, task, ex, inputs>>
      /\ doc'.checkpoint = doc.checkpoint
      /\ doc'.resumeCheckpoint = doc.resumeCheckpoint /\ doc'.resumeClaim = doc.resumeClaim
      /\ doc'.resumeInput = doc.resumeInput
      /\ doc'.status = doc.status \/ (doc.status = "waiting" /\ doc'.status = "stopped")
  BY DEF QuietStep, SameButQueue
<1>2. ASSUME NEW u \in Tasks
      PROVE  /\ (Working(u)' <=> Working(u)) /\ (Unshown(u)' <=> Unshown(u)) /\ (Awaits(u)' <=> Awaits(u))
             /\ (Halted(u)' <=> Halted(u)) /\ (OneWait(u)' <=> OneWait(u))
  BY <1>1 DEF Working, Unshown, Awaits, Executing, Resumes, Sent, Halted, OneWait
<1>3. \A u \in Tasks :
         /\ Unshown(u) => Halted(u)
         /\ OneWait(u)
         /\ ex[u].pc \in {"publish", "final", "failed"} => ex[u].seen = Len(cps)
  BY DEF Line, ShownKept, OneWait
<1>4. \A u \in Tasks : PendingTask(u)' <=> PendingTask(u)
  BY <1>1 DEF PendingTask
<1> QED BY <1>1, <1>2, <1>3, <1>4 DEF CalmStep, CalmDocument, CalmLaunch, CalmProducer, CalmConsumer

\* A step of one execution is calm where that execution's part is.
LEMMA CalmFrom ==
  ASSUME RunInv, WaitInv, Line, NEW t \in Tasks, ex[t].pc # "off", OthersSame(t),
         UNCHANGED <<cps, inputs>>, doc'.status = doc.status,
         doc'.checkpoint = doc.checkpoint \/ doc.checkpoint # Len(cps),
         doc'.resumeClaim = doc.resumeClaim, doc'.resumeCheckpoint = doc.resumeCheckpoint,
         doc'.resumeInput = doc.resumeInput,
         \A u \in Tasks \ {t} : task'[u] = task[u],
         ~PendingTask(t)', ex'[t].pc # "load",
         Working(t)' => Working(t) /\ ex'[t].input = ex[t].input,
         ex'[t].prod = "parked" => ex[t].prod = "parked",
         ex'[t].prod = "done" => ex[t].prod = "done",
         Working(t)' \/ ex'[t].prod = "parked" => ex'[t].at = ex[t].at,
         Unshown(t)' => Unshown(t) /\ Halted(t)',
         OneWait(t)',
         Awaits(t)' => Awaits(t) \/ Unshown(t),
         ex'[t].pc \in {"publish", "final", "failed"} => ex'[t].seen = Len(cps)
  PROVE  CalmStep
<1>1. /\ task[t].st = "owner" /\ ~PendingTask(t)
      /\ \A u \in Tasks \ {t} : ex[u].pc = "off" /\ ex'[u] = ex[u]
  BY Owned DEF OthersSame
<1>2. \A u \in Tasks \ {t} :
         /\ ex'[u].pc = "off" /\ ex'[u].prod = "off" /\ ex'[u].stream = <<>>
         /\ ~Working(u)' /\ ex'[u].prod # "parked" /\ ex'[u].prod # "done"
         /\ ~Unshown(u)' /\ OneWait(u)' /\ ~Awaits(u)'
  BY <1>1, NotStarted
<1>3. \A u \in Tasks :
         /\ PendingTask(u)' <=> PendingTask(u)
         /\ ex'[u].pc = "load" => ex[u].pc = "load"
         /\ PendingTask(u)' \/ ex'[u].pc = "load" => task'[u] = task[u]
  <2>1. ASSUME NEW u \in Tasks \ {t} PROVE PendingTask(u)' <=> PendingTask(u)
    BY <2>1 DEF PendingTask
  <2> QED BY <1>1, <2>1
<1>4. \A u \in Tasks : CalmLaunch(u)
  BY <1>3 DEF CalmLaunch
<1>5. \A u \in Tasks \ {t} : CalmProducer(u) /\ CalmConsumer(u)
  BY <1>2 DEF CalmProducer, CalmConsumer
<1>6. CalmProducer(t) /\ CalmConsumer(t)
  BY DEF CalmProducer, CalmConsumer
<1>7. CalmDocument
  BY DEF CalmDocument
<1> QED BY <1>4, <1>5, <1>6, <1>7 DEF CalmStep

LEMMA LineOf ==
  ASSUME Line, NEW t \in Tasks
  PROVE  /\ Unshown(t) => Halted(t)
         /\ OneWait(t)
         /\ ex[t].pc \in {"publish", "final", "failed"} => ex[t].seen = Len(cps)
  BY DEF Line, ShownKept, OneWait

LEMMA LocalIsCalm ==
  ASSUME RunInv, WaitInv, Line, NEW t \in Tasks, LocalStep(t), Producing(t) \/ ex[t].pc \in {"run", "publish", "wake", "final"}
  PROVE  CalmStep
<1>1. /\ UNCHANGED <<doc, cps, task, inputs>> /\ OthersSame(t)
      /\ ex'[t].pc = ex[t].pc /\ ex'[t].status = ex[t].status /\ ex'[t].seen = ex[t].seen
      /\ ex'[t].at = ex[t].at /\ ex'[t].input = ex[t].input
      /\ ProdMoves(ex[t].prod, ex'[t].prod)
      /\ ex[t].pc # "off" /\ ex'[t].pc # "load"
  BY DEF LocalStep, RunInv, OneOwner
<1>2. ~PendingTask(t)'
  BY <1>1, Owned DEF PendingTask
<1>3. /\ Working(t)' => Working(t)
      /\ ex'[t].prod = "parked" => ex[t].prod = "parked"
      /\ ex'[t].prod = "done" => ex[t].prod = "done"
      /\ Halted(t) => Halted(t)'
  BY <1>1 DEF Working, Halted, ProdMoves
<1>4. /\ Unshown(t) => Halted(t)
      /\ OneWait(t)
      /\ ex[t].pc \in {"publish", "final", "failed"} => ex[t].seen = Len(cps)
  BY LineOf
<1>5. CASE ex'[t].stream = ex[t].stream
  <2>1. Sent(t)' = Sent(t)
    BY <1>5 DEF Sent
  <2>2. (Unshown(t)' <=> Unshown(t)) /\ (OneWait(t)' <=> OneWait(t)) /\ (Awaits(t)' <=> Awaits(t))
    BY <1>1, <1>5, <2>1 DEF Unshown, OneWait, Awaits, Executing, Resumes
  <2> QED BY <1>1, <1>2, <1>3, <1>4, <2>2, CalmFrom
<1>6. ASSUME NEW v \in {"failed", "done"}, ex'[t].stream = Append(ex[t].stream, v) PROVE CalmStep
  <2>1. v \in StreamEvents /\ v \notin WaitEvents
    BY DEF StreamEvents, WaitEvents, WaitKinds
  <2>2. /\ ex'[t].stream[Len(ex[t].stream) + 1] = v
        /\ \A n \in Sent(t) : ex'[t].stream[n] = ex[t].stream[n]
        /\ \A n : n \in Sent(t)' <=> n \in Sent(t) \/ n = Len(ex[t].stream) + 1
    BY <1>6, <2>1, StreamGrows
  <2>3. \A n \in Sent(t)' : ex'[t].stream[n] \in WaitEvents =>
          n \in Sent(t) /\ ex[t].stream[n] \in WaitEvents
    BY <2>1, <2>2
  <2>4. (Unshown(t)' => Unshown(t)) /\ OneWait(t)'
    BY <1>1, <1>4, <2>3 DEF Unshown, OneWait
  <2>5. Awaits(t)' => Awaits(t)
    BY <1>1, <2>2 DEF Awaits, Executing, Resumes
  <2> QED BY <1>1, <1>2, <1>3, <1>4, <2>4, <2>5, CalmFrom
<1> QED BY <1>5, <1>6 DEF LocalStep

LEMMA FlushIsCalm ==
  ASSUME RunInv, WaitInv, Line, NEW t \in Tasks, FlushStep(t) PROVE CalmStep
<1>1. /\ ex[t].pc \in {"run", "publish", "final"} /\ ex'[t].pc = ex[t].pc /\ OthersSame(t)
      /\ UNCHANGED <<cps, task, inputs>>
      /\ ex'[t].status = ex[t].status /\ ex'[t].stream = ex[t].stream
      /\ ex'[t].prod = ex[t].prod /\ ex'[t].at = ex[t].at /\ ex'[t].input = ex[t].input
      /\ doc'.status = doc.status
      /\ doc'.resumeClaim = doc.resumeClaim /\ doc'.resumeCheckpoint = doc.resumeCheckpoint
      /\ doc'.resumeInput = doc.resumeInput
  BY DEF FlushStep, ProducerSame
<1>2. /\ Unshown(t) => Halted(t)
      /\ OneWait(t)
      /\ ex[t].pc \in {"publish", "final", "failed"} => ex[t].seen = Len(cps)
  BY LineOf
<1>3. PICK k \in Nat : /\ k = doc'.checkpoint /\ ex'[t].seen = k /\ k <= Len(cps) /\ ex[t].seen <= k
                       /\ doc.checkpoint # Len(cps)
  BY Numbers DEF FlushStep
<1>4. ex'[t].pc \in {"publish", "final", "failed"} => ex'[t].seen = Len(cps)
  BY <1>1, <1>2, <1>3, Numbers
<1>5. /\ (Unshown(t)' <=> Unshown(t)) /\ (OneWait(t)' <=> OneWait(t)) /\ (Awaits(t)' <=> Awaits(t))
      /\ (Working(t)' <=> Working(t)) /\ (Halted(t)' <=> Halted(t))
  BY <1>1 DEF Unshown, OneWait, Awaits, Executing, Resumes, Sent, Working, Halted
<1>6. ~PendingTask(t)'
  BY <1>1, Owned DEF PendingTask
<1> QED BY <1>1, <1>2, <1>3, <1>4, <1>5, <1>6, CalmFrom

LEMMA EventIsCalm ==
  ASSUME RunInv, WaitInv, Line, NEW t \in Tasks, EventStep(t) PROVE CalmStep
<1>1. /\ ex[t].pc = "run" /\ ex'[t].pc \in {"run", "publish"} /\ OthersSame(t)
      /\ UNCHANGED <<doc, cps, task, inputs>>
      /\ ex'[t].prod = ex[t].prod /\ ex'[t].at = ex[t].at /\ ex'[t].input = ex[t].input
      /\ ex[t].stream # <<>> /\ ex'[t].stream = Tail(ex[t].stream)
  BY DEF EventStep, ProducerSame
<1>2. PICK s \in Seq(StreamEvents) : s = ex[t].stream
  BY ProducerTypes
<1>3. PICK z : z = ex'[t].stream
  OBVIOUS
<1>4. /\ Head(s) = s[1] /\ Len(s) >= 1 /\ Len(s) \in Nat /\ Len(z) = Len(s) - 1
      /\ \A n \in 1..Len(z) : z[n] = s[n + 1]
  BY <1>1, <1>2, <1>3, TailFacts
<1>5. /\ Unshown(t) => Halted(t)
      /\ OneWait(t)
  BY LineOf
<1>6. \A n \in 1..Len(z) : z[n] \in WaitEvents =>
        /\ n + 1 \in 1..Len(s) /\ s[n + 1] \in WaitEvents
  BY <1>4
<1>7. \A n, j \in 1..Len(s) : s[n] \in WaitEvents /\ s[j] \in WaitEvents => n = j
  BY <1>2, <1>5 DEF OneWait, Sent
<1>8. \A n, j \in 1..Len(z) : z[n] \in WaitEvents /\ z[j] \in WaitEvents => n = j
  <2>1. ASSUME NEW n \in 1..Len(z), NEW j \in 1..Len(z), z[n] \in WaitEvents, z[j] \in WaitEvents
        PROVE  n = j
    <3>1. n + 1 = j + 1
      BY <1>6, <1>7, <2>1
    <3>2. n \in Nat /\ j \in Nat
      BY <1>4
    <3> QED BY <3>1, <3>2
  <2> QED BY <2>1
<1>9. s[1] \in WaitEvents => \A n \in 1..Len(z) : z[n] \notin WaitEvents
  <2>1. ASSUME s[1] \in WaitEvents, NEW n \in 1..Len(z), z[n] \in WaitEvents PROVE FALSE
    <3>1. 1 \in 1..Len(s) /\ n \in Nat /\ n >= 1
      BY <1>4
    <3>2. n + 1 = 1
      BY <1>6, <1>7, <2>1, <3>1
    <3> QED BY <3>1, <3>2
  <2> QED BY <2>1
<1>10. Resumes(t) => Resumes(t)' \/ s[1] = "resumed"
  <2>1. ASSUME NEW n \in 1..Len(s), s[n] = "resumed", n # 1 PROVE \E j \in 1..Len(z) : z[j] = "resumed"
    <3>1. n - 1 \in 1..Len(z) /\ z[n - 1] = s[n]
      BY <1>4, <2>1
    <3> QED BY <2>1, <3>1
  <2>2. Resumes(t) => \E n \in 1..Len(s) : s[n] = "resumed"
    BY <1>2 DEF Resumes, Sent
  <2>3. (\E j \in 1..Len(z) : z[j] = "resumed") => Resumes(t)'
    BY <1>3 DEF Resumes, Sent
  <2> QED BY <2>1, <2>2, <2>3
<1>11. s[1] \in WaitEvents => Unshown(t)
  <2>1. 1 \in 1..Len(s)
    BY <1>4
  <2> QED BY <1>2, <2>1 DEF Unshown, Sent
<1>12. (\E n \in 1..Len(z) : z[n] \in WaitEvents) => Unshown(t)
  BY <1>2, <1>6 DEF Unshown, Sent
<1>13. Sent(t)' = 1..Len(z) /\ (Unshown(t)' => ex'[t].pc = "publish" \/ \E n \in 1..Len(z) : z[n] \in WaitEvents)
  BY <1>3 DEF Sent, Unshown
<1>14. (ex'[t].pc = "publish" => s[1] \in WaitEvents /\ ex'[t].seen = Len(cps))
  BY <1>2, <1>4 DEF EventStep
<1>15. Awaits(t)' => Awaits(t) \/ Unshown(t)
  <2>1. CASE Head(s) \in {"resumed", "done"} /\ ex'[t].status \in {"running", "completed"}
    BY <2>1 DEF Awaits
  <2>2. CASE Head(s) = "failed" /\ ex'[t].pc = "run" /\ ex'[t].status = ex[t].status
    BY <1>1, <1>4, <1>10, <2>2 DEF Awaits, Executing
  <2>3. CASE Head(s) \in WaitEvents
    BY <1>4, <1>11, <2>3
  <2> QED BY <1>2, <2>1, <2>2, <2>3 DEF EventStep
<1>16. (Working(t)' <=> Working(t)) /\ (Halted(t)' <=> Halted(t))
  BY <1>1 DEF Working, Halted
<1>17. OneWait(t)'
  BY <1>3, <1>8, <1>9, <1>13, <1>14 DEF OneWait
<1>18. ~PendingTask(t)'
  BY <1>1, Owned DEF PendingTask
<1>19. Unshown(t)' => Unshown(t) /\ Halted(t)'
  BY <1>5, <1>11, <1>12, <1>13, <1>14, <1>16
<1>20. ex'[t].pc \in {"publish", "final", "failed"} => ex'[t].seen = Len(cps)
  BY <1>1, <1>14
<1> QED BY <1>1, <1>15, <1>16, <1>17, <1>18, <1>19, <1>20, CalmFrom

LEMMA ClosedIsCalm ==
  ASSUME RunInv, WaitInv, Line, NEW t \in Tasks, ClosedStep(t) PROVE CalmStep
<1>1. /\ ex[t].pc = "run" /\ ex'[t].pc = "final" /\ OthersSame(t)
      /\ UNCHANGED <<doc, cps, task, inputs>>
      /\ ex[t].prod = "ended" /\ ex'[t].prod = "ended" /\ ex[t].stream = <<>> /\ ex'[t].stream = <<>>
      /\ ex'[t].seen = Len(cps) /\ (ex'[t].status = "waiting" => ex[t].status = "waiting")
  BY DEF ClosedStep
<1>2. Sent(t) = {} /\ Sent(t)' = {} /\ ~Working(t)' /\ ~PendingTask(t)'
  BY <1>1, Owned DEF Sent, Working, PendingTask
<1>3. ~Unshown(t)' /\ OneWait(t)' /\ (Awaits(t)' => Awaits(t))
  BY <1>1, <1>2 DEF Unshown, OneWait, Awaits, Executing, Resumes
<1> QED BY <1>1, <1>2, <1>3, CalmFrom

LEMMA IdleWakeIsCalm ==
  ASSUME RunInv, WaitInv, Line, NEW t \in Tasks, IdleWakeStep(t) PROVE CalmStep
<1>1. /\ OthersSame(t) /\ UNCHANGED <<doc, cps, task, inputs>>
      /\ ex[t].pc \in {"wake", "lastWake"} /\ ex'[t].pc \in {"run", "close"}
  BY DEF IdleWakeStep, Moving, Closing
<1>2. ~PendingTask(t)'
  BY <1>1, Owned DEF PendingTask
<1>3. CASE ex[t].pc = "wake" /\ Moving(t, "run")
  <2>1. /\ ex'[t].pc = "run" /\ ex'[t].prod = ex[t].prod /\ ex'[t].status = ex[t].status
        /\ ex'[t].stream = ex[t].stream /\ ex'[t].at = ex[t].at /\ ex'[t].input = ex[t].input
    BY <1>3 DEF Moving, ProducerSame
  <2>2. /\ (Awaits(t)' <=> Awaits(t)) /\ (Halted(t)' <=> Halted(t)) /\ Sent(t)' = Sent(t)
        /\ (Working(t)' <=> Working(t)) /\ (Unshown(t)' <=> Unshown(t)) /\ (OneWait(t) => OneWait(t)')
    BY <1>3, <2>1 DEF Awaits, Executing, Resumes, Sent, Halted, Working, Unshown, OneWait
  <2> QED BY <1>1, <1>2, <2>1, <2>2, LineOf, CalmFrom
<1>4. CASE Closing(t)
  BY <1>1, <1>2, <1>4, OutOfLine, CalmFrom DEF Closing
<1> QED BY <1>3, <1>4 DEF IdleWakeStep

LEMMA EndsAreCalm ==
  ASSUME RunInv, WaitInv, Line, Calm', NEW t \in Tasks, UnrecordedStep(t) \/ EndStep(t) \/ FailStep(t)
  PROVE  CalmStep
<1>1. CASE UnrecordedStep(t)
  <2>1. ~PendingTask(t)'
    BY <1>1, Owned DEF UnrecordedStep, PendingTask
  <2> QED BY <1>1, <2>1, OutOfLine, CalmFrom DEF UnrecordedStep, Closing
<1>2. CASE EndStep(t)
  <2>1. ~PendingTask(t)'
    BY <1>2 DEF EndStep, PendingTask
  <2> QED BY <1>2, <2>1, OutOfLine, CalmFrom DEF EndStep
<1>3. CASE FailStep(t)
  <2>1. ex[t].pc = "load"
    BY <1>3 DEF FailStep, Calm
  <2>2. doc.checkpoint = Len(cps)
    BY <2>1 DEF Line, CarrierKept, Carrier
  <2>3. /\ UNCHANGED <<doc, cps, task, inputs>> /\ OthersSame(t)
        /\ ex'[t].pc = "failed" /\ ex'[t].prod = "ended" /\ ex'[t].seen = Len(cps) /\ ex'[t].stream = <<>>
    BY <1>3, <2>2 DEF FailStep
  <2>4. Sent(t)' = {} /\ ~PendingTask(t)'
    BY <2>1, <2>3, Owned DEF Sent, PendingTask
  <2>5. ~Working(t)' /\ ~Unshown(t)' /\ OneWait(t)' /\ ~Awaits(t)'
    BY <2>3, <2>4 DEF Working, Unshown, OneWait, Awaits, Executing
  <2> QED BY <2>1, <2>3, <2>4, <2>5, CalmFrom
<1> QED BY <1>1, <1>2, <1>3


\* A local step of an execution that has no producer is seen by nobody.
LEMMA UnseenIsCalm ==
  ASSUME Line, NEW t \in Tasks, LocalStep(t), ex'[t].stream = ex[t].stream, ex'[t].prod = ex[t].prod
  PROVE  CalmStep
<1>1. /\ UNCHANGED <<doc, cps, task, inputs>>
      /\ \A u \in Tasks :
         /\ ex'[u].pc = ex[u].pc /\ ex'[u].prod = ex[u].prod /\ ex'[u].seen = ex[u].seen
         /\ ex'[u].status = ex[u].status /\ ex'[u].at = ex[u].at /\ ex'[u].input = ex[u].input
         /\ ex'[u].stream = ex[u].stream
  BY DEF LocalStep, OthersSame
<1>2. ASSUME NEW u \in Tasks
      PROVE  /\ (Working(u)' <=> Working(u)) /\ (Unshown(u)' <=> Unshown(u)) /\ (Awaits(u)' <=> Awaits(u))
             /\ (Halted(u)' <=> Halted(u)) /\ (OneWait(u)' <=> OneWait(u))
             /\ (PendingTask(u)' <=> PendingTask(u))
  BY <1>1 DEF Working, Unshown, Awaits, Executing, Resumes, Sent, Halted, OneWait, PendingTask
<1> QED BY <1>1, <1>2, LineOf DEF CalmStep, CalmDocument, CalmLaunch, CalmProducer, CalmConsumer

LEMMA LocalKeepsLine ==
  ASSUME RunInv, WaitInv, Line, NEW t \in Tasks, LocalStep(t) PROVE Line'
<1>1. CASE Producing(t)
  BY <1>1, LocalIsCalm, CalmStepKeepsLine
<1>2. CASE ~Producing(t)
  <2>1. ex'[t].stream = ex[t].stream /\ ex'[t].prod = ex[t].prod
    BY <1>2 DEF LocalStep, Producing, ProdMoves
  <2> QED BY <2>1, UnseenIsCalm, CalmStepKeepsLine
<1> QED BY <1>1, <1>2

\* The only execution stands at the end of the line when it commits.
LEMMA CommitKeepsHistory ==
  ASSUME RunInv, Line, NEW t \in Tasks, CommitStep(t) PROVE HistoryKept'
<1>1. PICK n \in Nat : n = Len(cps)
  BY StateStart
<1>2. /\ Len(cps') = n + 1 /\ \A k \in 1..n : cps'[k] = cps[k]
      /\ cps'[n + 1].from = ex[t].at /\ cps'[n + 1].input = ex[t].input
      /\ cps'[n + 1].inputs = StateInputs(ex[t].at) \union ({ex[t].input} \ {0})
      /\ UNCHANGED <<doc, inputs>> /\ Working(t)
  BY <1>1 DEF CommitStep
<1>3. /\ ex[t].at = n
      /\ ex[t].input # 0 => doc.resumeCheckpoint = n
      /\ doc.resumeCheckpoint = n => ex[t].input = doc.resumeInput
  BY <1>1, <1>2 DEF Line, FrontKept
<1>4. doc.resumeCheckpoint <= n /\ doc.resumeCheckpoint \in Nat
  BY <1>1 DEF RunInv, RunTypeOK, Shapes, Documents
<1>5. /\ \A k \in 1..n : cps[k].from = k - 1
      /\ \A i \in 1..inputs : doc.resumeInput = i \/ i \in StateInputs(n)
      /\ doc.resumeInput # 0 =>
           IF doc.resumeCheckpoint = n THEN Appliers(doc.resumeInput) = {}
           ELSE doc.resumeInput \in StateInputs(n)
      /\ \A j, k \in 1..n : cps[j].input = cps[k].input => j = k \/ cps[j].input = 0
  BY <1>1 DEF Line, HistoryKept
<1>6. (StateInputs(Len(cps)))' = StateInputs(n) \union ({ex[t].input} \ {0})
  <2>1. (StateInputs(Len(cps)))' = cps'[n + 1].inputs
    BY <1>1, <1>2 DEF StateInputs
  <2> QED BY <1>2, <1>3, <2>1
<1>7. \A k \in 1..Len(cps') : k \in 1..n \/ k = n + 1
  BY <1>1, <1>2
<1>8. \A k \in 1..Len(cps') : cps'[k].from = k - 1
  BY <1>1, <1>2, <1>3, <1>5, <1>7
<1>9. ex[t].input # 0 => \A j \in 1..n : cps[j].input # ex[t].input
  <2>1. ASSUME ex[t].input # 0, NEW j \in 1..n, cps[j].input = ex[t].input PROVE FALSE
    <3>1. doc.resumeInput = ex[t].input /\ doc.resumeCheckpoint = n
      BY <1>3, <2>1
    <3>2. Appliers(doc.resumeInput) = {}
      BY <1>5, <2>1, <3>1
    <3> QED BY <1>1, <2>1, <3>1, <3>2 DEF Appliers
  <2> QED BY <2>1
<1>10. \A j, k \in 1..Len(cps') : cps'[j].input = cps'[k].input => j = k \/ cps'[j].input = 0
  BY <1>2, <1>5, <1>7, <1>9
<1>11. \A i \in 1..inputs' : doc'.resumeInput = i \/ i \in (StateInputs(Len(cps)))'
  BY <1>2, <1>5, <1>6
<1>12. doc'.resumeInput # 0 =>
         doc'.resumeCheckpoint # Len(cps') /\ doc'.resumeInput \in (StateInputs(Len(cps)))'
  BY <1>2, <1>3, <1>4, <1>5, <1>6
<1> QED BY <1>8, <1>10, <1>11, <1>12 DEF HistoryKept

LEMMA CommitKeepsLine ==
  ASSUME RunInv, WaitInv, Line, NEW t \in Tasks, CommitStep(t) PROVE Line'
<1>1. PICK n \in Nat : n = Len(cps)
  BY StateStart
<1>2. /\ Len(cps') = n + 1 /\ UNCHANGED <<doc, task>> /\ Working(t) /\ OthersSame(t)
      /\ ex'[t].pc = ex[t].pc /\ ex'[t].at = n + 1 /\ ex'[t].input = 0
      /\ ex'[t].prod \in {"run", "done", "parked"}
  BY <1>1 DEF CommitStep
<1>3. doc.status = "running" /\ NonePending
  BY <1>2 DEF Line, FrontKept
<1>4. doc.resumeCheckpoint <= n /\ doc.resumeCheckpoint \in Nat
  BY <1>1 DEF RunInv, RunTypeOK, Shapes, Documents
<1>5. ex[t].pc \in {"run", "publish", "wake"}
  BY <1>2 DEF RunInv, OneOwner, Producing, Working
<1>6. ~Unshown(t)
  BY <1>2, LineOf DEF Working, Halted
<1>7. ex[t].pc # "publish" /\ \A k \in Sent(t) : ex[t].stream[k] \notin WaitEvents
  BY <1>6 DEF Unshown
<1>8. \A u \in Tasks \ {t} :
         /\ ex'[u].pc = "off" /\ ~Working(u)' /\ ex'[u].prod # "parked" /\ ex'[u].prod # "done"
         /\ ~Unshown(u)' /\ OneWait(u)' /\ ~Awaits(u)'
  <2>1. \A u \in Tasks \ {t} : ex[u].pc = "off" /\ ex'[u] = ex[u]
    BY <1>2, <1>5, Owned DEF OthersSame
  <2> QED BY <2>1, NotStarted
<1>9. NonePending' /\ \A u \in Tasks : ~Carrier(u)'
  <2>1. NonePending' /\ \A u \in Tasks : ~PendingTask(u)'
    BY <1>2, <1>3 DEF NonePending, PendingTask
  <2> QED BY <1>2, <1>5, <1>8, <2>1 DEF Carrier
<1>10. (Unshown(t)' => Halted(t)') /\ OneWait(t)'
  <2>1. CASE ex'[t].stream = ex[t].stream
    BY <1>2, <1>7, <2>1 DEF Unshown, OneWait, Sent
  <2>2. ASSUME NEW v \in WaitEvents, ex'[t].stream = Append(ex[t].stream, v), ex'[t].prod = "parked"
        PROVE  Halted(t)' /\ OneWait(t)'
    <3>1. v \in StreamEvents
      BY DEF StreamEvents, WaitEvents, WaitKinds
    <3>2. /\ \A k \in Sent(t) : ex'[t].stream[k] = ex[t].stream[k]
          /\ \A k : k \in Sent(t)' <=> k \in Sent(t) \/ k = Len(ex[t].stream) + 1
      BY <2>2, <3>1, StreamGrows
    <3>3. \A k \in Sent(t)' : ex'[t].stream[k] \in WaitEvents => k = Len(ex[t].stream) + 1
      BY <1>7, <3>2
    <3> QED BY <1>2, <1>7, <2>2, <3>3 DEF Halted, OneWait
  <2> QED BY <2>1, <2>2 DEF CommitStep
<1>11. CarrierKept'
  BY <1>9 DEF CarrierKept
<1>12. doc'.resumeCheckpoint # Len(cps')
  BY <1>1, <1>2, <1>4
<1>13. FrontKept'
  BY <1>2, <1>3, <1>8, <1>9, <1>12 DEF FrontKept
<1>14. ShownKept'
  <2>1. ASSUME NEW u \in Tasks
        PROVE  /\ Unshown(u)' => /\ doc'.status = "running" /\ NonePending' /\ Halted(u)'
                                 /\ doc'.resumeCheckpoint # Len(cps')
               /\ OneWait(u)'
               /\ Awaits(u)' /\ NonePending' => doc'.resumeCheckpoint # Len(cps')
               /\ ex'[u].pc \in {"publish", "final", "failed"} => ex'[u].seen = Len(cps')
    BY <1>2, <1>3, <1>5, <1>7, <1>8, <1>9, <1>10, <1>12
  <2> QED BY <2>1 DEF ShownKept, OneWait
<1>15. RestKept'
  BY <1>2, <1>3 DEF Line, RestKept
<1> QED BY <1>11, <1>13, <1>14, <1>15, CommitKeepsHistory DEF Line

\* A resumed execution takes the claim that was pending.
LEMMA SameRest ==
  ASSUME Line, UNCHANGED <<doc, cps, inputs>> PROVE RestKept' /\ HistoryKept'
  BY DEF Line, RestKept, HistoryKept, StateInputs, Appliers

LEMMA ResumedKeepsLine ==
  ASSUME RunInv, WaitInv, Line, NEW t \in Tasks, NEW r \in Tasks, ResumedStep(t, r) PROVE Line'
<1>1. /\ UNCHANGED <<doc, cps, inputs>> /\ OthersSame(t) /\ ex[t].prod = "parked"
      /\ task[r].st = "offered" /\ task'[r].st = "gone" /\ \A u \in Tasks \ {r} : task'[u] = task[u]
      /\ ex'[t].pc = ex[t].pc /\ ex'[t].at = ex[t].at /\ ex'[t].prod = "run"
      /\ ex'[t].input = task[r].input /\ ex'[t].stream = Append(ex[t].stream, "resumed")
  BY DEF ResumedStep
<1>2. PendingTask(r) /\ ~NonePending
  BY <1>1 DEF PendingTask, NonePending
<1>3. /\ doc.status = "running" /\ doc.resumeCheckpoint = Len(cps) /\ task[r].input = doc.resumeInput
      /\ \A w \in Tasks : Carrier(w) => w = r
  BY <1>2 DEF Line, CarrierKept, Carrier
<1>4. ex[t].at = Len(cps)
  BY <1>1 DEF Line, FrontKept
<1>5. ex[t].pc \in {"run", "publish", "wake"}
  BY <1>1 DEF RunInv, OneOwner, Producing
<1>6. ex[t].pc # "publish" /\ \A k \in Sent(t) : ex[t].stream[k] \notin WaitEvents
  BY <1>2 DEF Line, ShownKept, Unshown
<1>7. \A u \in Tasks \ {t} :
         /\ ex'[u].pc = "off" /\ ~Working(u)' /\ ex'[u].prod # "parked" /\ ex'[u].prod # "done"
         /\ ~Unshown(u)' /\ OneWait(u)' /\ ~Awaits(u)'
  <2>1. \A u \in Tasks \ {t} : ex[u].pc = "off" /\ ex'[u] = ex[u]
    BY <1>1, <1>5, Owned DEF OthersSame
  <2> QED BY <2>1, NotStarted
<1>8. NonePending'
  <2>1. ASSUME NEW u \in Tasks, PendingTask(u)' PROVE FALSE
    <3>1. u # r
      BY <1>1, <2>1 DEF PendingTask
    <3>2. Carrier(u)
      BY <1>1, <2>1, <3>1 DEF PendingTask, Carrier
    <3> QED BY <1>3, <3>1, <3>2
  <2> QED BY <2>1 DEF NonePending
<1>9. \A u \in Tasks : ~Carrier(u)'
  BY <1>1, <1>5, <1>7, <1>8 DEF Carrier, NonePending
<1>10. ~Unshown(t)' /\ OneWait(t)' /\ ~Awaits(t)'
  <2>1. "resumed" \in StreamEvents /\ "resumed" \notin WaitEvents
    BY DEF StreamEvents, WaitEvents, WaitKinds
  <2>2. /\ ex'[t].stream[Len(ex[t].stream) + 1] = "resumed"
        /\ \A k \in Sent(t) : ex'[t].stream[k] = ex[t].stream[k]
        /\ \A k : k \in Sent(t)' <=> k \in Sent(t) \/ k = Len(ex[t].stream) + 1
    BY <1>1, <2>1, StreamGrows
  <2>3. \A k \in Sent(t)' : ex'[t].stream[k] \notin WaitEvents
    BY <1>6, <2>1, <2>2
  <2>4. Resumes(t)'
    BY <2>2 DEF Resumes
  <2> QED BY <1>1, <1>6, <2>3, <2>4 DEF Unshown, OneWait, Awaits
<1>11. CarrierKept'
  BY <1>9 DEF CarrierKept
<1>12. FrontKept'
  BY <1>1, <1>3, <1>4, <1>7, <1>8 DEF FrontKept
<1>13. ShownKept'
  <2>1. ASSUME NEW u \in Tasks
        PROVE  ~Unshown(u)' /\ OneWait(u)' /\ ~Awaits(u)' /\ ex'[u].pc \notin {"publish", "final", "failed"}
    BY <1>1, <1>5, <1>6, <1>7, <1>10
  <2> QED BY <2>1 DEF ShownKept, OneWait
<1> QED BY <1>1, <1>11, <1>12, <1>13, SameRest DEF Line

\* Owning and loading a run.
LEMMA OwnKeepsLine ==
  ASSUME RunInv, WaitInv, Line, NEW t \in Tasks, OwnStep(t) PROVE Line'
<1>1. /\ UNCHANGED <<doc, cps, inputs>> /\ OthersSame(t) /\ task[t].st = "new" /\ owner = 0
      /\ task'[t].st = "owner" /\ task'[t].claim = task[t].claim
      /\ task'[t].resume = task[t].resume /\ task'[t].input = task[t].input
      /\ \A u \in Tasks \ {t} : task'[u] = task[u]
      /\ ex'[t].pc = "load" /\ ex'[t].prod = "off" /\ ex'[t].stream = <<>>
  BY DEF OwnStep
<1>2. \A u \in Tasks : ex[u].pc = "off"
  <2>1. \A u \in Tasks : u # 0
    BY BoundsAssumption DEF Tasks
  <2> QED BY <1>1, <2>1 DEF RunInv, OneOwner
<1>3. PendingTask(t) /\ Carrier(t)
  BY <1>1 DEF PendingTask, Carrier
<1>4. /\ doc.status = "running" /\ doc.checkpoint = Len(cps)
      /\ task[t].resume = Len(cps) /\ doc.resumeCheckpoint = Len(cps)
      /\ task[t].input = doc.resumeInput
      /\ \A w \in Tasks : Carrier(w) => w = t
  BY <1>3 DEF Line, CarrierKept
<1>5. \A u \in Tasks \ {t} :
         /\ ex'[u].pc = "off" /\ ~Working(u)' /\ ex'[u].prod # "parked" /\ ex'[u].prod # "done"
         /\ ~Unshown(u)' /\ OneWait(u)' /\ ~Awaits(u)'
  BY <1>1, <1>2, NotStarted DEF OthersSame
<1>6. \A u \in Tasks : Carrier(u)' => u = t
  <2>1. ASSUME NEW u \in Tasks \ {t}, Carrier(u)' PROVE FALSE
    <3>1. Carrier(u)
      BY <1>1, <1>5, <2>1 DEF Carrier, PendingTask
    <3> QED BY <1>4, <2>1, <3>1
  <2> QED BY <2>1
<1>7. ~PendingTask(t)'
  BY <1>1 DEF PendingTask
<1>8. CarrierKept'
  BY <1>1, <1>4, <1>6, <1>7 DEF CarrierKept
<1>9. \A u \in Tasks :
         /\ ~Working(u)' /\ ex'[u].prod # "parked" /\ ex'[u].prod # "done"
         /\ ~Unshown(u)' /\ OneWait(u)' /\ ~Awaits(u)' /\ ex'[u].pc \notin {"publish", "final", "failed"}
  BY <1>1, <1>5, OutOfLine
<1>10. FrontKept' /\ ShownKept'
  BY <1>9 DEF FrontKept, ShownKept, OneWait
<1> QED BY <1>1, <1>8, <1>10, SameRest DEF Line

LEMMA LoadKeepsLine ==
  ASSUME RunInv, WaitInv, Line, NEW t \in Tasks, LoadStep(t) PROVE Line'
<1>1. /\ UNCHANGED <<doc, cps, task, inputs>> /\ OthersSame(t) /\ ex[t].pc = "load"
      /\ ex'[t].pc = "run" /\ ex'[t].prod = "run" /\ ex'[t].at = task[t].resume
      /\ ex'[t].input = task[t].input /\ ex'[t].status = doc.status
      /\ ex'[t].stream = IF task[t].resume = 0 THEN <<>> ELSE <<"resumed">>
  BY DEF LoadStep
<1>2. /\ doc.status = "running" /\ doc.checkpoint = Len(cps)
      /\ task[t].resume = Len(cps) /\ doc.resumeCheckpoint = Len(cps)
      /\ task[t].input = doc.resumeInput
      /\ \A w \in Tasks : Carrier(w) => w = t
  BY <1>1 DEF Line, CarrierKept, Carrier
<1>3. ~PendingTask(t)
  BY <1>1, Owned
<1>4. \A u \in Tasks \ {t} :
         /\ ex'[u].pc = "off" /\ ~Working(u)' /\ ex'[u].prod # "parked" /\ ex'[u].prod # "done"
         /\ ~Unshown(u)' /\ OneWait(u)' /\ ~Awaits(u)'
  <2>1. \A u \in Tasks \ {t} : ex[u].pc = "off" /\ ex'[u] = ex[u]
    BY <1>1, Owned DEF OthersSame
  <2> QED BY <2>1, NotStarted
<1>5. NonePending' /\ \A u \in Tasks : ~PendingTask(u)'
  BY <1>1, <1>2, <1>3 DEF NonePending, PendingTask, Carrier
<1>6. \A u \in Tasks : ~Carrier(u)'
  BY <1>1, <1>4, <1>5 DEF Carrier
<1>7. ~Unshown(t)' /\ OneWait(t)' /\ ~Awaits(t)'
  <2>1. \A k \in Sent(t)' : ex'[t].stream[k] = "resumed"
    BY <1>1 DEF Sent
  <2>2. "resumed" \notin WaitEvents
    BY DEF WaitEvents, WaitKinds
  <2> QED BY <1>1, <1>2, <2>1, <2>2 DEF Unshown, OneWait, Awaits
<1>8. CarrierKept'
  BY <1>6 DEF CarrierKept
<1>9. FrontKept'
  BY <1>1, <1>2, <1>4, <1>5 DEF FrontKept
<1>10. ShownKept'
  <2>1. ASSUME NEW u \in Tasks
        PROVE  ~Unshown(u)' /\ OneWait(u)' /\ ~Awaits(u)' /\ ex'[u].pc \notin {"publish", "final", "failed"}
    BY <1>1, <1>4, <1>7
  <2> QED BY <2>1 DEF ShownKept, OneWait
<1> QED BY <1>1, <1>8, <1>9, <1>10, SameRest DEF Line

\* A claim is made at the end of the line, where nothing else is under way.
LEMMA ClaimedKeepsHistory ==
  ASSUME RunInv, Line, NEW f, NEW input \in Nat, ClaimedStep(f, input), doc.checkpoint = Len(cps)
  PROVE  HistoryKept'
<1>1. PICK n \in Nat : n = Len(cps)
  BY StateStart
<1>2. /\ cps' = cps /\ doc'.resumeInput = input /\ doc'.resumeCheckpoint = n
  BY <1>1 DEF ClaimedStep
<1>3. /\ \A k \in 1..n : cps[k].from = k - 1
      /\ \A i \in 1..inputs : doc.resumeInput = i \/ i \in StateInputs(n)
      /\ doc.resumeInput # 0 =>
           IF doc.resumeCheckpoint = n THEN Appliers(doc.resumeInput) = {}
           ELSE doc.resumeInput \in StateInputs(n)
      /\ \A j, k \in 1..n : cps[j].input = cps[k].input => j = k \/ cps[j].input = 0
  BY <1>1 DEF Line, HistoryKept
<1>4. /\ doc.status # "running" /\ doc.resumeInput # 0 => doc.resumeCheckpoint = n
      /\ doc.status = "waiting" => doc.resumeInput = 0
  BY <1>1 DEF Line, RestKept
<1>5. inputs \in Nat /\ \A k \in 1..n : cps[k].input <= inputs /\ cps[k].input \in Nat
  <2>1. inputs \in Nat /\ \A k \in 1..n : cps[k].input <= inputs
    BY <1>1 DEF RunInv, RunTypeOK, Shapes
  <2>2. \A k \in 1..n : cps[k] \in Checkpoints
    BY <1>1 DEF RunInv, RunTypeOK, Shapes
  <2> QED BY <2>1, <2>2 DEF Checkpoints
<1>6. /\ \A i \in 1..inputs' : input = i \/ i \in StateInputs(n)
      /\ input # 0 => Appliers(input) = {}
  <2>1. CASE doc.status = "waiting"
    <3>1. \A i \in 1..inputs : i \in StateInputs(n)
      BY <1>3, <1>4, <2>1
    <3>2. CASE input = 0 /\ inputs' = inputs
      BY <3>1, <3>2
    <3>3. CASE input = inputs + 1 /\ inputs' = input
      <4>1. \A i \in 1..inputs' : i = input \/ i \in 1..inputs
        BY <1>5, <3>3
      <4>2. \A k \in 1..n : cps[k].input # input
        BY <1>5, <3>3
      <4> QED BY <1>1, <3>1, <4>1, <4>2 DEF Appliers
    <3> QED BY <2>1, <3>2, <3>3 DEF ClaimedStep
  <2>2. CASE doc.status \in {"stopped", "interrupted"} /\ input = doc.resumeInput /\ inputs' = inputs
    <3>1. doc.resumeInput # 0 => doc.resumeCheckpoint = n
      BY <1>4, <2>2
    <3> QED BY <1>3, <2>2, <3>1
  <2> QED BY <2>1, <2>2 DEF ClaimedStep
<1>7. (StateInputs(Len(cps)))' = StateInputs(n) /\ (input # 0 => (Appliers(doc.resumeInput))' = {})
  BY <1>1, <1>2, <1>6 DEF StateInputs, Appliers
<1>8. doc'.resumeInput # 0 => (Appliers(doc.resumeInput))' = {} /\ doc'.resumeCheckpoint = Len(cps')
  BY <1>1, <1>2, <1>7
<1> QED BY <1>1, <1>2, <1>3, <1>6, <1>7, <1>8 DEF HistoryKept

LEMMA ClaimedKeepsLine ==
  ASSUME RunInv, WaitInv, Line, NEW f \in Tasks, NEW input \in Nat, ClaimedStep(f, input) PROVE Line'
<1>1. /\ doc.status # "running" /\ doc.checkpoint # 0 /\ cps' = cps
      /\ doc'.status = "running" /\ doc'.checkpoint = doc.checkpoint
      /\ doc'.resumeCheckpoint = doc.checkpoint /\ doc'.resumeClaim = f /\ doc'.resumeInput = input
      /\ task'[f].st = "new" /\ task'[f].claim = f /\ task'[f].resume = doc.checkpoint
      /\ task'[f].input = input /\ \A u \in Tasks \ {f} : task'[u] = task[u]
      /\ ex' = ex \/ \E t \in Tasks : OthersSame(t) /\ WakeMoves(t)
  BY DEF ClaimedStep
<1>2. doc.checkpoint = Len(cps)
  BY <1>1 DEF Line, RestKept
<1>3. \A u \in Tasks : ~PendingTask(u) /\ ex[u].pc # "load"
  BY <1>1 DEF Line, CarrierKept, Carrier
<1>4. \A u \in Tasks : ~Working(u) /\ ex[u].prod # "done" /\ ~Unshown(u)
  BY <1>1 DEF Line, FrontKept, ShownKept
<1>5. \A u \in Tasks : /\ OneWait(u) /\ (ex[u].pc \in {"publish", "final", "failed"} => ex[u].seen = Len(cps))
                       /\ (ex[u].prod = "parked" => ex[u].at = Len(cps))
  BY LineOf DEF Line, FrontKept
<1>6. ASSUME NEW u \in Tasks
      PROVE  /\ ~Working(u)' /\ ex'[u].prod # "done" /\ ~Unshown(u)' /\ OneWait(u)' /\ ex'[u].pc # "load"
             /\ ex'[u].prod = "parked" => ex'[u].at = Len(cps)
             /\ ex'[u].pc \in {"publish", "final", "failed"} => ex'[u].seen = Len(cps)
  <2>1. CASE ex'[u] = ex[u]
    BY <1>3, <1>4, <1>5, <2>1 DEF Working, Unshown, OneWait, Sent
  <2>2. CASE ex[u].pc = "wake" /\ Moving(u, "run")
    BY <1>3, <1>4, <1>5, <2>2 DEF Working, Unshown, OneWait, Sent, Moving, ProducerSame
  <2>3. CASE Closing(u)
    BY <2>3, OutOfLine DEF Closing
  <2> QED BY <1>1, <2>1, <2>2, <2>3 DEF OthersSame, WakeMoves
<1>7. PendingTask(f)' /\ \A u \in Tasks : Carrier(u)' => u = f
  <2>1. \A u \in Tasks \ {f} : ~PendingTask(u)'
    BY <1>1, <1>3 DEF PendingTask
  <2> QED BY <1>1, <1>6, <2>1 DEF PendingTask, Carrier
<1>8. ~NonePending'
  BY <1>7 DEF NonePending
<1>9. CarrierKept'
  BY <1>1, <1>2, <1>7 DEF CarrierKept
<1>10. FrontKept'
  BY <1>1, <1>6 DEF FrontKept
<1>11. ShownKept'
  BY <1>1, <1>6, <1>8 DEF ShownKept, OneWait
<1>12. RestKept'
  BY <1>1 DEF RestKept
<1> QED BY <1>2, <1>9, <1>10, <1>11, <1>12, ClaimedKeepsHistory DEF Line

\* What replaying the checkpoints makes of the stored answer.
Replayed ==
    IF doc.resumeCheckpoint # 0 /\ Len(cps) # 0 /\ doc.resumeCheckpoint # Len(cps)
    THEN doc'.resumeInput = 0 /\ doc'.resumeCheckpoint = 0
    ELSE doc'.resumeInput = doc.resumeInput /\ doc'.resumeCheckpoint = doc.resumeCheckpoint

LEMMA ReplayKeepsHistory ==
  ASSUME RunInv, Line, Replayed, UNCHANGED <<cps, inputs>>
  PROVE  /\ HistoryKept'
         /\ doc'.resumeInput # 0 => doc'.resumeCheckpoint = Len(cps)
         /\ doc'.resumeCheckpoint = 0 => doc'.resumeInput = 0
         /\ doc'.resumeInput \in {0, doc.resumeInput}
         /\ doc'.resumeCheckpoint \in {0, doc.resumeCheckpoint}
<1>1. PICK n \in Nat : n = Len(cps)
  BY StateStart
<1>2. doc.resumeCheckpoint <= n /\ doc.resumeCheckpoint \in Nat
  BY <1>1 DEF RunInv, RunTypeOK, Shapes, Documents
<1>3. doc.resumeCheckpoint = 0 => doc.resumeInput = 0
  BY DEF Line, RestKept
<1>4. /\ \A k \in 1..n : cps[k].from = k - 1
      /\ \A i \in 1..inputs : doc.resumeInput = i \/ i \in StateInputs(n)
      /\ doc.resumeInput # 0 =>
           IF doc.resumeCheckpoint = n THEN Appliers(doc.resumeInput) = {}
           ELSE doc.resumeInput \in StateInputs(n)
      /\ \A j, k \in 1..n : cps[j].input = cps[k].input => j = k \/ cps[j].input = 0
  BY <1>1 DEF Line, HistoryKept
<1>5. CASE doc.resumeCheckpoint # 0 /\ n # 0 /\ doc.resumeCheckpoint # n
  <2>1. doc'.resumeInput = 0 /\ doc'.resumeCheckpoint = 0
    BY <1>1, <1>5 DEF Replayed
  <2>2. \A i \in 1..inputs : i \in StateInputs(n)
    BY <1>4, <1>5
  <2>3. (StateInputs(Len(cps)))' = StateInputs(n)
    BY <1>1 DEF StateInputs
  <2>4. HistoryKept'
    BY <1>1, <1>4, <2>1, <2>2, <2>3 DEF HistoryKept
  <2> QED BY <2>1, <2>4
<1>6. CASE ~(doc.resumeCheckpoint # 0 /\ n # 0 /\ doc.resumeCheckpoint # n)
  <2>1. doc'.resumeInput = doc.resumeInput /\ doc'.resumeCheckpoint = doc.resumeCheckpoint
    BY <1>1, <1>6 DEF Replayed
  <2>2. HistoryKept'
    BY <2>1 DEF Line, HistoryKept, StateInputs, Appliers
  <2>3. doc.resumeInput # 0 => doc.resumeCheckpoint = n
    BY <1>2, <1>3, <1>6
  <2> QED BY <1>1, <1>3, <2>1, <2>2, <2>3
<1> QED BY <1>5, <1>6

LEMMA RestartKeepsLine == ASSUME RunInv, Line, RestartStep PROVE Line'
<1>1. /\ UNCHANGED <<cps, inputs>> /\ RecoveredInto(doc')
      /\ \A u \in Tasks :
         /\ ex'[u].pc = "off" /\ ex'[u].prod = "off" /\ ex'[u].stream = <<>> /\ ~PendingTask(u)'
  BY DEF RestartStep
<1>2. \A u \in Tasks :
         /\ ~Working(u)' /\ ex'[u].prod # "parked" /\ ex'[u].prod # "done"
         /\ ~Unshown(u)' /\ OneWait(u)' /\ ~Awaits(u)' /\ ex'[u].pc \notin {"publish", "final", "failed"}
         /\ ~Carrier(u)'
  BY <1>1, OutOfLine DEF Carrier
<1>3. CarrierKept' /\ FrontKept' /\ ShownKept'
  BY <1>2 DEF CarrierKept, FrontKept, ShownKept, OneWait
<1>4. /\ doc.status # "running" =>
           /\ doc.checkpoint = Len(cps)
           /\ doc.resumeInput # 0 => doc.resumeCheckpoint = Len(cps)
      /\ doc.status = "waiting" => doc.resumeInput = 0
      /\ doc.resumeCheckpoint = 0 => doc.resumeInput = 0
  BY DEF Line, RestKept
<1>5. doc'.status # "running" /\ (doc'.status = "waiting" => doc.status = "waiting")
  BY <1>1 DEF RecoveredInto
<1>6. CASE /\ doc.status # "running" /\ doc'.checkpoint = doc.checkpoint
           /\ doc'.resumeInput = doc.resumeInput /\ doc'.resumeCheckpoint = doc.resumeCheckpoint
  <2>1. RestKept'
    BY <1>1, <1>4, <1>5, <1>6 DEF RestKept
  <2>2. HistoryKept'
    BY <1>1, <1>6 DEF Line, HistoryKept, StateInputs, Appliers
  <2> QED BY <1>3, <2>1, <2>2 DEF Line
<1>7. CASE doc'.checkpoint = Len(cps) /\ Replayed
  <2>1. /\ HistoryKept'
        /\ doc'.resumeInput # 0 => doc'.resumeCheckpoint = Len(cps)
        /\ doc'.resumeCheckpoint = 0 => doc'.resumeInput = 0
        /\ doc'.resumeInput \in {0, doc.resumeInput}
    BY <1>1, <1>7, ReplayKeepsHistory
  <2>2. RestKept'
    BY <1>1, <1>4, <1>5, <1>7, <2>1 DEF RestKept
  <2> QED BY <1>3, <2>1, <2>2 DEF Line
<1> QED BY <1>1, <1>6, <1>7 DEF RecoveredInto, Replayed

\* A persist either finds its run claimed and leaves it so, or it settles a run that
\* nobody has claimed.
LEMMA ClaimSurvivesPersist ==
  ASSUME RunInv, WaitInv, Line, Calm', NEW t \in Tasks, PersistStep(t), ~NonePending
  PROVE  CalmStep
<1>1. /\ UNCHANGED <<cps, task, inputs>> /\ OthersSame(t) /\ MergedInto(doc', ex[t])
      /\ ex[t].pc \in {"publish", "final", "failed"}
      /\ ~(ClaimPending /\ doc'.status # "running")
  BY DEF PersistStep, Calm
<1>2. PICK u \in Tasks : PendingTask(u)
  BY DEF NonePending
<1>3. /\ doc.status = "running" /\ doc.checkpoint = Len(cps) /\ doc.resumeCheckpoint = Len(cps)
      /\ task[u].claim = doc.resumeClaim
  BY <1>2 DEF Line, CarrierKept, Carrier
<1>4. doc'.status = "running"
  BY <1>1, <1>2, <1>3 DEF ClaimPending, PendingTask
<1>5. ex[t].seen = Len(cps) /\ ex[t].status # "running"
  BY <1>1, LineOf DEF RunInv, StreamSettles
<1>6. AlreadyClaimed(doc, ex[t])
  BY <1>1, <1>4, <1>5 DEF MergedInto
<1>7. /\ doc'.checkpoint = doc.checkpoint /\ doc'.resumeClaim = doc.resumeClaim
      /\ doc'.resumeInput = doc.resumeInput /\ doc'.resumeCheckpoint = doc.resumeCheckpoint
      /\ doc'.status = doc.status
  BY <1>1, <1>3, <1>4, <1>5 DEF MergedInto
<1>8. ~PendingTask(t)' /\ ex'[t].pc # "load"
  <2>1. ~PendingTask(t)'
    BY <1>1, Owned DEF PendingTask
  <2> QED BY <2>1 DEF PersistStep, Moving, Closing
<1>9. ~Unshown(t)
  BY <1>2 DEF Line, ShownKept, NonePending
<1>10. CASE ex[t].pc = "publish"
  BY <1>9, <1>10 DEF Unshown
<1>11. CASE ex[t].pc = "final" /\ Moving(t, "lastWake")
  <2>1. ex'[t].stream = <<>> /\ ex'[t].prod \in {"off", "ended"}
    <3>1. ex[t].stream = <<>>
      BY <1>11 DEF WaitInv, StreamsRead
    <3>2. ex[t].prod \in {"off", "ended"}
      BY <1>11, ProducerTypes DEF RunInv, OneOwner, Producing, Executions
    <3> QED BY <1>11, <3>1, <3>2 DEF Moving, ProducerSame
  <2>2. ex'[t].pc = "lastWake"
    BY <1>11 DEF Moving
  <2> QED BY <1>1, <1>7, <1>8, <2>1, <2>2, OutOfLine, CalmFrom
<1>12. CASE Closing(t)
  BY <1>1, <1>7, <1>8, <1>12, OutOfLine, CalmFrom DEF Closing
<1> QED BY <1>10, <1>11, <1>12 DEF PersistStep

LEMMA SettlingKeepsLine ==
  ASSUME RunInv, WaitInv, Line, NEW t \in Tasks, PersistStep(t), NonePending
  PROVE  Line'
<1>1. /\ UNCHANGED <<cps, task, inputs>> /\ OthersSame(t) /\ MergedInto(doc', ex[t])
      /\ ex[t].pc \in {"publish", "final", "failed"}
      /\ ex'[t].pc \in {"wake", "lastWake", "close"}
  BY DEF PersistStep, Moving, Closing
<1>2. PICK n \in Nat : n = Len(cps)
  BY StateStart
<1>3. ex[t].seen = n /\ ex[t].status # "running"
  BY <1>1, <1>2, LineOf DEF RunInv, StreamSettles
<1>4. ex[t].status = "waiting" => doc.resumeCheckpoint # n /\ n # 0
  <2>1. CASE ex[t].pc = "publish"
    <3>1. doc.resumeCheckpoint # n
      BY <1>2, <2>1 DEF Line, ShownKept, Unshown
    <3>2. ex[t].status = "waiting" => ex[t].seen # 0
      BY <2>1 DEF WaitInv, WaitingHasCheckpoint, Executing
    <3> QED BY <1>3, <3>1, <3>2
  <2>2. CASE ex[t].pc = "final"
    <3>1. ex[t].stream = <<>>
      BY <2>2 DEF WaitInv, StreamsRead
    <3>2. ex[t].status = "waiting" => Awaits(t)
      BY <2>2, <3>1 DEF Awaits, Executing, Resumes, Sent
    <3>3. ex[t].status = "waiting" => doc.resumeCheckpoint # n
      BY <1>2, <3>2 DEF Line, ShownKept
    <3>4. ex[t].status = "waiting" => ex[t].seen # 0
      BY <2>2 DEF WaitInv, WaitingHasCheckpoint, Executing
    <3> QED BY <1>3, <3>3, <3>4
  <2>3. CASE ex[t].pc = "failed"
    BY <2>3 DEF RunInv, StreamSettles
  <2> QED BY <1>1, <2>1, <2>2, <2>3
<1>5. ~AlreadyClaimed(doc, ex[t])
  BY <1>3, <1>4 DEF AlreadyClaimed
<1>6. /\ doc'.status = ex[t].status \/ (doc'.status = "stopped" /\ ex[t].status = "waiting")
      /\ doc'.checkpoint = n /\ Replayed
  BY <1>1, <1>2, <1>3, <1>5 DEF MergedInto, Replayed
<1>7. /\ HistoryKept'
      /\ doc'.resumeInput # 0 => doc'.resumeCheckpoint = n
      /\ doc'.resumeCheckpoint = 0 => doc'.resumeInput = 0
      /\ doc'.resumeCheckpoint \in {0, doc.resumeCheckpoint}
  BY <1>1, <1>2, <1>6, ReplayKeepsHistory
<1>8. RestKept'
  <2>1. doc'.status = "waiting" => ex[t].status = "waiting"
    BY <1>6
  <2>2. doc'.status = "waiting" => doc'.resumeInput = 0
    BY <1>4, <1>7, <2>1
  <2> QED BY <1>1, <1>2, <1>6, <1>7, <2>2 DEF RestKept
<1>9. \A u \in Tasks \ {t} :
         /\ ex'[u].pc = "off" /\ ~Working(u)' /\ ex'[u].prod # "parked" /\ ex'[u].prod # "done"
         /\ ~Unshown(u)' /\ OneWait(u)' /\ ~Awaits(u)'
  <2>1. \A u \in Tasks \ {t} : ex[u].pc = "off" /\ ex'[u] = ex[u]
    BY <1>1, Owned DEF OthersSame
  <2> QED BY <2>1, NotStarted
<1>10. NonePending' /\ \A u \in Tasks : ~Carrier(u)'
  <2>1. NonePending' /\ \A u \in Tasks : ~PendingTask(u)'
    BY <1>1 DEF NonePending, PendingTask
  <2> QED BY <1>1, <1>9, <2>1 DEF Carrier
<1>11. /\ ~Working(t)' /\ ex'[t].prod # "done" /\ (ex'[t].prod = "parked" => ex'[t].at = n)
       /\ ~Unshown(t)' /\ OneWait(t)' /\ (Awaits(t)' => doc'.resumeCheckpoint # n)
  <2>1. CASE ex[t].pc = "publish" /\ Moving(t, "wake")
    <3>1. /\ ex'[t].prod = ex[t].prod /\ ex'[t].at = ex[t].at /\ ex'[t].status = ex[t].status
          /\ ex'[t].stream = ex[t].stream /\ ex'[t].pc = "wake"
      BY <2>1 DEF Moving, ProducerSame
    <3>2. Halted(t) /\ \A k \in Sent(t) : ex[t].stream[k] \notin WaitEvents
      BY <2>1 DEF Line, ShownKept, Unshown
    <3>3. ex[t].prod = "parked" => ex[t].at = n
      BY <1>2 DEF Line, FrontKept
    <3>4. ~Working(t)' /\ ex'[t].prod # "done" /\ (ex'[t].prod = "parked" => ex'[t].at = n)
      BY <3>1, <3>2, <3>3 DEF Halted, Working
    <3>5. Sent(t)' = Sent(t)
      BY <3>1 DEF Sent
    <3>6. ~Unshown(t)' /\ OneWait(t)'
      BY <3>1, <3>2, <3>5 DEF Unshown, OneWait
    <3>7. Awaits(t)' => doc'.resumeCheckpoint # n
      BY <1>4, <1>7, <3>1 DEF Awaits
    <3> QED BY <3>4, <3>6, <3>7
  <2>2. CASE ex[t].pc = "final" /\ Moving(t, "lastWake")
    <3>1. ex[t].stream = <<>>
      BY <2>2 DEF WaitInv, StreamsRead
    <3>2. ex[t].prod \in {"off", "ended"}
      BY <2>2, ProducerTypes DEF RunInv, OneOwner, Producing, Executions
    <3>3. ex'[t].pc = "lastWake" /\ ex'[t].prod \in {"off", "ended"} /\ ex'[t].stream = <<>>
      BY <2>2, <3>1, <3>2 DEF Moving, ProducerSame
    <3> QED BY <3>3, OutOfLine
  <2>3. CASE Closing(t)
    BY <2>3, OutOfLine DEF Closing
  <2> QED BY <2>1, <2>2, <2>3 DEF PersistStep
<1>12. CarrierKept'
  BY <1>10 DEF CarrierKept
<1>13. FrontKept'
  BY <1>1, <1>2, <1>9, <1>11 DEF FrontKept
<1>14. ShownKept'
  <2>1. ASSUME NEW u \in Tasks
        PROVE  /\ ~Unshown(u)' /\ OneWait(u)' /\ (Awaits(u)' => doc'.resumeCheckpoint # Len(cps'))
               /\ ex'[u].pc \notin {"publish", "final", "failed"}
    BY <1>1, <1>2, <1>9, <1>11
  <2> QED BY <2>1 DEF ShownKept, OneWait
<1> QED BY <1>7, <1>8, <1>12, <1>13, <1>14 DEF Line

\* No step loses the line while nothing disturbs it; what has disturbed it stays known.
LEMMA DisturbedForGood == ASSUME RunInv, [Next]_vars, Calm' PROVE Calm
<1>1. QuietStep \/ HandoverStep \/ RestartStep => Calm
  BY DEF QuietStep, HandoverStep, RestartStep, Calm
<1>2. ASSUME NEW f \in Tasks, NEW input \in Nat, ClaimedStep(f, input) PROVE Calm
  BY <1>2 DEF ClaimedStep, Calm
<1>3. ASSUME NEW t \in Tasks, ProducerMoves(t) PROVE Calm
  BY <1>3, ProducerClaimLocal, ProducerEmptyLocal
     DEF ProducerMoves, EndingStep, LocalStep, CommitStep, ResumedStep, Calm
<1>4. ASSUME NEW t \in Tasks, ConsumerMoves(t) PROVE Calm
  BY <1>4 DEF ConsumerMoves, FlushStep, EventStep, ClosedStep, PersistStep, IdleWakeStep,
              UnrecordedStep, EndStep, Calm
<1>5. ASSUME NEW t \in Tasks, LaunchMoves(t) PROVE Calm
  BY <1>5 DEF LaunchMoves, OwnStep, LoadStep, FailStep, Calm
<1> QED BY <1>1, <1>2, <1>3, <1>4, <1>5, Steps

LEMMA LineKept == ASSUME RunInv, WaitInv, LineInv, [Next]_vars PROVE LineInv'
<1>1. SUFFICES ASSUME Calm' PROVE Line'
  BY DEF LineInv, Line
<1>2. Line
  BY <1>1, DisturbedForGood DEF LineInv, Line
<1>3. ASSUME NEW t \in Tasks, ProducerMoves(t) PROVE Line'
  <2>1. LocalStep(t) \/ CommitStep(t) \/ \E r \in Tasks : ResumedStep(t, r)
    BY <1>3, ProducerClaimLocal, ProducerEmptyLocal DEF ProducerMoves, EndingStep
  <2> QED BY <1>2, <2>1, LocalKeepsLine, CommitKeepsLine, ResumedKeepsLine
<1>4. ASSUME NEW t \in Tasks, ConsumerMoves(t) PROVE Line'
  <2>1. CASE PersistStep(t)
    BY <1>1, <1>2, <2>1, ClaimSurvivesPersist, SettlingKeepsLine, CalmStepKeepsLine
  <2>2. CASE ~PersistStep(t)
    <3>1. CalmStep
      BY <1>1, <1>2, <1>4, <2>2, FlushIsCalm, EventIsCalm, ClosedIsCalm, IdleWakeIsCalm, EndsAreCalm
         DEF ConsumerMoves
    <3> QED BY <1>2, <3>1, CalmStepKeepsLine
  <2> QED BY <2>1, <2>2
<1>5. ASSUME NEW t \in Tasks, LaunchMoves(t) PROVE Line'
  BY <1>1, <1>2, <1>5, OwnKeepsLine, LoadKeepsLine, EndsAreCalm, CalmStepKeepsLine DEF LaunchMoves
<1>6. QuietStep \/ HandoverStep => Line'
  BY <1>2, QuietIsCalm, HandoverIsCalm, CalmStepKeepsLine
<1> QED BY <1>2, <1>3, <1>4, <1>5, <1>6, Steps, RestartKeepsLine, ClaimedKeepsLine

LEMMA InitLine == ASSUME Init PROVE LineInv
<1>1. /\ doc.status = "running" /\ doc.checkpoint = 0 /\ doc.resumeCheckpoint = 0
      /\ doc.resumeInput = 0 /\ doc.resumeClaim = 0
  BY DEF Init
<1>2. cps = <<>> /\ inputs = 0 /\ Len(cps) = 0
  BY DEF Init
<1>3. \A u \in Tasks : task[u] = IF u = 1 THEN [NoTask EXCEPT !.st = "new"] ELSE NoTask
  BY DEF Init
<1>4. \A u \in Tasks : /\ task[u].st = (IF u = 1 THEN "new" ELSE "none")
                       /\ task[u].claim = 0 /\ task[u].resume = 0 /\ task[u].input = 0
  BY <1>3 DEF NoTask
<1>5. \A u \in Tasks : ex[u] = NoExecution
  BY DEF Init
<1>6. \A u \in Tasks : ex[u].pc = "off" /\ ex[u].prod = "off" /\ ex[u].stream = <<>>
  BY <1>5 DEF NoExecution
<1>7. CarrierKept
  BY <1>1, <1>2, <1>4, <1>6 DEF CarrierKept, Carrier, PendingTask
<1>8. \A u \in Tasks : Sent(u) = {}
  BY <1>6 DEF Sent
<1>9. FrontKept /\ ShownKept
  BY <1>6, <1>8 DEF FrontKept, ShownKept, Working, Unshown, Awaits, Executing
<1>10. RestKept
  BY <1>1 DEF RestKept
<1>11. HistoryKept
  BY <1>1, <1>2 DEF HistoryKept
<1> QED BY <1>7, <1>9, <1>10, <1>11 DEF LineInv

\* While no claim is overwritten and no execution breaks off, the run is one line of
\* work: one launch or execution stands at the last checkpoint, a wait is shown
\* before anybody can answer it, and an accepted answer is stored until the one
\* checkpoint that applies it.
THEOREM LineInvariant == Spec => []LineInv
<1>1. Init => RunInv /\ WaitInv /\ LineInv
  BY InitEstablishes, InitWaits, InitLine
<1>2. RunInv /\ WaitInv /\ LineInv /\ [Next]_vars => RunInv' /\ WaitInv' /\ LineInv'
  BY NextKeeps, WaitKept, LineKept
<1> QED BY <1>1, <1>2, PTL DEF Spec

-----------------------------------------------------------------------------
(* What the line of work means for answers and checkpoints. *)

LEMMA AtMostOne ==
  ASSUME NEW S, \A x, y \in S : x = y PROVE Cardinality(S) <= 1
<1>1. CASE S = {}
  BY <1>1, FS_EmptySet
<1>2. CASE S # {}
  <2>1. PICK x : x \in S
    BY <1>2
  <2>2. S = {x}
    BY <2>1
  <2> QED BY <2>2, FS_Singleton
<1> QED BY <1>1, <1>2

LEMMA UndisturbedIsCalm == ASSUME LineInv, Undisturbed PROVE Line
  BY DEF LineInv, Line, Undisturbed, Calm

\* A run that waits, or was stopped or interrupted, names the last committed
\* checkpoint when its last launch is gone, whatever crashed or was committed in
\* between: the next claim loses no work of the graph and repeats none.
THEOREM FrontierAlwaysSaved == Spec => []FrontierSaved
<1>1. LineInv => FrontierSaved
  BY UndisturbedIsCalm DEF Line, RestKept, FrontierSaved
<1> QED BY <1>1, LineInvariant, PTL

LEMMA LineAnswers == ASSUME RunInv, WaitInv, LineInv PROVE AnswersKept
<1>1. LinearHistory
  BY UndisturbedIsCalm DEF LinearHistory, Line, HistoryKept
<1>2. AnswerOnce
  BY DEF WaitInv
<1>3. AnswerNotLost
  BY UndisturbedIsCalm DEF AnswerNotLost, Line, HistoryKept
<1>4. AnswerAppliedOnce
  <2>1. ASSUME Undisturbed, NEW i \in 1..inputs PROVE Cardinality(Appliers(i)) <= 1
    <3>1. \A j, k \in 1..Len(cps) : cps[j].input = cps[k].input => j = k \/ cps[j].input = 0
      BY <2>1, UndisturbedIsCalm DEF Line, HistoryKept
    <3>2. i # 0
      OBVIOUS
    <3>3. \A j, k \in Appliers(i) : j = k
      BY <3>1, <3>2 DEF Appliers
    <3> QED BY <3>3, AtMostOne
  <2> QED BY <2>1 DEF AnswerAppliedOnce
<1> QED BY <1>1, <1>2, <1>3, <1>4 DEF AnswersKept

\* An answer that a waiting run accepted continues that run exactly once, from the
\* checkpoint it was given at: the wait never opens again, no two executions
\* continue one checkpoint, and the answer is stored until one checkpoint has
\* applied it, and only one does.
THEOREM AnswersAlwaysKept == Spec => []AnswersKept
<1>1. RunInv /\ WaitInv /\ LineInv => AnswersKept
  BY LineAnswers
<1>2. Spec => []RunInv
  <2>1. Init => RunInv
    BY InitEstablishes
  <2>2. RunInv /\ [Next]_vars => RunInv'
    BY NextKeeps
  <2> QED BY <2>1, <2>2, PTL DEF Spec
<1> QED BY <1>1, <1>2, WaitInvariant, LineInvariant, PTL

-----------------------------------------------------------------------------
(* Messages. *)

Delivery == ServicesKept /\ HeldKept /\ QueueKept /\ ConsumedKept

StopsIn(t) == \E n \in Sent(t) : ex[t].stream[n] = "stopped"
Served(t) == Producing(t) =>
    /\ ex[t].svc \in 1..Len(services)
    /\ Cancelled(t) \/ (current = ex[t].svc /\ ~doc.abort
                        /\ doc.status \notin {"stopped", "interrupted"}
                        /\ ex[t].status # "stopped" /\ ~StopsIn(t))
    /\ Working(t) => current = ex[t].svc
    /\ ex[t].pc = "publish" => ex[t].status \in {"waiting", "stopped"}
Holding(t) ==
    /\ ex[t].prod = "run" => \A m \in ex[t].held :
         m \in services[ex[t].svc].claimed /\ doc.queue[m] \in {"pending", "consumed"}
    /\ ex[t].prod \in {"off", "empty", "parked"} => ex[t].held = {}

LEMMA ServedHolding ==
  ASSUME Delivery, NEW t \in Tasks PROVE Served(t) /\ Holding(t)
<1>1. Holding(t)
  BY DEF Delivery, HeldKept, Holding
<1>2. Served(t)
  BY DEF Delivery, ServicesKept, Served, StopsIn
<1> QED BY <1>1, <1>2

LEMMA ServedHoldingNext ==
  ASSUME \A u \in Tasks : Served(u)' /\ Holding(u)' PROVE ServicesKept' /\ HeldKept'
<1>1. HeldKept'
  BY DEF HeldKept, Holding
<1>2. ServicesKept'
  BY DEF ServicesKept, Served, StopsIn
<1> QED BY <1>1, <1>2

\* The objects only grow: what is cancelled or claimed stays so.
SameServices ==
    /\ Len(services') = Len(services)
    /\ \A i \in 1..Len(services) :
         /\ services[i].claimed \subseteq services'[i].claimed
         /\ services[i].cancelled => services'[i].cancelled

LEMMA ServicesTyped ==
  ASSUME RunInv
  PROVE  /\ services \in Seq(ServiceObjects) /\ Len(services) \in Nat
         /\ current # 0 => current \in 1..Len(services)
<1>1. services \in Seq(ServiceObjects) /\ current \in Nat /\ current <= Len(services)
  BY DEF RunInv, RunTypeOK, Shapes, ServiceObjects
<1>2. Len(services) \in Nat
  BY <1>1
<1> QED BY <1>1, <1>2

LEMMA ServicesUntouched == ASSUME services' = services PROVE SameServices
  BY DEF SameServices

LEMMA CancelledObjects ==
  ASSUME RunInv, NEW k \in 1..Len(services), services' = [services EXCEPT ![k].cancelled = TRUE]
  PROVE  SameServices /\ services'[k].cancelled
<1>1. services \in Seq(ServiceObjects)
  BY ServicesTyped
<1>2. services[k] \in ServiceObjects
  BY <1>1
<1>3. PICK o : o = [services[k] EXCEPT !.cancelled = TRUE] /\ services' = [services EXCEPT ![k] = o]
  BY <1>1
<1>4. o.cancelled = TRUE /\ o.claimed = services[k].claimed
  BY <1>2, <1>3 DEF ServiceObjects
<1>5. Len(services') = Len(services) /\ services'[k] = o
      /\ \A i \in 1..Len(services) : i # k => services'[i] = services[i]
  <2>1. DOMAIN services = 1..Len(services)
    BY <1>1
  <2>2. services'[k] = o /\ \A i \in 1..Len(services) : i # k => services'[i] = services[i]
    BY <1>3, <2>1
  <2>3. Len(services') = Len(services)
    BY <1>1, ServicesCancelled
  <2> QED BY <2>2, <2>3
<1> QED BY <1>4, <1>5 DEF SameServices

LEMMA ClaimedObjects ==
  ASSUME RunInv, NEW k \in 1..Len(services), NEW m \in Messages,
         services' = [services EXCEPT ![k].claimed = @ \union {m}]
  PROVE  SameServices /\ m \in services'[k].claimed
<1>1. services \in Seq(ServiceObjects)
  BY ServicesTyped
<1>2. services[k] \in ServiceObjects
  BY <1>1
<1>3. PICK c : c = services[k].claimed \union {m}
  OBVIOUS
<1>4. PICK o : o = [services[k] EXCEPT !.claimed = c] /\ services' = [services EXCEPT ![k] = o]
  BY <1>1, <1>3
<1>5. o.cancelled = services[k].cancelled /\ o.claimed = c
  BY <1>2, <1>4 DEF ServiceObjects
<1>6. Len(services') = Len(services) /\ services'[k] = o
      /\ \A i \in 1..Len(services) : i # k => services'[i] = services[i]
  <2>1. DOMAIN services = 1..Len(services)
    BY <1>1
  <2>2. services'[k] = o /\ \A i \in 1..Len(services) : i # k => services'[i] = services[i]
    BY <1>4, <2>1
  <2>3. Len(services') = Len(services)
    BY <1>1, ServicesClaimed
  <2> QED BY <2>2, <2>3
<1> QED BY <1>3, <1>5, <1>6 DEF SameServices

\* Executions that have no producer hold nothing.
LEMMA NothingServed ==
  ASSUME NEW t, ex'[t].prod \in {"off", "ended"}, ex'[t].prod = "off" => ex'[t].held = {}
  PROVE  Served(t)' /\ Holding(t)'
  BY DEF Served, Holding, Producing

LEMMA OthersServed ==
  ASSUME RunInv, Delivery, NEW t \in Tasks, ex[t].pc # "off", OthersSame(t),
         NEW u \in Tasks, u # t
  PROVE  Served(u)' /\ Holding(u)'
<1>1. ex[u].prod = "off" /\ ex'[u] = ex[u] /\ ex[u].held = {}
  BY Owned, ServedHolding DEF OthersSame, Holding
<1> QED BY <1>1, NothingServed

\* What a step of an execution leaves of its bond to its services.
LEMMA StaysServed ==
  ASSUME RunInv, Delivery, SameServices, NEW t \in Tasks,
         current' = current, doc'.abort = doc.abort, doc'.status = doc.status,
         ex'[t].svc = ex[t].svc, Producing(t)' => Producing(t),
         Working(t)' => Working(t) \/ ~Cancelled(t),
         ex'[t].status = "stopped" => ex[t].status = "stopped" \/ StopsIn(t),
         StopsIn(t)' => StopsIn(t) \/ Cancelled(t),
         ex'[t].pc = "publish" => ex'[t].status \in {"waiting", "stopped"}
  PROVE  Served(t)'
<1>1. SUFFICES ASSUME Producing(t)'
      PROVE  /\ ex'[t].svc \in 1..Len(services')
             /\ Cancelled(t)' \/ (current' = ex'[t].svc /\ ~doc'.abort
                        /\ doc'.status \notin {"stopped", "interrupted"}
                        /\ ex'[t].status # "stopped" /\ ~StopsIn(t)')
             /\ Working(t)' => current' = ex'[t].svc
             /\ ex'[t].pc = "publish" => ex'[t].status \in {"waiting", "stopped"}
  BY DEF Served
<1>2. /\ ex[t].svc \in 1..Len(services)
      /\ Cancelled(t) \/ (current = ex[t].svc /\ ~doc.abort
                        /\ doc.status \notin {"stopped", "interrupted"}
                        /\ ex[t].status # "stopped" /\ ~StopsIn(t))
      /\ Working(t) => current = ex[t].svc
  BY <1>1, ServedHolding DEF Served
<1>3. Cancelled(t) => Cancelled(t)'
  BY <1>2 DEF Cancelled, SameServices
<1> QED BY <1>2, <1>3 DEF SameServices

LEMMA StaysHolding ==
  ASSUME RunInv, Delivery, SameServices, NEW t \in Tasks,
         ex'[t].svc = ex[t].svc, ex'[t].held = ex[t].held,
         ex'[t].prod = ex[t].prod \/ ex'[t].prod \in {"draining", "ended"},
         \A m \in Messages : doc.queue[m] \in {"pending", "consumed"} => doc'.queue[m] \in {"pending", "consumed"}
  PROVE  Holding(t)'
<1>1. Holding(t)
  BY ServedHolding
<1>2. CASE ex'[t].prod = "run" /\ ex[t].prod = "run"
  <2>1. ex[t].svc \in 1..Len(services)
    BY <1>2, ServedHolding DEF Served, Producing
  <2>2. \A m \in ex[t].held : m \in services'[ex[t].svc].claimed
    BY <1>1, <1>2, <2>1 DEF Holding, SameServices
  <2>3. ex[t].held \subseteq Messages
    BY ProducerTypes DEF Executions
  <2> QED BY <1>1, <1>2, <2>2, <2>3 DEF Holding
<1>3. CASE ex'[t].prod # "run" /\ ex'[t].prod = ex[t].prod
  BY <1>1, <1>3 DEF Holding
<1>4. CASE ex'[t].prod \in {"draining", "ended"}
  BY <1>4 DEF Holding
<1> QED BY <1>2, <1>3, <1>4

\* The queue and the history of consumed messages.
LEMMA ConsumedAreMessages ==
  ASSUME RunInv PROVE Consumed(Len(cps)) \subseteq Messages
<1>1. \A k \in 1..Len(cps) : cps[k] \in Checkpoints
  BY DEF RunInv, RunTypeOK, Shapes
<1> QED BY <1>1 DEF Consumed, Checkpoints

LEMMA SameConsumed ==
  ASSUME Delivery, cps' = cps
  PROVE  ConsumedKept' /\ (Consumed(Len(cps)))' = Consumed(Len(cps))
  BY DEF Delivery, ConsumedKept, StateConsumed, Consumed

LEMMA QueueStays ==
  ASSUME RunInv, Delivery, cps' = cps, current' = current, SameServices,
         \A m \in Messages : doc'.queue[m] = doc.queue[m],
         doc.status = "running" => doc'.status = "running",
         \A u \in Tasks : Carrier(u)' => Carrier(u)
  PROVE  QueueKept' /\ ConsumedKept'
<1>1. ConsumedKept' /\ (Consumed(Len(cps)))' = Consumed(Len(cps)) /\ Consumed(Len(cps)) \subseteq Messages
  BY SameConsumed, ConsumedAreMessages
<1>2. ASSUME NEW m \in Consumed(Len(cps))
      PROVE  /\ doc'.queue[m] \in {"pending", "consumed"}
             /\ doc'.queue[m] = "pending" =>
                 /\ current' # 0 /\ m \in services'[current'].claimed
                 /\ doc'.status = "running" /\ \A u \in Tasks : ~Carrier(u)'
  <2>1. /\ doc.queue[m] \in {"pending", "consumed"}
        /\ doc.queue[m] = "pending" =>
             /\ current # 0 /\ m \in services[current].claimed
             /\ doc.status = "running" /\ \A u \in Tasks : ~Carrier(u)
    BY DEF Delivery, QueueKept
  <2>2. current # 0 => current \in 1..Len(services)
    BY ServicesTyped
  <2>3. current # 0 /\ m \in services[current].claimed => m \in services'[current].claimed
    BY <2>2 DEF SameServices
  <2> QED BY <1>1, <2>1, <2>3
<1> QED BY <1>1, <1>2 DEF QueueKept

LEMMA QueueSettled ==
  ASSUME Delivery, cps' = cps, \A m \in Consumed(Len(cps)) : doc'.queue[m] = "consumed"
  PROVE  QueueKept' /\ ConsumedKept'
<1>1. ConsumedKept' /\ (Consumed(Len(cps)))' = Consumed(Len(cps))
  BY SameConsumed
<1> QED BY <1>1 DEF QueueKept

\* Nothing consumed is still expected by a run that rests, or that a launch carries.
LEMMA NothingExpected ==
  ASSUME Delivery, doc.status # "running" \/ \E u \in Tasks : Carrier(u)
  PROVE  \A m \in Consumed(Len(cps)) : doc.queue[m] = "consumed"
  BY DEF Delivery, QueueKept

LEMMA SameCarriers ==
  ASSUME NEW t \in Tasks, OthersSame(t), task' = task, ex'[t].pc = "load" => ex[t].pc = "load"
  PROVE  \A u \in Tasks : Carrier(u)' => Carrier(u)
  BY DEF Carrier, PendingTask, OthersSame

LEMMA LocalServed ==
  ASSUME RunInv, Delivery, NEW t \in Tasks, LocalStep(t), SameServices PROVE Served(t)'
<1>1. /\ UNCHANGED <<doc, current>> /\ ex'[t].pc = ex[t].pc /\ ex'[t].status = ex[t].status
      /\ ex'[t].svc = ex[t].svc /\ ProdMoves(ex[t].prod, ex'[t].prod)
  BY DEF LocalStep
<1>2. (Producing(t)' => Producing(t)) /\ (Working(t)' => Working(t))
  BY <1>1 DEF Producing, Working, ProdMoves
<1>3. StopsIn(t)' => StopsIn(t)
  <2>1. CASE ex'[t].stream = ex[t].stream
    BY <2>1 DEF StopsIn, Sent
  <2>2. ASSUME NEW v \in {"failed", "done"}, ex'[t].stream = Append(ex[t].stream, v)
        PROVE  StopsIn(t)' => StopsIn(t)
    <3>1. v \in StreamEvents /\ v # "stopped"
      BY DEF StreamEvents
    <3>2. /\ ex'[t].stream[Len(ex[t].stream) + 1] = v
          /\ \A n \in Sent(t) : ex'[t].stream[n] = ex[t].stream[n]
          /\ \A n : n \in Sent(t)' <=> n \in Sent(t) \/ n = Len(ex[t].stream) + 1
      BY <2>2, <3>1, StreamGrows
    <3> QED BY <3>1, <3>2 DEF StopsIn
  <2> QED BY <2>1, <2>2 DEF LocalStep
<1>4. CASE Producing(t)'
  <2>1. ex'[t].pc = "publish" => ex'[t].status \in {"waiting", "stopped"}
    BY <1>1, <1>2, <1>4, ServedHolding DEF Served
  <2> QED BY <1>1, <1>2, <1>3, <2>1, StaysServed
<1>5. CASE ~Producing(t)'
  BY <1>5 DEF Served
<1> QED BY <1>4, <1>5

LEMMA LocalQueue ==
  ASSUME RunInv, Delivery, NEW t \in Tasks, LocalStep(t), SameServices PROVE QueueKept' /\ ConsumedKept'
<1>1. UNCHANGED <<doc, cps, task, current>> /\ OthersSame(t) /\ ex'[t].pc = ex[t].pc
  BY DEF LocalStep
<1>2. \A u \in Tasks : Carrier(u)' => Carrier(u)
  BY <1>1, SameCarriers
<1> QED BY <1>1, <1>2, QueueStays

LEMMA OthersAfterLocal ==
  ASSUME RunInv, Delivery, NEW t \in Tasks, OthersSame(t), Served(t)', Holding(t)', ex[t].pc # "off"
  PROVE  ServicesKept' /\ HeldKept'
  BY OthersServed, ServedHoldingNext

LEMMA ProducerIsOn == ASSUME RunInv, NEW t \in Tasks, Producing(t) PROVE ex[t].pc \in {"run", "publish", "wake"}
  BY DEF RunInv, OneOwner

LEMMA ClaimDelivers ==
  ASSUME RunInv, Delivery, NEW t \in Tasks, NEW m \in Messages, ProducerClaim(t, m) PROVE Delivery'
<1>1. LocalStep(t) /\ ex[t].prod = "run" /\ ex'[t].prod = "run" /\ ex'[t].held = {m}
  BY ProducerClaimLocal
<1>2. /\ services' = [services EXCEPT ![ex[t].svc].claimed = @ \union {m}]
      /\ doc.queue[m] = "pending"
  BY DEF ProducerClaim, Claimable, Pending
<1>3. ex[t].svc \in 1..Len(services) /\ ex[t].pc # "off"
  BY <1>1, ServedHolding, ProducerIsOn DEF Served, Producing
<1>4. SameServices /\ m \in services'[ex[t].svc].claimed
  BY <1>2, <1>3, ClaimedObjects
<1>5. Holding(t)'
  BY <1>1, <1>2, <1>4 DEF Holding, LocalStep
<1>6. Served(t)'
  BY <1>1, <1>4, LocalServed
<1> QED BY <1>1, <1>3, <1>4, <1>5, <1>6, LocalQueue, OthersAfterLocal DEF Delivery, LocalStep

LEMMA EmptyDelivers ==
  ASSUME RunInv, Delivery, NEW t \in Tasks, ProducerEmpty(t) PROVE Delivery'
<1>1. LocalStep(t) /\ ex[t].prod = "run" /\ ex'[t].prod = "empty" /\ ex'[t].held = {}
  BY ProducerEmptyLocal
<1>2. ex[t].pc # "off" /\ SameServices
  BY <1>1, ProducerIsOn, ServicesUntouched DEF Producing, ProducerEmpty
<1>3. Holding(t)' /\ Served(t)'
  BY <1>1, <1>2, LocalServed DEF Holding
<1> QED BY <1>1, <1>2, <1>3, LocalQueue, OthersAfterLocal DEF Delivery, LocalStep

LEMMA EndingDelivers ==
  ASSUME RunInv, Delivery, NEW t \in Tasks, EndingStep(t) PROVE Delivery'
<1>1. /\ LocalStep(t) /\ ex'[t].held = ex[t].held
      /\ ex'[t].prod = ex[t].prod \/ ex'[t].prod \in {"draining", "ended"}
      /\ UNCHANGED doc /\ ex'[t].svc = ex[t].svc /\ OthersSame(t)
  BY DEF EndingStep, LocalStep
<1>2. SameServices
  <2>1. CASE services' = services
    BY <2>1, ServicesUntouched
  <2>2. CASE Producing(t) /\ services' = [services EXCEPT ![ex[t].svc].cancelled = TRUE]
    <3>1. ex[t].svc \in 1..Len(services)
      BY <2>2, ServedHolding DEF Served
    <3> QED BY <2>2, <3>1, CancelledObjects
  <2> QED BY <2>1, <2>2 DEF EndingStep
<1>3. Holding(t)' /\ Served(t)'
  BY <1>1, <1>2, LocalServed, StaysHolding
<1>4. CASE ex[t].pc # "off"
  BY <1>1, <1>2, <1>3, <1>4, LocalQueue, OthersAfterLocal DEF Delivery
<1>5. CASE ex[t].pc = "off"
  <2>1. ~Producing(t)
    BY <1>5, ProducerIsOn
  <2>2. ASSUME NEW u \in Tasks, u # t PROVE Served(u)' /\ Holding(u)'
    <3>1. /\ ex'[u] = ex[u] /\ UNCHANGED <<doc, current>> /\ services' = services
      BY <1>1, <2>1, <2>2 DEF OthersSame, EndingStep, LocalStep
    <3>2. Served(u) /\ Holding(u)
      BY <2>2, ServedHolding
    <3> QED BY <3>1, <3>2 DEF Served, Holding, Producing, Working, Cancelled, StopsIn, Sent
  <2> QED BY <1>1, <1>2, <1>3, <2>2, LocalQueue, ServedHoldingNext DEF Delivery
<1> QED BY <1>4, <1>5

\* A commit makes what the node holds consumed, and keeps what was.
LEMMA CommitDelivers ==
  ASSUME RunInv, Line, Delivery, NEW t \in Tasks, CommitStep(t) PROVE Delivery'
<1>1. PICK n \in Nat : n = Len(cps)
  BY StateStart
<1>2. /\ Len(cps') = n + 1 /\ \A k \in 1..n : cps'[k] = cps[k]
      /\ cps'[n + 1].consumed = StateConsumed(ex[t].at) \union ex[t].held
      /\ UNCHANGED <<doc, task, services, current>> /\ Working(t) /\ OthersSame(t)
      /\ ex'[t].pc = ex[t].pc /\ ex'[t].status = ex[t].status /\ ex'[t].svc = ex[t].svc
      /\ ex'[t].held = {} /\ ex'[t].prod \in {"run", "done", "parked"}
  BY <1>1 DEF CommitStep
<1>3. ex[t].at = n /\ doc.status = "running" /\ NonePending
  BY <1>1, <1>2 DEF Line, FrontKept
<1>4. Producing(t) /\ ex[t].pc \in {"run", "publish", "wake"}
  BY <1>2, ProducerIsOn DEF Working, Producing
<1>5. /\ ex[t].svc \in 1..Len(services) /\ current = ex[t].svc
      /\ ex[t].pc = "publish" => ex[t].status \in {"waiting", "stopped"}
  BY <1>2, <1>4, ServedHolding DEF Served
<1>6. \A u \in Tasks : ~Carrier(u)'
  <2>1. \A u \in Tasks \ {t} : ex'[u].pc = "off"
    BY <1>2, <1>4, Owned DEF OthersSame
  <2>2. \A u \in Tasks : ~PendingTask(u)'
    BY <1>2, <1>3 DEF NonePending, PendingTask
  <2> QED BY <1>2, <1>4, <2>1, <2>2 DEF Carrier
<1>7. \A m \in ex[t].held : m \in services[current].claimed /\ doc.queue[m] \in {"pending", "consumed"}
  <2>1. Holding(t)
    BY ServedHolding
  <2>2. ex[t].prod \in {"run", "empty"}
    BY <1>2 DEF Working
  <2> QED BY <1>5, <2>1, <2>2 DEF Holding
<1>8. StateConsumed(n) \subseteq Consumed(n)
  BY DEF StateConsumed, Consumed
<1>9. \A k \in 1..Len(cps') : k \in 1..n \/ k = n + 1
  BY <1>2
<1>10. (Consumed(Len(cps)))' \subseteq Consumed(n) \union ex[t].held
  <2>1. ASSUME NEW m \in (Consumed(Len(cps)))' PROVE m \in Consumed(n) \union ex[t].held
    <3>1. PICK k \in 1..Len(cps') : m \in cps'[k].consumed
      BY <2>1 DEF Consumed
    <3>2. CASE k \in 1..n
      BY <1>2, <3>1, <3>2 DEF Consumed
    <3>3. CASE k = n + 1
      BY <1>2, <1>3, <1>8, <3>1, <3>3
    <3> QED BY <1>9, <3>2, <3>3
  <2> QED BY <2>1
<1>11. QueueKept'
  <2>1. ASSUME NEW m \in (Consumed(Len(cps)))'
        PROVE  /\ doc'.queue[m] \in {"pending", "consumed"}
               /\ doc'.queue[m] = "pending" =>
                   /\ current' # 0 /\ m \in services'[current'].claimed
                   /\ doc'.status = "running" /\ \A u \in Tasks : ~Carrier(u)'
    <3>1. CASE m \in Consumed(n)
      <4>1. /\ doc.queue[m] \in {"pending", "consumed"}
            /\ doc.queue[m] = "pending" => current # 0 /\ m \in services[current].claimed
        BY <1>1, <3>1 DEF Delivery, QueueKept
      <4> QED BY <1>2, <1>3, <1>6, <4>1
    <3>2. CASE m \in ex[t].held
      <4>1. current # 0
        BY <1>5
      <4> QED BY <1>2, <1>3, <1>6, <1>7, <3>2, <4>1
    <3> QED BY <1>10, <2>1, <3>1, <3>2
  <2> QED BY <2>1 DEF QueueKept
<1>12. ConsumedKept'
  <2>1. \A k \in 0..n : (StateConsumed(k))' = StateConsumed(k)
    BY <1>2 DEF StateConsumed
  <2>2. (StateConsumed(n + 1))' = StateConsumed(n) \union ex[t].held
    BY <1>2, <1>3 DEF StateConsumed
  <2>3. \A i, j \in 0..n : i <= j => StateConsumed(i) \subseteq StateConsumed(j)
    BY <1>1 DEF Delivery, ConsumedKept
  <2>4. ASSUME NEW i \in 0..(n + 1), NEW j \in 0..(n + 1), i <= j
        PROVE  (StateConsumed(i))' \subseteq (StateConsumed(j))'
    <3>1. CASE j \in 0..n
      <4>1. i \in 0..n
        BY <2>4, <3>1
      <4> QED BY <2>1, <2>3, <2>4, <3>1, <4>1
    <3>2. CASE j = n + 1 /\ i \in 0..n
      <4>1. StateConsumed(i) \subseteq StateConsumed(n)
        BY <2>3, <3>2
      <4>2. (StateConsumed(i))' = StateConsumed(i)
        BY <2>1, <3>2
      <4> QED BY <2>2, <3>2, <4>1, <4>2
    <3>3. CASE i = j
      BY <3>3
    <3>4. j \in 0..n \/ (j = n + 1 /\ i \in 0..n) \/ i = j
      BY <2>4
    <3> QED BY <3>1, <3>2, <3>3, <3>4
  <2> QED BY <1>2, <2>4 DEF ConsumedKept
<1>13. StopsIn(t)' => StopsIn(t) \/ Cancelled(t)
  <2>1. CASE ex'[t].stream = ex[t].stream
    BY <2>1 DEF StopsIn, Sent
  <2>2. ASSUME NEW v \in WaitEvents, ex'[t].stream = Append(ex[t].stream, v), v = "stopped" => Cancelled(t)
        PROVE  StopsIn(t)' => StopsIn(t) \/ Cancelled(t)
    <3>1. v \in StreamEvents
      BY DEF StreamEvents, WaitEvents, WaitKinds
    <3>2. /\ ex'[t].stream[Len(ex[t].stream) + 1] = v
          /\ \A k \in Sent(t) : ex'[t].stream[k] = ex[t].stream[k]
          /\ \A k : k \in Sent(t)' <=> k \in Sent(t) \/ k = Len(ex[t].stream) + 1
      BY <2>2, <3>1, StreamGrows
    <3> QED BY <2>2, <3>2 DEF StopsIn
  <2> QED BY <2>1, <2>2 DEF CommitStep
<1>14. Served(t)' /\ Holding(t)'
  <2>1. SameServices
    BY <1>2, ServicesUntouched
  <2>2. Served(t)'
    BY <1>2, <1>4, <1>5, <1>13, <2>1, StaysServed
  <2> QED BY <1>2, <2>2 DEF Holding
<1> QED BY <1>2, <1>4, <1>11, <1>12, <1>14, OthersAfterLocal DEF Delivery

LEMMA ResumedDelivers ==
  ASSUME RunInv, Delivery, NEW t \in Tasks, NEW r \in Tasks, ResumedStep(t, r) PROVE Delivery'
<1>1. /\ UNCHANGED <<doc, cps, services, current>> /\ OthersSame(t) /\ ex[t].prod = "parked" /\ ~Cancelled(t)
      /\ task[r].st = "offered"
      /\ ex'[t].pc = ex[t].pc /\ ex'[t].status = ex[t].status /\ ex'[t].svc = ex[t].svc
      /\ ex'[t].held = ex[t].held /\ ex'[t].prod = "run"
      /\ ex'[t].stream = Append(ex[t].stream, "resumed")
  BY DEF ResumedStep
<1>2. Producing(t) /\ ex[t].pc # "off" /\ ex[t].held = {}
  BY <1>1, ProducerIsOn, ServedHolding DEF Producing, Holding
<1>3. Carrier(r)
  BY <1>1 DEF Carrier, PendingTask
<1>4. \A m \in Consumed(Len(cps)) : doc'.queue[m] = "consumed"
  BY <1>1, <1>3, NothingExpected
<1>5. StopsIn(t)' => StopsIn(t)
  <2>1. "resumed" \in StreamEvents
    BY DEF StreamEvents
  <2>2. /\ ex'[t].stream[Len(ex[t].stream) + 1] = "resumed"
        /\ \A k \in Sent(t) : ex'[t].stream[k] = ex[t].stream[k]
        /\ \A k : k \in Sent(t)' <=> k \in Sent(t) \/ k = Len(ex[t].stream) + 1
    BY <1>1, <2>1, StreamGrows
  <2> QED BY <2>2 DEF StopsIn
<1>6. ex[t].pc = "publish" => ex[t].status \in {"waiting", "stopped"}
  BY <1>2, ServedHolding DEF Served
<1>7. Served(t)'
  BY <1>1, <1>2, <1>5, <1>6, ServicesUntouched, StaysServed
<1>8. Holding(t)'
  BY <1>1, <1>2 DEF Holding
<1> QED BY <1>1, <1>2, <1>4, <1>7, <1>8, OthersAfterLocal, QueueSettled DEF Delivery

\* Steps that leave every execution alone.
LEMMA AllStayServed ==
  ASSUME RunInv, Delivery, SameServices, current' = current,
         doc'.abort = doc.abort \/ current = 0 \/ services'[current].cancelled,
         doc'.status = doc.status \/ current = 0 \/ services'[current].cancelled,
         NEW t \in Tasks,
         ex'[t].pc = ex[t].pc, ex'[t].prod = ex[t].prod, ex'[t].svc = ex[t].svc,
         ex'[t].status = ex[t].status, ex'[t].stream = ex[t].stream
  PROVE  Served(t)'
<1>1. /\ (Producing(t)' <=> Producing(t)) /\ (Working(t)' <=> Working(t)) /\ (StopsIn(t)' <=> StopsIn(t))
  BY DEF Producing, Working, StopsIn, Sent
<1>2. SUFFICES ASSUME Producing(t)
      PROVE  /\ ex'[t].svc \in 1..Len(services')
             /\ Cancelled(t)' \/ (current' = ex'[t].svc /\ ~doc'.abort
                        /\ doc'.status \notin {"stopped", "interrupted"}
                        /\ ex'[t].status # "stopped" /\ ~StopsIn(t)')
             /\ Working(t)' => current' = ex'[t].svc
             /\ ex'[t].pc = "publish" => ex'[t].status \in {"waiting", "stopped"}
  BY <1>1 DEF Served
<1>3. /\ ex[t].svc \in 1..Len(services)
      /\ Cancelled(t) \/ (current = ex[t].svc /\ ~doc.abort
                        /\ doc.status \notin {"stopped", "interrupted"}
                        /\ ex[t].status # "stopped" /\ ~StopsIn(t))
      /\ Working(t) => current = ex[t].svc
      /\ ex[t].pc = "publish" => ex[t].status \in {"waiting", "stopped"}
  BY <1>2, ServedHolding DEF Served
<1>4. Cancelled(t) => Cancelled(t)'
  BY <1>3 DEF Cancelled, SameServices
<1>5. Cancelled(t)' \/ (current' = ex'[t].svc /\ ~doc'.abort
                        /\ doc'.status \notin {"stopped", "interrupted"}
                        /\ ex'[t].status # "stopped" /\ ~StopsIn(t)')
  <2>1. CASE Cancelled(t)
    BY <1>4, <2>1
  <2>2. CASE ~Cancelled(t)
    <3>1. /\ current = ex[t].svc /\ current # 0 /\ ~doc.abort
          /\ doc.status \notin {"stopped", "interrupted"} /\ ex[t].status # "stopped" /\ ~StopsIn(t)
      BY <1>3, <2>2
    <3>2. CASE services'[current].cancelled
      BY <3>1, <3>2 DEF Cancelled
    <3>3. CASE ~services'[current].cancelled
      BY <1>1, <3>1, <3>3
    <3> QED BY <3>2, <3>3
  <2> QED BY <2>1, <2>2
<1> QED BY <1>1, <1>3, <1>5 DEF SameServices

LEMMA HandoverDelivers == ASSUME RunInv, Delivery, HandoverStep PROVE Delivery'
<1>1. /\ UNCHANGED <<doc, cps, services, current>>
      /\ \A u \in Tasks :
         /\ ex'[u].pc = ex[u].pc /\ ex'[u].prod = ex[u].prod /\ ex'[u].svc = ex[u].svc
         /\ ex'[u].status = ex[u].status /\ ex'[u].stream = ex[u].stream
         /\ ex'[u].held = ex[u].held /\ (PendingTask(u)' <=> PendingTask(u))
  BY DEF HandoverStep, SameExecutions, SameLaunches
<1>2. SameServices
  BY <1>1, ServicesUntouched
<1>3. ASSUME NEW t \in Tasks PROVE Served(t)' /\ Holding(t)'
  BY <1>1, <1>2, AllStayServed, StaysHolding
<1>4. \A u \in Tasks : Carrier(u)' => Carrier(u)
  BY <1>1 DEF Carrier
<1> QED BY <1>1, <1>2, <1>3, <1>4, QueueStays, ServedHoldingNext DEF Delivery

\* A withdrawn message is neither held nor consumed.
LEMMA WithdrawalDelivers ==
  ASSUME RunInv, Delivery, UNCHANGED <<cps, task, ex, services, current>>, SameButQueue,
         \A m \in Messages :
               \/ doc'.queue[m] = doc.queue[m]
               \/ doc.queue[m] = "absent" /\ doc'.queue[m] = "pending"
               \/ /\ doc.queue[m] = "pending" /\ doc'.queue[m] = "cancelled"
                  /\ current # 0 => m \notin services[current].claimed
  PROVE  Delivery'
<1>1. SameServices
  BY ServicesUntouched
<1>2. ASSUME NEW t \in Tasks PROVE Served(t)'
  BY <1>1, AllStayServed DEF SameButQueue
<1>3. ASSUME NEW t \in Tasks PROVE Holding(t)'
  <2>1. Holding(t) /\ Served(t)
    BY ServedHolding
  <2>2. CASE ex[t].prod = "run"
    <3>1. current = ex[t].svc /\ ex[t].svc # 0
      BY <2>1, <2>2 DEF Served, Producing, Working
    <3>2. ex[t].held \subseteq Messages
      BY ProducerTypes DEF Executions
    <3>3. ASSUME NEW m \in ex[t].held
          PROVE m \in services[ex[t].svc].claimed /\ doc'.queue[m] \in {"pending", "consumed"}
      <4>1. m \in services[ex[t].svc].claimed /\ doc.queue[m] \in {"pending", "consumed"} /\ m \in Messages
        BY <2>1, <2>2, <3>2 DEF Holding
      <4> QED BY <3>1, <4>1
    <3> QED BY <2>2, <3>3 DEF Holding
  <2>3. CASE ex[t].prod # "run"
    BY <2>1, <2>3 DEF Holding
  <2> QED BY <2>2, <2>3
<1>4. ConsumedKept' /\ (Consumed(Len(cps)))' = Consumed(Len(cps)) /\ Consumed(Len(cps)) \subseteq Messages
  BY SameConsumed, ConsumedAreMessages
<1>5. QueueKept'
  <2>1. ASSUME NEW m \in Consumed(Len(cps))
        PROVE  /\ doc'.queue[m] \in {"pending", "consumed"}
               /\ doc'.queue[m] = "pending" =>
                   /\ current' # 0 /\ m \in services'[current'].claimed
                   /\ doc'.status = "running" /\ \A u \in Tasks : ~Carrier(u)'
    <3>1. /\ doc.queue[m] \in {"pending", "consumed"} /\ m \in Messages
          /\ doc.queue[m] = "pending" =>
               /\ current # 0 /\ m \in services[current].claimed
               /\ doc.status = "running" /\ \A u \in Tasks : ~Carrier(u)
      BY <1>4 DEF Delivery, QueueKept
    <3>2. doc'.queue[m] = doc.queue[m]
      BY <3>1
    <3>3. \A u \in Tasks : Carrier(u)' => Carrier(u)
      BY DEF Carrier, PendingTask
    <3> QED BY <3>1, <3>2, <3>3 DEF SameButQueue
  <2> QED BY <1>4, <2>1 DEF QueueKept
<1> QED BY <1>2, <1>3, <1>4, <1>5, ServedHoldingNext DEF Delivery

LEMMA StopDelivers ==
  ASSUME RunInv, Delivery, UNCHANGED <<cps, task, ex, current>>, doc'.queue = doc.queue,
         services' = IF current = 0 THEN services
                     ELSE [services EXCEPT ![current].cancelled = TRUE],
         doc.status = "running" => doc'.status = "running"
  PROVE  Delivery'
<1>1. SameServices /\ (current # 0 => services'[current].cancelled)
  <2>1. CASE current = 0
    BY <2>1, ServicesUntouched
  <2>2. CASE current # 0
    <3>1. current \in 1..Len(services)
      BY <2>2, ServicesTyped
    <3> QED BY <2>2, <3>1, CancelledObjects
  <2> QED BY <2>1, <2>2
<1>2. ASSUME NEW t \in Tasks PROVE Served(t)' /\ Holding(t)'
  BY <1>1, AllStayServed, StaysHolding
<1>3. \A u \in Tasks : Carrier(u)' => Carrier(u)
  BY DEF Carrier, PendingTask
<1> QED BY <1>1, <1>2, <1>3, QueueStays, ServedHoldingNext DEF Delivery

LEMMA QuietDelivers == ASSUME RunInv, Delivery, QuietStep PROVE Delivery'
<1>1. UNCHANGED <<cps, task, ex, current>>
  BY DEF QuietStep
<1>2. CASE /\ services' = services /\ SameButQueue
           /\ \A m \in Messages :
               \/ doc'.queue[m] = doc.queue[m]
               \/ doc.queue[m] = "absent" /\ doc'.queue[m] = "pending" /\ ~InboxWait(doc)
               \/ /\ doc.queue[m] = "pending" /\ doc'.queue[m] = "cancelled"
                  /\ current # 0 => m \notin services[current].claimed
  BY <1>1, <1>2, WithdrawalDelivers
<1>3. CASE /\ services' = IF current = 0 THEN services
                          ELSE [services EXCEPT ![current].cancelled = TRUE]
           /\ doc'.queue = doc.queue
           /\ doc.status = "running" => doc'.status = "running"
  BY <1>1, <1>3, StopDelivers
<1> QED BY <1>2, <1>3 DEF QuietStep

\* Steps of the consumer.
LEMMA StreamShorter ==
  ASSUME RunInv, NEW t \in Tasks, ex[t].stream # <<>>, ex'[t].stream = Tail(ex[t].stream)
  PROVE  (StopsIn(t)' => StopsIn(t)) /\ (Head(ex[t].stream) = "stopped" => StopsIn(t))
<1>1. PICK s \in Seq(StreamEvents) : s = ex[t].stream
  BY ProducerTypes
<1>2. PICK z : z = ex'[t].stream
  OBVIOUS
<1>3. /\ Head(s) = s[1] /\ Len(s) >= 1 /\ Len(s) \in Nat /\ Len(z) = Len(s) - 1
      /\ \A n \in 1..Len(z) : z[n] = s[n + 1]
  BY <1>1, <1>2, TailFacts
<1>4. \A n \in 1..Len(z) : n + 1 \in 1..Len(s)
  BY <1>3
<1>5. (\E n \in 1..Len(z) : z[n] = "stopped") => \E n \in 1..Len(s) : s[n] = "stopped"
  BY <1>3, <1>4
<1>6. s[1] = "stopped" => \E n \in 1..Len(s) : s[n] = "stopped"
  <2>1. 1 \in 1..Len(s)
    BY <1>3
  <2> QED BY <2>1
<1>7. StopsIn(t)' => \E n \in 1..Len(z) : z[n] = "stopped"
  BY <1>2 DEF StopsIn, Sent
<1>8. (\E n \in 1..Len(s) : s[n] = "stopped") => StopsIn(t)
  BY <1>1 DEF StopsIn, Sent
<1> QED BY <1>1, <1>3, <1>5, <1>6, <1>7, <1>8

LEMMA FlushDelivers == ASSUME RunInv, Delivery, NEW t \in Tasks, FlushStep(t) PROVE Delivery'
<1>1. /\ UNCHANGED <<cps, task, services, current>> /\ OthersSame(t) /\ ex[t].pc # "off"
      /\ ex'[t].pc = ex[t].pc /\ ex'[t].prod = ex[t].prod /\ ex'[t].svc = ex[t].svc
      /\ ex'[t].held = ex[t].held /\ ex'[t].status = ex[t].status /\ ex'[t].stream = ex[t].stream
      /\ doc'.status = doc.status /\ doc'.abort = doc.abort /\ doc'.queue = doc.queue
  BY DEF FlushStep, ProducerSame
<1>2. SameServices
  BY <1>1, ServicesUntouched
<1>3. Served(t)' /\ Holding(t)'
  BY <1>1, <1>2, AllStayServed, StaysHolding
<1>4. \A u \in Tasks : Carrier(u)' => Carrier(u)
  BY <1>1, SameCarriers
<1>5. ServicesKept' /\ HeldKept'
  BY <1>1, <1>3, OthersAfterLocal
<1> QED BY <1>1, <1>2, <1>4, <1>5, QueueStays DEF Delivery

LEMMA EventDelivers == ASSUME RunInv, Delivery, NEW t \in Tasks, EventStep(t) PROVE Delivery'
<1>1. /\ UNCHANGED <<doc, cps, task, services, current>> /\ OthersSame(t) /\ ex[t].pc = "run"
      /\ ex'[t].prod = ex[t].prod /\ ex'[t].svc = ex[t].svc /\ ex'[t].held = ex[t].held
      /\ ex[t].stream # <<>> /\ ex'[t].stream = Tail(ex[t].stream) /\ ex'[t].pc \in {"run", "publish"}
  BY DEF EventStep, ProducerSame
<1>2. SameServices
  BY <1>1, ServicesUntouched
<1>3. ex'[t].status = "stopped" => ex[t].status = "stopped" \/ Head(ex[t].stream) = "stopped"
  BY DEF EventStep
<1>4. ex'[t].pc = "publish" => ex'[t].status \in {"waiting", "stopped"}
  BY DEF EventStep
<1>5. (StopsIn(t)' => StopsIn(t)) /\ (Head(ex[t].stream) = "stopped" => StopsIn(t))
  BY <1>1, StreamShorter
<1>6. (Producing(t)' <=> Producing(t)) /\ (Working(t)' <=> Working(t))
  BY <1>1 DEF Producing, Working
<1>7. Served(t)'
  BY <1>1, <1>2, <1>3, <1>4, <1>5, <1>6, StaysServed
<1>8. Holding(t)'
  BY <1>1, <1>2, StaysHolding
<1>9. \A u \in Tasks : Carrier(u)' => Carrier(u)
  BY <1>1, SameCarriers
<1>10. ServicesKept' /\ HeldKept'
  BY <1>1, <1>7, <1>8, OthersAfterLocal
<1> QED BY <1>1, <1>2, <1>9, <1>10, QueueStays DEF Delivery

\* An execution without a producer moves on, and the run keeps its queue.
LEMMA LeavingDelivers ==
  ASSUME RunInv, Delivery, NEW t \in Tasks, ex[t].pc # "off", OthersSame(t),
         UNCHANGED <<cps, services, current>>, doc'.queue = doc.queue, doc'.status = doc.status,
         \A u \in Tasks : PendingTask(u)' => PendingTask(u), ex'[t].pc # "load",
         ex'[t].prod \in {"off", "ended"}, ex'[t].prod = "off" => ex'[t].held = {}
  PROVE  Delivery'
<1>1. SameServices
  BY ServicesUntouched
<1>2. Served(t)' /\ Holding(t)'
  BY NothingServed
<1>3. \A u \in Tasks : Carrier(u)' => Carrier(u)
  BY DEF Carrier, OthersSame
<1> QED BY <1>1, <1>2, <1>3, OthersAfterLocal, QueueStays DEF Delivery

LEMMA LeavingsDeliver ==
  ASSUME RunInv, Delivery, Calm', NEW t \in Tasks,
         ClosedStep(t) \/ UnrecordedStep(t) \/ EndStep(t) \/ FailStep(t)
  PROVE  Delivery'
<1>1. CASE ClosedStep(t)
  <2>1. \A u \in Tasks : PendingTask(u)' => PendingTask(u)
    BY <1>1 DEF ClosedStep, PendingTask
  <2> QED BY <1>1, <2>1, LeavingDelivers DEF ClosedStep
<1>2. CASE UnrecordedStep(t)
  <2>1. \A u \in Tasks : PendingTask(u)' => PendingTask(u)
    BY <1>2 DEF UnrecordedStep, PendingTask
  <2> QED BY <1>2, <2>1, LeavingDelivers DEF UnrecordedStep, Closing
<1>3. CASE EndStep(t)
  <2>1. \A u \in Tasks : PendingTask(u)' => PendingTask(u)
    BY <1>3 DEF EndStep, PendingTask
  <2> QED BY <1>3, <2>1, LeavingDelivers DEF EndStep
<1>4. CASE FailStep(t)
  <2>1. ex[t].pc = "load" /\ services' = services
    BY <1>4 DEF FailStep, Calm
  <2>2. \A u \in Tasks : PendingTask(u)' => PendingTask(u)
    BY <1>4 DEF FailStep, PendingTask
  <2> QED BY <1>4, <2>1, <2>2, LeavingDelivers DEF FailStep
<1> QED BY <1>1, <1>2, <1>3, <1>4

LEMMA IdleWakeDelivers == ASSUME RunInv, Delivery, NEW t \in Tasks, IdleWakeStep(t) PROVE Delivery'
<1>1. UNCHANGED <<doc, cps, task, services, current>> /\ OthersSame(t) /\ ex[t].pc # "off"
  BY DEF IdleWakeStep
<1>2. CASE ex[t].pc = "wake" /\ Moving(t, "run")
  <2>1. /\ ex'[t].pc = "run" /\ ex'[t].prod = ex[t].prod /\ ex'[t].svc = ex[t].svc
        /\ ex'[t].held = ex[t].held /\ ex'[t].status = ex[t].status /\ ex'[t].stream = ex[t].stream
    BY <1>2 DEF Moving, ProducerSame
  <2>2. SameServices
    BY <1>1, ServicesUntouched
  <2>3. /\ (Producing(t)' <=> Producing(t)) /\ (Working(t)' <=> Working(t)) /\ (StopsIn(t)' <=> StopsIn(t))
    BY <2>1 DEF Producing, Working, StopsIn, Sent
  <2>4. Served(t)' /\ Holding(t)'
    BY <1>1, <2>1, <2>2, <2>3, StaysServed, StaysHolding
  <2>5. \A u \in Tasks : Carrier(u)' => Carrier(u)
    BY <1>1, <2>1, SameCarriers
  <2>6. ServicesKept' /\ HeldKept'
    BY <1>1, <2>4, OthersAfterLocal
  <2> QED BY <1>1, <2>2, <2>5, <2>6, QueueStays DEF Delivery
<1>3. CASE Closing(t)
  <2>1. \A u \in Tasks : PendingTask(u)' => PendingTask(u)
    BY <1>1 DEF PendingTask
  <2> QED BY <1>1, <1>3, <2>1, LeavingDelivers DEF Closing
<1> QED BY <1>2, <1>3 DEF IdleWakeStep

\* A persist tells the document what its checkpoint has consumed.
LEMMA PersistDelivers == ASSUME RunInv, Line, Delivery, NEW t \in Tasks, PersistStep(t) PROVE Delivery'
<1>1. /\ UNCHANGED <<cps, task, services, current>> /\ OthersSame(t) /\ MergedInto(doc', ex[t])
      /\ ex[t].pc \in {"publish", "final", "failed"}
  BY DEF PersistStep
<1>2. ex[t].seen = Len(cps)
  BY <1>1, LineOf
<1>3. \A m \in Messages :
         IF doc.queue[m] = "pending" /\ m \in Consumed(Len(cps))
         THEN doc'.queue[m] = "consumed" ELSE doc'.queue[m] = doc.queue[m]
  BY <1>1, <1>2 DEF MergedInto
<1>4. \A m \in Consumed(Len(cps)) : doc'.queue[m] = "consumed"
  <2>1. ASSUME NEW m \in Consumed(Len(cps)) PROVE doc'.queue[m] = "consumed"
    <3>1. m \in Messages /\ doc.queue[m] \in {"pending", "consumed"}
      BY ConsumedAreMessages DEF Delivery, QueueKept
    <3> QED BY <1>3, <3>1
  <2> QED BY <2>1
<1>5. QueueKept' /\ ConsumedKept'
  BY <1>1, <1>4, QueueSettled
<1>6. Served(t)' /\ Holding(t)'
  <2>1. CASE ex[t].pc = "publish" /\ Moving(t, "wake")
    <3>1. /\ ex'[t].pc = "wake" /\ ex'[t].prod = ex[t].prod /\ ex'[t].svc = ex[t].svc
          /\ ex'[t].held = ex[t].held /\ ex'[t].status = ex[t].status /\ ex'[t].stream = ex[t].stream
      BY <2>1 DEF Moving, ProducerSame
    <3>2. \A m \in Messages : doc.queue[m] \in {"pending", "consumed"} => doc'.queue[m] \in {"pending", "consumed"}
      BY <1>3
    <3>3. Holding(t)'
      BY <1>1, <3>1, <3>2, ServicesUntouched, StaysHolding
    <3>4. (Producing(t)' <=> Producing(t)) /\ (Working(t)' <=> Working(t)) /\ (StopsIn(t)' <=> StopsIn(t))
      BY <3>1 DEF Producing, Working, StopsIn, Sent
    <3>5. Cancelled(t)' <=> Cancelled(t)
      BY <1>1, <3>1 DEF Cancelled
    <3>6. ASSUME Producing(t)
          PROVE  Cancelled(t) \/ (current = ex[t].svc /\ ~doc'.abort
                        /\ doc'.status \notin {"stopped", "interrupted"}
                        /\ ex[t].status # "stopped" /\ ~StopsIn(t))
      <4>1. SUFFICES ASSUME ~Cancelled(t)
            PROVE  /\ current = ex[t].svc /\ ~doc'.abort
                   /\ doc'.status \notin {"stopped", "interrupted"}
                   /\ ex[t].status # "stopped" /\ ~StopsIn(t)
        OBVIOUS
      <4>2. /\ current = ex[t].svc /\ ~doc.abort /\ ex[t].status # "stopped" /\ ~StopsIn(t)
            /\ ex[t].status \in {"waiting", "stopped"}
        BY <2>1, <3>6, <4>1, ServedHolding DEF Served
      <4>3. doc'.abort = doc.abort /\ (doc'.status = "running" \/ doc'.status = ex[t].status)
        BY <1>1, <4>2 DEF MergedInto
      <4> QED BY <4>2, <4>3
    <3>7. Served(t)'
      <4>1. Producing(t) => ex[t].svc \in 1..Len(services) /\ (Working(t) => current = ex[t].svc)
        BY ServedHolding DEF Served
      <4> QED BY <1>1, <3>1, <3>4, <3>5, <3>6, <4>1 DEF Served
    <3> QED BY <3>3, <3>7
  <2>2. CASE ex[t].pc = "final" /\ Moving(t, "lastWake")
    <3>1. ex[t].prod \in {"off", "ended"}
      BY <2>2, ProducerTypes DEF RunInv, OneOwner, Producing, Executions
    <3>2. ex'[t].prod = ex[t].prod /\ ex'[t].held = ex[t].held
      BY <2>2 DEF Moving, ProducerSame
    <3>3. ex[t].prod = "off" => ex[t].held = {}
      BY ServedHolding DEF Holding
    <3> QED BY <3>1, <3>2, <3>3, NothingServed
  <2>3. CASE Closing(t)
    BY <2>3, NothingServed DEF Closing
  <2> QED BY <2>1, <2>2, <2>3 DEF PersistStep
<1>7. ServicesKept' /\ HeldKept'
  BY <1>1, <1>6, OthersAfterLocal
<1> QED BY <1>5, <1>7 DEF Delivery

\* Launches, claims and restarts.
LEMMA OwnDelivers == ASSUME RunInv, Delivery, NEW t \in Tasks, OwnStep(t) PROVE Delivery'
<1>1. /\ UNCHANGED <<doc, cps, services, current>> /\ OthersSame(t) /\ task[t].st = "new" /\ owner = 0
      /\ ex'[t].prod = "off" /\ ex'[t].held = {}
  BY DEF OwnStep
<1>2. \A u \in Tasks : ex[u].pc = "off"
  <2>1. \A u \in Tasks : u # 0
    BY BoundsAssumption DEF Tasks
  <2> QED BY <1>1, <2>1 DEF RunInv, OneOwner
<1>3. ASSUME NEW u \in Tasks PROVE Served(u)' /\ Holding(u)'
  <2>1. CASE u = t
    BY <1>1, <2>1, NothingServed
  <2>2. CASE u # t
    <3>1. ex'[u] = ex[u] /\ ex[u].prod = "off"
      BY <1>1, <1>2, <2>2 DEF OthersSame, RunInv, OffersQueued
    <3>2. ex[u].held = {}
      BY <3>1, ServedHolding DEF Holding
    <3> QED BY <3>1, <3>2, NothingServed
  <2> QED BY <2>1, <2>2
<1>4. Carrier(t)
  BY <1>1 DEF Carrier, PendingTask
<1>5. \A m \in Consumed(Len(cps)) : doc'.queue[m] = "consumed"
  BY <1>1, <1>4, NothingExpected
<1> QED BY <1>1, <1>3, <1>5, QueueSettled, ServedHoldingNext DEF Delivery

LEMMA LoadDelivers == ASSUME RunInv, Line, Delivery, NEW t \in Tasks, LoadStep(t) PROVE Delivery'
<1>1. /\ UNCHANGED <<doc, cps>> /\ OthersSame(t) /\ ex[t].pc = "load"
      /\ ex'[t].pc = "run" /\ ex'[t].prod = "run" /\ ex'[t].status = doc.status
      /\ ex'[t].svc = current' /\ ex'[t].held = ex[t].held
      /\ ex'[t].stream = IF task[t].resume = 0 THEN <<>> ELSE <<"resumed">>
      /\ current' \in 1..Len(services') /\ (services'[current'].cancelled \/ ~doc.abort)
  BY DEF LoadStep
<1>2. Carrier(t)
  BY <1>1 DEF Carrier
<1>3. doc.status = "running"
  BY <1>2 DEF Line, CarrierKept
<1>4. \A m \in Consumed(Len(cps)) : doc'.queue[m] = "consumed"
  BY <1>1, <1>2, NothingExpected
<1>5. Holding(t)'
  <2>1. ex[t].prod = "off"
    BY <1>1 DEF RunInv, OneOwner
  <2>2. ex'[t].held = {}
    BY <1>1, <2>1, ServedHolding DEF Holding
  <2> QED BY <2>2 DEF Holding
<1>6. ~StopsIn(t)'
  <2>1. \A n \in Sent(t)' : ex'[t].stream[n] = "resumed"
    BY <1>1 DEF Sent
  <2> QED BY <2>1 DEF StopsIn
<1>7. Served(t)'
  <2>1. Cancelled(t)' <=> services'[current'].cancelled
    BY <1>1 DEF Cancelled
  <2> QED BY <1>1, <1>3, <1>6, <2>1 DEF Served
<1> QED BY <1>1, <1>4, <1>5, <1>7, OthersAfterLocal, QueueSettled DEF Delivery

LEMMA ClaimedDelivers ==
  ASSUME RunInv, Line, Delivery, NEW f \in Tasks, NEW input \in Nat, ClaimedStep(f, input) PROVE Delivery'
<1>1. /\ UNCHANGED <<cps, services>> /\ doc.status # "running"
      /\ doc'.status = "running" /\ doc'.abort = FALSE
      /\ \A m \in Messages : \/ doc'.queue[m] = doc.queue[m]
                             \/ doc.queue[m] = "absent" /\ doc'.queue[m] = "pending"
      /\ current' = IF doc.status \in {"stopped", "interrupted"} THEN 0 ELSE current
      /\ ex' = ex \/ \E t \in Tasks : OthersSame(t) /\ WakeMoves(t)
  BY DEF ClaimedStep
<1>2. \A u \in Tasks : ~Working(u)
  BY <1>1 DEF Line, FrontKept
<1>3. ASSUME NEW u \in Tasks PROVE Served(u)' /\ Holding(u)'
  <2>1. CASE /\ ex'[u].prod = ex[u].prod /\ ex'[u].svc = ex[u].svc /\ ex'[u].held = ex[u].held
             /\ ex'[u].status = ex[u].status /\ ex'[u].stream = ex[u].stream
             /\ ex'[u].pc = ex[u].pc \/ ex'[u].pc = "run"
    <3>1. /\ (Producing(u)' <=> Producing(u)) /\ ~Working(u)' /\ (StopsIn(u)' <=> StopsIn(u))
          /\ (Cancelled(u)' <=> Cancelled(u))
      BY <1>1, <1>2, <2>1 DEF Producing, Working, StopsIn, Sent, Cancelled
    <3>2. Served(u) /\ Holding(u)
      BY ServedHolding
    <3>3. Holding(u)'
      BY <1>2, <2>1, <3>2 DEF Holding, Working
    <3>4. Served(u)'
      BY <1>1, <2>1, <3>1, <3>2 DEF Served
    <3> QED BY <3>3, <3>4
  <2>2. CASE Closing(u)
    BY <2>2, NothingServed DEF Closing
  <2>3. CASE ex'[u] = ex[u]
    BY <2>1, <2>3
  <2>4. CASE Moving(u, "run")
    BY <2>1, <2>4 DEF Moving, ProducerSame
  <2> QED BY <1>1, <2>2, <2>3, <2>4 DEF OthersSame, WakeMoves
<1>4. \A m \in Consumed(Len(cps)) : doc'.queue[m] = "consumed"
  <2>1. \A m \in Consumed(Len(cps)) : m \in Messages /\ doc.queue[m] = "consumed"
    BY <1>1, NothingExpected, ConsumedAreMessages
  <2> QED BY <1>1, <2>1
<1> QED BY <1>1, <1>3, <1>4, QueueSettled, ServedHoldingNext DEF Delivery

LEMMA RestartDelivers == ASSUME RunInv, Delivery, RestartStep PROVE Delivery'
<1>1. /\ cps' = cps /\ RecoveredInto(doc')
      /\ \A u \in Tasks : ex'[u].prod = "off" /\ ex'[u].held = {}
  BY DEF RestartStep
<1>2. \A u \in Tasks : Served(u)' /\ Holding(u)'
  BY <1>1, NothingServed
<1>3. \A m \in Consumed(Len(cps)) : m \in Messages /\ doc.queue[m] \in {"pending", "consumed"}
  BY ConsumedAreMessages DEF Delivery, QueueKept
<1>4. CASE doc.status # "running" /\ doc'.queue = doc.queue
  BY <1>1, <1>2, <1>4, NothingExpected, QueueSettled, ServedHoldingNext DEF Delivery
<1>5. CASE \A m \in Messages : IF doc.queue[m] = "pending" /\ m \in Consumed(Len(cps))
                               THEN doc'.queue[m] = "consumed" ELSE doc'.queue[m] = doc.queue[m]
  <2>1. \A m \in Consumed(Len(cps)) : doc'.queue[m] = "consumed"
    BY <1>3, <1>5
  <2> QED BY <1>1, <1>2, <2>1, QueueSettled, ServedHoldingNext DEF Delivery
<1> QED BY <1>1, <1>4, <1>5 DEF RecoveredInto

LEMMA MessagesKept ==
  ASSUME RunInv, WaitInv, LineInv, MessageInv, [Next]_vars PROVE MessageInv'
<1>1. SUFFICES ASSUME Calm' PROVE Delivery'
  BY DEF MessageInv, Delivery
<1>2. Line /\ Delivery
  BY <1>1, DisturbedForGood DEF LineInv, Line, MessageInv, Delivery
<1>3. ASSUME NEW t \in Tasks, ProducerMoves(t) PROVE Delivery'
  BY <1>2, <1>3, ClaimDelivers, EmptyDelivers, EndingDelivers, CommitDelivers, ResumedDelivers
     DEF ProducerMoves
<1>4. ASSUME NEW t \in Tasks, ConsumerMoves(t) PROVE Delivery'
  BY <1>1, <1>2, <1>4, FlushDelivers, EventDelivers, PersistDelivers, IdleWakeDelivers, LeavingsDeliver
     DEF ConsumerMoves
<1>5. ASSUME NEW t \in Tasks, LaunchMoves(t) PROVE Delivery'
  BY <1>1, <1>2, <1>5, OwnDelivers, LoadDelivers, LeavingsDeliver DEF LaunchMoves
<1> QED BY <1>2, <1>3, <1>4, <1>5, Steps, QuietDelivers, HandoverDelivers, RestartDelivers,
           ClaimedDelivers

LEMMA InitMessages == ASSUME Init PROVE MessageInv
<1>1. cps = <<>> /\ Len(cps) = 0 /\ \A u \in Tasks : ex[u] = NoExecution
  BY DEF Init
<1>2. \A u \in Tasks : ex[u].prod = "off" /\ ex[u].held = {}
  BY <1>1 DEF NoExecution
<1>3. Consumed(Len(cps)) = {}
  BY <1>1 DEF Consumed
<1>4. QueueKept
  BY <1>3 DEF QueueKept
<1>5. ConsumedKept
  <2>1. \A i, j \in 0..Len(cps) : i = j
    BY <1>1
  <2>2. ASSUME NEW i \in 0..Len(cps), NEW j \in 0..Len(cps)
        PROVE  StateConsumed(i) \subseteq StateConsumed(j)
    BY <2>1
  <2> QED BY <2>2 DEF ConsumedKept
<1>6. ServicesKept /\ HeldKept
  BY <1>2 DEF ServicesKept, HeldKept, Producing
<1> QED BY <1>4, <1>5, <1>6 DEF MessageInv

\* While nothing disturbs the run: what a node holds is claimed where a withdrawal
\* looks, and a message in the graph state is consumed in the document, or still
\* claimed by the services of the running execution that will say so.
THEOREM MessageInvariant == Spec => []MessageInv
<1>1. Init => RunInv /\ WaitInv /\ LineInv /\ MessageInv
  BY InitEstablishes, InitWaits, InitLine, InitMessages
<1>2. RunInv /\ WaitInv /\ LineInv /\ MessageInv /\ [Next]_vars =>
        RunInv' /\ WaitInv' /\ LineInv' /\ MessageInv'
  BY NextKeeps, WaitKept, LineKept, MessagesKept
<1> QED BY <1>1, <1>2, PTL DEF Spec

LEMMA SettledMessages == ASSUME RunInv, WaitInv, LineInv, MessageInv PROVE MessagesSettled
<1>1. NoLostWakeup
  <2>1. ASSUME Quiescent PROVE owner = 0
    <3>1. owner \in 0..MaxTasks
      BY DEF RunInv, RunTypeOK, Shapes
    <3>2. owner = 0 \/ owner \in Tasks
      BY <3>1, BoundsAssumption DEF Tasks
    <3>3. \A t \in Tasks : task[t].st # "owner"
      BY <2>1 DEF Quiescent
    <3> QED BY <3>2, <3>3 DEF RunInv, OneOwner
  <2> QED BY <2>1 DEF WaitInv, InboxSwept, Unattended, NoLostWakeup
<1>2. ASSUME Undisturbed, NEW m \in Messages
      PROVE  /\ Cardinality({k \in 1..Len(cps) :
                   m \in cps[k].consumed \ StateConsumed(cps[k].from)}) <= 1
             /\ doc.queue[m] = "cancelled" => m \notin Consumed(Len(cps))
  <2>1. Delivery /\ Line
    BY <1>2, UndisturbedIsCalm DEF MessageInv, Delivery, Undisturbed, Calm
  <2>2. doc.queue[m] = "cancelled" => m \notin Consumed(Len(cps))
    BY <2>1 DEF Delivery, QueueKept
  <2>3. PICK S : S = {k \in 1..Len(cps) : m \in cps[k].consumed \ StateConsumed(cps[k].from)}
    OBVIOUS
  <2>4. \A k \in S : /\ k \in 1..Len(cps) /\ cps[k].from = k - 1
                     /\ m \in cps[k].consumed /\ m \notin StateConsumed(cps[k].from)
    BY <2>1, <2>3 DEF Line, HistoryKept
  <2>5. ASSUME NEW j \in S, NEW k \in S, j < k PROVE FALSE
    <3>1. Len(cps) \in Nat
      BY StateStart
    <3>2. j \in 0..Len(cps) /\ k - 1 \in 0..Len(cps) /\ j <= k - 1 /\ j # 0
      BY <2>4, <2>5, <3>1
    <3>3. StateConsumed(j) \subseteq StateConsumed(k - 1)
      BY <2>1, <3>2 DEF Delivery, ConsumedKept
    <3>4. m \in StateConsumed(j)
      BY <2>4, <3>2 DEF StateConsumed
    <3>5. m \notin StateConsumed(k - 1)
      BY <2>4
    <3> QED BY <3>3, <3>4, <3>5
  <2>6. \A j, k \in S : j = k
    <3>1. Len(cps) \in Nat
      BY StateStart
    <3>2. \A j, k \in S : j \in Int /\ k \in Int
      BY <2>4, <3>1
    <3> QED BY <2>5, <3>2
  <2> QED BY <2>2, <2>3, <2>6, AtMostOne
<1> QED BY <1>1, <1>2 DEF MessagesSettled, DeliveredOnce

\* Every accepted message is delivered at one checkpoint at most, never after its
\* sender was told that it is cancelled, and no idle inbox sits on one.
THEOREM MessagesAlwaysSettle == Spec => []MessagesSettled
<1>1. RunInv /\ WaitInv /\ LineInv /\ MessageInv => MessagesSettled
  BY SettledMessages
<1>2. Spec => []RunInv
  <2>1. Init => RunInv
    BY InitEstablishes
  <2>2. RunInv /\ [Next]_vars => RunInv'
    BY NextKeeps
  <2> QED BY <2>1, <2>2, PTL DEF Spec
<1> QED BY <1>1, <1>2, WaitInvariant, LineInvariant, MessageInvariant, PTL
=============================================================================
