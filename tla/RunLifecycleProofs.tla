------------------------- MODULE RunLifecycleProofs -------------------------
(***************************************************************************)
(* For every number of launches, checkpoints, messages, restarts and       *)
(* failures: the references of a run name something that exists, a run     *)
(* recorded as running has a launch that will settle it, and a run that    *)
(* was to stop is not shown waiting for its user.                          *)
(***************************************************************************)
EXTENDS RunLifecycle, WellFoundedInduction, TLAPS

-----------------------------------------------------------------------------
(* Sequences and the numbers of tasks. *)

LEMMA AppendFacts ==
  ASSUME NEW S, NEW s \in Seq(S), NEW x \in S
  PROVE  /\ Append(s, x) \in Seq(S) /\ Len(Append(s, x)) = Len(s) + 1
         /\ Append(s, x)[Len(s) + 1] = x
         /\ \A k \in 1..Len(s) : Append(s, x)[k] = s[k]
         /\ Append(s, x) # <<>>
  OBVIOUS

LEMMA AppendLast ==
  ASSUME NEW S, NEW s \in Seq(S), NEW x \in S
  PROVE  Append(s, x) \in Seq(S) /\ Append(s, x) # <<>> /\ Append(s, x)[Len(Append(s, x))] = x
  OBVIOUS

LEMMA NotEmpty == ASSUME NEW S, NEW s \in Seq(S), s # <<>> PROVE Len(s) \in Nat \ {0}
  OBVIOUS

LEMMA TailFacts ==
  ASSUME NEW S, NEW s \in Seq(S), s # <<>>
  PROVE  /\ Head(s) \in S /\ Head(s) = s[1] /\ Len(s) >= 1
         /\ Tail(s) \in Seq(S) /\ Len(Tail(s)) = Len(s) - 1
         /\ Tail(s) = <<>> <=> Len(s) = 1
         /\ \A k \in 1..Len(Tail(s)) : Tail(s)[k] = s[k + 1]
<1>1. Len(s) \in Nat \ {0}
  OBVIOUS
<1>2. Head(s) = s[1] /\ s[1] \in S
  BY <1>1
<1>3. Tail(s) \in Seq(S) /\ Len(Tail(s)) = Len(s) - 1
  BY <1>1
<1>4. Tail(s) = <<>> <=> Len(s) = 1
  <2>0. Len(<<>>) = 0
    OBVIOUS
  <2>1. Tail(s) = <<>> => Len(Tail(s)) = 0
    BY <2>0, Zenon
  <2>2. Tail(s) # <<>> => Len(Tail(s)) \in Nat \ {0}
    BY <1>3, NotEmpty
  <2> QED BY <1>1, <1>3, <2>1, <2>2
<1>5. \A k \in 1..Len(Tail(s)) : Tail(s)[k] = s[k + 1]
  BY <1>1, <1>3
<1> QED BY <1>1, <1>2, <1>3, <1>4, <1>5

ServiceObjects == [cancelled : BOOLEAN, claimed : SUBSET Messages]

LEMMA ServicesCancelled ==
  ASSUME services \in Seq(ServiceObjects), NEW i, NEW c \in BOOLEAN
  PROVE  /\ [services EXCEPT ![i].cancelled = c] \in Seq(ServiceObjects)
         /\ Len([services EXCEPT ![i].cancelled = c]) = Len(services)
<1> DEFINE s == [services EXCEPT ![i].cancelled = c]
<1>1. DOMAIN s = 1..Len(services) /\ Len(services) \in Nat
  OBVIOUS
<1>2. ASSUME NEW k \in 1..Len(services) PROVE s[k] \in ServiceObjects
  <2>1. services[k] \in ServiceObjects
    OBVIOUS
  <2>2. s[k] = services[k] \/ s[k] = [services[k] EXCEPT !.cancelled = c]
    BY <1>1
  <2> HIDE DEF s
  <2> QED BY <2>1, <2>2 DEF ServiceObjects
<1>3. s \in [1..Len(services) -> ServiceObjects]
  BY <1>1, <1>2
<1> QED BY <1>1, <1>3

LEMMA ServicesClaimed ==
  ASSUME services \in Seq(ServiceObjects), NEW i, NEW m \in Messages
  PROVE  /\ [services EXCEPT ![i].claimed = @ \union {m}] \in Seq(ServiceObjects)
         /\ Len([services EXCEPT ![i].claimed = @ \union {m}]) = Len(services)
<1> DEFINE s == [services EXCEPT ![i].claimed = @ \union {m}]
<1>1. DOMAIN s = 1..Len(services) /\ Len(services) \in Nat
  OBVIOUS
<1>2. ASSUME NEW k \in 1..Len(services) PROVE s[k] \in ServiceObjects
  <2>1. services[k] \in ServiceObjects
    OBVIOUS
  <2>2. s[k] = services[k] \/ s[k] = [services[k] EXCEPT !.claimed = @ \union {m}]
    BY <1>1
  <2> HIDE DEF s
  <2> QED BY <2>1, <2>2 DEF ServiceObjects
<1>3. s \in [1..Len(services) -> ServiceObjects]
  BY <1>1, <1>2
<1> QED BY <1>1, <1>3

\* There is a first task that has not been used.
LEMMA FreeTaskFacts ==
  ASSUME CanLaunch
  PROVE  /\ FreeTask \in Tasks /\ task[FreeTask].st = "none"
         /\ \A u \in 1..(FreeTask - 1) : task[u].st # "none"
<1> DEFINE T == {t \in Tasks : task[t].st = "none"}
<1>1. T \subseteq Nat /\ T # {}
  BY BoundsAssumption DEF CanLaunch, Tasks
<1> HIDE DEF T
<1>2. \E x \in T : \A y \in T : ~(<<y, x>> \in OpToRel(<, Nat))
  BY <1>1, WFMin, NatLessThanWellFounded
<1>3. PICK x \in T : \A y \in T : ~(y < x)
  BY <1>1, <1>2 DEF OpToRel
<1>4. x \in Tasks /\ task[x].st = "none" /\ \A u \in 1..(x - 1) : task[u].st # "none"
  <2>1. x \in Tasks /\ task[x].st = "none"
    BY DEF T
  <2>2. ASSUME NEW u \in 1..(x - 1), task[u].st = "none" PROVE FALSE
    <3>1. u \in Tasks /\ u < x
      BY <2>1, BoundsAssumption DEF Tasks
    <3>2. u \in T
      BY <3>1, <2>2 DEF T
    <3> QED BY <1>3, <3>1, <3>2
  <2> QED BY <2>1, <2>2
<1> QED BY <1>4 DEF FreeTask

-----------------------------------------------------------------------------
(* The producer.  Whatever it does, it touches its own execution, appends   *)
(* checkpoints, and says last what the run became when it stops.            *)

ProducerEffect(t) ==
    /\ UNCHANGED producerVars
    /\ ex' \in [Tasks -> Executions] /\ \A u \in Tasks \ {t} : ex'[u] = ex[u]
    /\ ex'[t].pc = ex[t].pc /\ ex'[t].status = ex[t].status /\ ex'[t].seen = ex[t].seen
    /\ ex'[t].wait = ex[t].wait /\ ex'[t].claim = ex[t].claim /\ ex'[t].svc = ex[t].svc
    /\ ex'[t].failed = ex[t].failed
    /\ cps' \in Seq(Checkpoints) /\ Len(cps) <= Len(cps')
    /\ \A k \in 1..Len(cps') :
         cps'[k].from < k /\ cps'[k].input <= inputs /\ cps'[k].inputs \subseteq 1..inputs
    /\ services' \in Seq(ServiceObjects) /\ Len(services') = Len(services)
    /\ ex'[t].at <= Len(cps') /\ ex'[t].input <= inputs
    /\ Producing(t) \/ ex'[t].prod = ex[t].prod
    /\ \/ ex'[t].inbox = ex[t].inbox
       \/ ex[t].inbox # <<>> /\ ex'[t].inbox = Tail(ex[t].inbox)
    /\ \/ ex'[t].at = ex[t].at /\ (ex'[t].prod = "parked" => ex[t].prod = "parked")
       \/ ex'[t].at = Len(cps) + 1
    /\ ex'[t].prod \in {"parked", "draining", "ended"} =>
         \/ ex'[t].stream = ex[t].stream /\ ex[t].prod \in {"parked", "draining", "ended"}
         \/ ex'[t].stream # <<>> /\ ex'[t].stream[Len(ex'[t].stream)] # "resumed"

\* Without its first resume a channel still has every other one once.
LEMMA TailOffered ==
  ASSUME RunInv, NEW u \in Tasks, ex[u].prod # "ended", ex[u].inbox # <<>>
  PROVE  \A n \in 1..Len(Tail(ex[u].inbox)) :
           /\ task[Tail(ex[u].inbox)[n]].st = "offered" /\ task[Tail(ex[u].inbox)[n]].target = u
           /\ Tail(ex[u].inbox)[n] # Head(ex[u].inbox)
           /\ \A m \in 1..Len(Tail(ex[u].inbox)) :
                Tail(ex[u].inbox)[m] = Tail(ex[u].inbox)[n] => m = n
<1> DEFINE s == ex[u].inbox
<1>1. s \in Seq(Tasks)
  BY DEF RunInv, RunTypeOK, Shapes, Executions
<1>2. \A n \in 1..Len(s) : /\ task[s[n]].st = "offered" /\ task[s[n]].target = u
                          /\ \A m \in 1..Len(s) : s[m] = s[n] => m = n
  BY DEF RunInv, OffersQueued
<1> HIDE DEF s
<1>3. s # <<>>
  BY DEF s
<1>4. /\ Head(s) = s[1] /\ Len(s) \in Nat /\ Len(s) >= 1 /\ Len(Tail(s)) = Len(s) - 1
      /\ \A k \in 1..Len(Tail(s)) : Tail(s)[k] = s[k + 1]
  BY <1>1, <1>3, TailFacts
<1>5. \A n \in 1..Len(Tail(s)) :
        /\ task[Tail(s)[n]].st = "offered" /\ task[Tail(s)[n]].target = u
        /\ Tail(s)[n] # Head(s)
        /\ \A m \in 1..Len(Tail(s)) : Tail(s)[m] = Tail(s)[n] => m = n
  BY <1>2, <1>4
<1> QED BY <1>5 DEF s

LEMMA ProducerKeeps ==
  ASSUME RunInv, NEW t \in Tasks, ProducerEffect(t)
  PROVE  RunInv'
<1> USE DEF RunInv
<1>1. UNCHANGED <<doc, task, owner, current, closed, restarts, faults, waits, oldWaits,
                  answered, inputs, incidents>>
  BY DEF ProducerEffect, producerVars
<1>2. \A u \in Tasks \ {t} : ex'[u] = ex[u]
  BY DEF ProducerEffect
<1>3. /\ ex'[t].pc = ex[t].pc /\ ex'[t].status = ex[t].status /\ ex'[t].seen = ex[t].seen
      /\ ex'[t].wait = ex[t].wait /\ ex'[t].claim = ex[t].claim /\ ex'[t].svc = ex[t].svc
      /\ ex'[t].failed = ex[t].failed
      /\ Producing(t) \/ ex'[t].prod = ex[t].prod
  BY DEF ProducerEffect
<1>4. Len(cps) \in Nat /\ Len(cps') \in Nat /\ Len(cps) <= Len(cps') /\ Len(services') = Len(services)
  BY DEF ProducerEffect, RunTypeOK, Shapes
<1>5. RunTypeOK'
  <2>1. Shapes'
    BY <1>1 DEF ProducerEffect, RunTypeOK, Shapes, ServiceObjects
  <2>2. \A k \in 1..Len(cps') :
         cps'[k].from < k /\ cps'[k].input <= inputs' /\ cps'[k].inputs \subseteq 1..inputs'
    BY <1>1 DEF ProducerEffect
  <2>3. /\ doc'.wait.id <= waits' /\ doc'.resumeInput <= inputs'
        /\ current' <= Len(services') /\ answered' \subseteq 1..waits' /\ oldWaits' <= waits'
    BY <1>1, <1>4 DEF RunTypeOK
  <2>4. doc'.checkpoint <= Len(cps') /\ doc'.resumeCheckpoint <= Len(cps')
    BY <1>1, <1>4 DEF RunTypeOK, Shapes, Documents
  <2>5. ASSUME NEW u \in Tasks
        PROVE  /\ task'[u].resume <= Len(cps') /\ task'[u].input <= inputs'
               /\ task'[u].claim \in {0, u}
    BY SMTT(60), <1>1, <1>4 DEF RunTypeOK, Shapes, Launches
  <2>6. ASSUME NEW u \in Tasks
        PROVE  /\ ex'[u].at <= Len(cps') /\ ex'[u].seen <= Len(cps') /\ ex'[u].input <= inputs'
               /\ ex'[u].wait.id <= waits' /\ ex'[u].svc <= Len(services')
    <3>1. /\ ex[u].at <= Len(cps) /\ ex[u].seen <= Len(cps) /\ ex[u].input <= inputs
          /\ ex[u].wait.id <= waits /\ ex[u].svc <= Len(services)
          /\ ex[u].at \in Nat /\ ex[u].seen \in Nat
      BY DEF RunTypeOK, Shapes, Executions
    <3>2. CASE u = t
      BY <3>1, <3>2, <1>1, <1>3, <1>4 DEF ProducerEffect
    <3>3. CASE u # t
      BY <3>1, <3>3, <1>1, <1>2, <1>4
    <3> QED BY <3>2, <3>3
  <2> HIDE DEF RunInv
  <2> QED BY <2>1, <2>2, <2>3, <2>4, <2>5, <2>6 DEF RunTypeOK
<1>6. OneOwner'
  BY <1>1, <1>2, <1>3 DEF OneOwner, Producing, ProducerEffect
<1>7. ClaimsInOrder'
  BY <1>1, <1>2, <1>3 DEF ClaimsInOrder
<1>8. CheckpointsForward'
  BY <1>1, <1>2, <1>3 DEF CheckpointsForward
<1>9. EarlierClaimsPassed'
  <2> SUFFICES ASSUME NEW o \in Tasks, NEW r \in Tasks,
                      (Producing(o) /\ task[r].claim < ex[o].claim)'
               PROVE  /\ task'[r].resume <= ex'[o].at
                      /\ ex'[o].prod = "parked" => task'[r].resume < ex'[o].at
    BY DEF EarlierClaimsPassed
  <2>1. task[r].claim < ex[o].claim
    BY <1>1, <1>2, <1>3
  <2>2. task[r].resume \in Nat /\ task[r].resume <= Len(cps)
    BY DEF RunTypeOK, Shapes, Launches
  <2>3. CASE o = t /\ ex'[t].at = Len(cps) + 1
    BY <2>2, <2>3, <1>1, <1>4
  <2>4. CASE o # t \/ ex'[t].at # Len(cps) + 1
    <3>1. ex'[o].at = ex[o].at /\ (ex'[o].prod = "parked" => ex[o].prod = "parked")
      BY <2>4, <1>2 DEF ProducerEffect
    <3>2. Producing(o)
      BY <2>4, <1>2, <1>3 DEF Producing
    <3> QED BY <2>1, <3>1, <3>2, <1>1 DEF EarlierClaimsPassed
  <2> QED BY <2>3, <2>4
<1>10. StreamSettles'
  BY <1>2, <1>3 DEF StreamSettles, ProducerEffect
<1>11. RunningIsClaimed'
  <2>1. ASSUME NEW u \in Tasks PROVE (ToLaunch(u)' <=> ToLaunch(u)) /\ (InExecution(u)' <=> InExecution(u))
    BY <1>1, <1>2, <1>3 DEF ToLaunch, InExecution, ClaimOf, PendingTask
  <2> QED BY <2>1, <1>1 DEF RunningIsClaimed
<1>12. OffersQueued'
  <2>1. ASSUME NEW u \in Tasks
        PROVE  /\ (ex[u].pc = "off" => ex[u].inbox = <<>> /\ ex[u].prod = "off")'
               /\ (ex[u].prod # "ended")' => ex[u].prod # "ended"
    BY <1>2, <1>3 DEF OffersQueued, OneOwner, Producing, ProducerEffect
  <2>2. ASSUME NEW u \in Tasks, ex'[u].prod # "ended", ex'[u].inbox = ex[u].inbox
        PROVE  \A n \in 1..Len(ex'[u].inbox) :
                 /\ task'[ex'[u].inbox[n]].st = "offered" /\ task'[ex'[u].inbox[n]].target = u
                 /\ \A m \in 1..Len(ex'[u].inbox) : ex'[u].inbox[m] = ex'[u].inbox[n] => m = n
    BY <2>1, <2>2, <1>1 DEF OffersQueued
  <2>3. ASSUME NEW u \in Tasks, ex'[u].prod # "ended", ex[u].inbox # <<>>,
               ex'[u].inbox = Tail(ex[u].inbox)
        PROVE  \A n \in 1..Len(ex'[u].inbox) :
                 /\ task'[ex'[u].inbox[n]].st = "offered" /\ task'[ex'[u].inbox[n]].target = u
                 /\ \A m \in 1..Len(ex'[u].inbox) : ex'[u].inbox[m] = ex'[u].inbox[n] => m = n
    <3>1. ex[u].prod # "ended"
      BY <2>1, <2>3
    <3>2. PICK z : z = Tail(ex[u].inbox)
      OBVIOUS
    <3>3. \A n \in 1..Len(z) : /\ task[z[n]].st = "offered" /\ task[z[n]].target = u
                              /\ \A m \in 1..Len(z) : z[m] = z[n] => m = n
      BY <2>3, <3>1, <3>2, TailOffered
    <3>4. ex'[u].inbox = z
      BY <2>3, <3>2
    <3> QED BY <3>3, <3>4, <1>1
  <2>4. \A u \in Tasks : \/ ex'[u].inbox = ex[u].inbox
                         \/ ex[u].inbox # <<>> /\ ex'[u].inbox = Tail(ex[u].inbox)
    BY <1>2 DEF ProducerEffect
  <2> QED BY <2>1, <2>2, <2>3, <2>4 DEF OffersQueued
<1>13. WaitsNamed'
  BY <1>1, <1>2, <1>3 DEF WaitsNamed
<1> QED BY <1>5, <1>6, <1>7, <1>8, <1>9, <1>10, <1>11, <1>12, <1>13

CommitEffect(t, f) ==
    /\ cps' \in Seq(Checkpoints) /\ Len(cps') = Len(cps) + 1
    /\ \A k \in 1..Len(cps') :
         cps'[k].from < k /\ cps'[k].input <= inputs /\ cps'[k].inputs \subseteq 1..inputs
    /\ ex' \in [Tasks -> Executions] /\ \A u \in Tasks \ {t} : ex'[u] = ex[u]
    /\ ex'[t].at = Len(cps) + 1 /\ ex'[t].input = 0
    /\ ex'[t].pc = f.pc /\ ex'[t].prod = f.prod /\ ex'[t].status = f.status
    /\ ex'[t].seen = f.seen /\ ex'[t].wait = f.wait /\ ex'[t].claim = f.claim
    /\ ex'[t].svc = f.svc /\ ex'[t].failed = f.failed /\ ex'[t].stream = f.stream
    /\ ex'[t].inbox = f.inbox

\* A commit continues the execution's own checkpoint with what it holds.
LEMMA CommitFacts ==
  ASSUME RunTypeOK, NEW t \in Tasks, NEW f \in Executions, Commit(t, f)
  PROVE  CommitEffect(t, f)
<1>1. /\ ex[t] \in Executions /\ cps \in Seq(Checkpoints) /\ Len(cps) \in Nat /\ inputs \in Nat
      /\ ex \in [Tasks -> Executions]
  BY DEF RunTypeOK, Shapes
<1>2. /\ ex[t].at \in Nat /\ ex[t].at <= Len(cps) /\ ex[t].input \in Nat /\ ex[t].input <= inputs
      /\ ex[t].held \in SUBSET Messages
  BY <1>1 DEF RunTypeOK, Executions
<1>3. StateConsumed(ex[t].at) \subseteq Messages
  <2>1. ex[t].at # 0 => cps[ex[t].at] \in Checkpoints
    BY <1>1, <1>2
  <2> QED BY <2>1 DEF StateConsumed, Checkpoints
<1>4. StateInputs(ex[t].at) \subseteq 1..inputs
  <2>1. CASE ex[t].at = 0
    BY <2>1 DEF StateInputs
  <2>2. CASE ex[t].at # 0
    BY <2>2, <1>1, <1>2 DEF StateInputs, RunTypeOK
  <2> QED BY <2>1, <2>2
<1>5. PICK c : /\ c = [from |-> ex[t].at, consumed |-> StateConsumed(ex[t].at) \union ex[t].held,
                      input |-> ex[t].input,
                      inputs |-> StateInputs(ex[t].at) \union ({ex[t].input} \ {0})]
              /\ cps' = Append(cps, c)
  BY DEF Commit
<1>6. c.inputs \subseteq 1..inputs /\ c.from <= Len(cps) /\ c.input <= inputs
  BY <1>2, <1>4, <1>5, <1>1
<1>7. c \in Checkpoints
  <2>1. c.inputs \in SUBSET Nat
    BY <1>6, <1>1
  <2> QED BY <1>2, <1>3, <1>5, <2>1 DEF Checkpoints
<1>8. /\ cps' \in Seq(Checkpoints) /\ Len(cps') = Len(cps) + 1 /\ cps'[Len(cps) + 1] = c
      /\ \A k \in 1..Len(cps) : cps'[k] = cps[k]
  BY <1>1, <1>5, <1>7, AppendFacts
<1>9. ASSUME NEW k \in 1..Len(cps')
      PROVE  cps'[k].from < k /\ cps'[k].input <= inputs /\ cps'[k].inputs \subseteq 1..inputs
  <2>1. CASE k = Len(cps) + 1
    BY <2>1, <1>1, <1>2, <1>5, <1>6, <1>8
  <2>2. CASE k # Len(cps) + 1
    <3>1. k \in 1..Len(cps)
      BY <2>2, <1>1, <1>8
    <3> QED BY <3>1, <1>8 DEF RunTypeOK
  <2> QED BY <2>1, <2>2
<1>10. PICK g : g = [f EXCEPT !.at = Len(cps) + 1, !.held = {}, !.input = 0]
                /\ ex' = [ex EXCEPT ![t] = g]
  BY DEF Commit
<1>11. g \in Executions
  <2>1. PICK n \in Nat : n = Len(cps) + 1
    BY <1>1
  <2>2. PICK h \in SUBSET Messages : h = {}
    OBVIOUS
  <2>3. g = [f EXCEPT !.at = n, !.held = h, !.input = 0]
    BY <1>10, <2>1, <2>2
  <2> QED BY <2>3 DEF Executions
<1>12. /\ g.at = Len(cps) + 1 /\ g.input = 0 /\ g.pc = f.pc /\ g.prod = f.prod /\ g.status = f.status
       /\ g.seen = f.seen /\ g.wait = f.wait /\ g.claim = f.claim
       /\ g.svc = f.svc /\ g.failed = f.failed /\ g.stream = f.stream /\ g.inbox = f.inbox
  BY <1>10 DEF Executions
<1>13. ex' \in [Tasks -> Executions] /\ (\A u \in Tasks \ {t} : ex'[u] = ex[u]) /\ ex'[t] = g
  BY <1>1, <1>10, <1>11
<1> QED BY <1>8, <1>9, <1>12, <1>13 DEF CommitEffect

LEMMA ProducerStepKeeps ==
  ASSUME RunInv, NEW t \in Tasks, ProducerStep(t) PROVE RunInv'
<1>1. PICK kids \in {ex[t].kids, TRUE} : Commit(t, [ex[t] EXCEPT !.kids = kids])
  BY DEF ProducerStep
<1>2. RunTypeOK /\ ex[t] \in Executions /\ Len(cps) \in Nat /\ inputs \in Nat
  BY DEF RunInv, RunTypeOK, Shapes
<1>3. PICK f : f = [ex[t] EXCEPT !.kids = kids] /\ Commit(t, f)
  BY <1>1
<1>4. f \in Executions
  BY <1>2, <1>3 DEF Executions
<1>5. /\ f.pc = ex[t].pc /\ f.prod = ex[t].prod /\ f.status = ex[t].status
      /\ f.seen = ex[t].seen /\ f.wait = ex[t].wait /\ f.claim = ex[t].claim
      /\ f.svc = ex[t].svc /\ f.inbox = ex[t].inbox /\ f.failed = ex[t].failed
  BY <1>2, <1>3 DEF Executions
<1>6. ex[t].prod = "run" /\ services' = services /\ UNCHANGED producerVars
  BY DEF ProducerStep
<1>7. services' \in Seq(ServiceObjects) /\ Len(services') = Len(services)
  BY <1>6 DEF RunInv, RunTypeOK, Shapes, ServiceObjects
<1>8. CommitEffect(t, f)
  BY <1>2, <1>3, <1>4, CommitFacts
<1>9. ProducerEffect(t)
  BY <1>2, <1>5, <1>6, <1>7, <1>8 DEF CommitEffect, ProducerEffect, Producing
<1> QED BY <1>9, ProducerKeeps

\* A step without a commit changes the place and the stream of its execution.
LEMMA LocalStepKeeps ==
  ASSUME RunInv, NEW t \in Tasks, NEW g \in Executions,
         ex' = [ex EXCEPT ![t] = g], UNCHANGED cps, UNCHANGED producerVars,
         services' \in Seq(ServiceObjects), Len(services') = Len(services),
         g.pc = ex[t].pc, g.status = ex[t].status, g.seen = ex[t].seen, g.wait = ex[t].wait,
         g.claim = ex[t].claim, g.svc = ex[t].svc, g.failed = ex[t].failed, g.at = ex[t].at,
         g.input = ex[t].input,
         \/ g.inbox = ex[t].inbox
         \/ ex[t].inbox # <<>> /\ g.inbox = Tail(ex[t].inbox),
         Producing(t) \/ g.prod = ex[t].prod,
         g.prod = "parked" => ex[t].prod = "parked",
         g.prod \in {"parked", "draining", "ended"} =>
           \/ g.stream = ex[t].stream /\ ex[t].prod \in {"parked", "draining", "ended"}
           \/ g.stream # <<>> /\ g.stream[Len(g.stream)] # "resumed"
  PROVE  RunInv'
<1>1. /\ ex \in [Tasks -> Executions] /\ cps \in Seq(Checkpoints) /\ Len(cps) \in Nat
      /\ ex[t].at <= Len(cps) /\ ex[t].input <= inputs
      /\ \A k \in 1..Len(cps) :
           cps[k].from < k /\ cps[k].input <= inputs /\ cps[k].inputs \subseteq 1..inputs
  BY DEF RunInv, RunTypeOK, Shapes
<1>2. ex' \in [Tasks -> Executions] /\ (\A u \in Tasks \ {t} : ex'[u] = ex[u]) /\ ex'[t] = g
  BY <1>1
<1>3. ProducerEffect(t)
  BY <1>1, <1>2 DEF ProducerEffect
<1> QED BY <1>3, ProducerKeeps

\* The typed parts of a state that the producer's steps look at.
LEMMA ProducerTypes ==
  ASSUME RunInv, NEW t \in Tasks
  PROVE  /\ ex \in [Tasks -> Executions] /\ ex[t] \in Executions
         /\ ex[t].stream \in Seq(StreamEvents) /\ ex[t].inbox \in Seq(Tasks)
         /\ services \in Seq(ServiceObjects)
  BY DEF RunInv, RunTypeOK, Shapes, Executions, ServiceObjects

LEMMA ProducerClaimKeeps ==
  ASSUME RunInv, NEW t \in Tasks, NEW m \in Messages, ProducerClaim(t, m) PROVE RunInv'
<1>1. ex[t].prod = "run" /\ UNCHANGED cps /\ UNCHANGED producerVars
  BY DEF ProducerClaim
<1>2. PICK g : g = [ex[t] EXCEPT !.held = {m}] /\ ex' = [ex EXCEPT ![t] = g]
  BY ProducerTypes DEF ProducerClaim
<1>3. g \in Executions
  <2>1. PICK h \in SUBSET Messages : h = {m}
    OBVIOUS
  <2> QED BY ZenonT(60), <1>2, <2>1, ProducerTypes DEF Executions
<1>4. /\ g.pc = ex[t].pc /\ g.prod = ex[t].prod /\ g.status = ex[t].status /\ g.seen = ex[t].seen
      /\ g.wait = ex[t].wait /\ g.claim = ex[t].claim /\ g.svc = ex[t].svc /\ g.inbox = ex[t].inbox
      /\ g.failed = ex[t].failed /\ g.at = ex[t].at /\ g.input = ex[t].input
  BY <1>2, ProducerTypes DEF Executions
<1>5. services' \in Seq(ServiceObjects) /\ Len(services') = Len(services)
  BY ServicesClaimed, ProducerTypes DEF ProducerClaim
<1> QED BY <1>1, <1>2, <1>3, <1>4, <1>5, LocalStepKeeps

LEMMA ProducerEmptyKeeps ==
  ASSUME RunInv, NEW t \in Tasks, ProducerEmpty(t) PROVE RunInv'
<1>1. /\ ex[t].prod = "run" /\ UNCHANGED cps /\ UNCHANGED producerVars
      /\ services' \in Seq(ServiceObjects) /\ Len(services') = Len(services)
  BY ProducerTypes DEF ProducerEmpty
<1>2. PICK g : g = [ex[t] EXCEPT !.prod = "empty"] /\ ex' = [ex EXCEPT ![t] = g]
  BY ProducerTypes DEF ProducerEmpty
<1>3. g \in Executions
  <2>1. ex[t] \in Executions
    BY ProducerTypes
  <2> QED BY <1>2, <2>1 DEF Executions
<1>4. /\ g.pc = ex[t].pc /\ g.prod = "empty" /\ g.status = ex[t].status /\ g.seen = ex[t].seen
      /\ g.wait = ex[t].wait /\ g.claim = ex[t].claim /\ g.svc = ex[t].svc /\ g.inbox = ex[t].inbox
      /\ g.failed = ex[t].failed /\ g.at = ex[t].at /\ g.input = ex[t].input
  BY <1>2, ProducerTypes DEF Executions
<1> QED BY <1>1, <1>2, <1>3, <1>4, LocalStepKeeps DEF Producing

LEMMA ExecutionWith ==
  ASSUME NEW e \in Executions, NEW q \in {"run", "draining", "ended"}, NEW i \in Seq(Tasks),
         NEW z \in Seq(StreamEvents)
  PROVE  [e EXCEPT !.prod = q, !.inbox = i, !.stream = z] \in Executions
  BY DEF Executions

\* A channel keeps its resumes, or all but the first.
InboxKept(t, i) ==
    \/ i = ex[t].inbox
    \/ ex[t].inbox # <<>> /\ i = Tail(ex[t].inbox)

\* The producer stops with a failure, at the given place.
LEMMA FailingKeeps ==
  ASSUME RunInv, NEW t \in Tasks, NEW q \in {"draining", "ended"}, NEW i \in Seq(Tasks),
         ex' = [ex EXCEPT ![t] = [ex[t] EXCEPT !.prod = q, !.inbox = i,
                                    !.stream = Append(ex[t].stream, "failed")]],
         services' = [services EXCEPT ![ex[t].svc].cancelled = TRUE],
         InboxKept(t, i),
         Producing(t), UNCHANGED cps, UNCHANGED producerVars
  PROVE  RunInv'
<1>1. services' \in Seq(ServiceObjects) /\ Len(services') = Len(services)
  BY ServicesCancelled, ProducerTypes
<1>2. PICK z : z = Append(ex[t].stream, "failed")
  OBVIOUS
<1>3. z \in Seq(StreamEvents) /\ z # <<>> /\ z[Len(z)] = "failed"
  <2>1. "failed" \in StreamEvents
    BY DEF StreamEvents
  <2>2. ex[t].stream \in Seq(StreamEvents)
    BY ProducerTypes
  <2> DEFINE y == Append(ex[t].stream, "failed")
  <2>3. y \in Seq(StreamEvents) /\ y # <<>> /\ y[Len(y)] = "failed"
    BY <2>1, <2>2, AppendLast
  <2> HIDE DEF y
  <2>4. z = y
    BY <1>2 DEF y
  <2> QED BY <2>3, <2>4
<1>4. PICK g : g = [ex[t] EXCEPT !.prod = q, !.inbox = i, !.stream = z] /\ ex' = [ex EXCEPT ![t] = g]
  BY <1>2
<1>5. g \in Executions
  BY <1>3, <1>4, ProducerTypes, ExecutionWith
<1>6. /\ g.pc = ex[t].pc /\ g.prod = q /\ g.status = ex[t].status /\ g.seen = ex[t].seen
      /\ g.wait = ex[t].wait /\ g.claim = ex[t].claim /\ g.svc = ex[t].svc /\ g.inbox = i
      /\ g.failed = ex[t].failed /\ g.at = ex[t].at /\ g.input = ex[t].input /\ g.stream = z
  BY <1>4, ProducerTypes DEF Executions
<1>7. g.inbox = ex[t].inbox \/ (ex[t].inbox # <<>> /\ g.inbox = Tail(ex[t].inbox))
  BY <1>6 DEF InboxKept
<1>8. g.stream # <<>> /\ g.stream[Len(g.stream)] # "resumed"
  BY <1>3, <1>6
<1> QED BY <1>1, <1>4, <1>5, <1>6, <1>7, <1>8, LocalStepKeeps

LEMMA ProducerFailKeeps ==
  ASSUME RunInv, NEW t \in Tasks, ProducerFail(t) PROVE RunInv'
<1>0. PICK i \in Seq(Tasks) : i = ex[t].inbox
  BY ProducerTypes
<1>1. ex' = [ex EXCEPT ![t] = [ex[t] EXCEPT !.prod = "draining", !.inbox = i,
                                 !.stream = Append(ex[t].stream, "failed")]]
  BY <1>0, ProducerTypes DEF ProducerFail, Executions
<1>2. Producing(t)
  BY DEF ProducerFail, Producing
<1>3. /\ services' = [services EXCEPT ![ex[t].svc].cancelled = TRUE]
      /\ UNCHANGED cps /\ UNCHANGED producerVars
  BY DEF ProducerFail
<1>4. InboxKept(t, i)
  BY <1>0 DEF InboxKept
<1> QED BY <1>1, <1>2, <1>3, <1>4, FailingKeeps

LEMMA ProducerEndFailsKeeps ==
  ASSUME RunInv, NEW t \in Tasks, ProducerEndFails(t) PROVE RunInv'
<1>0. PICK i \in Seq(Tasks) : i = ex[t].inbox
  BY ProducerTypes
<1>1. ex' = [ex EXCEPT ![t] = [ex[t] EXCEPT !.prod = "ended", !.inbox = i,
                                 !.stream = Append(ex[t].stream, "failed")]]
  BY <1>0, ProducerTypes DEF ProducerEndFails, Executions
<1>2. Producing(t)
  BY DEF ProducerEndFails, Drained, Producing
<1>3. /\ services' = [services EXCEPT ![ex[t].svc].cancelled = TRUE]
      /\ UNCHANGED cps /\ UNCHANGED producerVars
  BY DEF ProducerEndFails
<1>4. InboxKept(t, i)
  BY <1>0 DEF InboxKept
<1> QED BY <1>1, <1>2, <1>3, <1>4, FailingKeeps

LEMMA ParkedResumeRefusedKeeps ==
  ASSUME RunInv, NEW t \in Tasks, ParkedResumeRefused(t) PROVE RunInv'
<1>1. ex' = [ex EXCEPT ![t] = [ex[t] EXCEPT !.prod = "draining", !.inbox = Tail(ex[t].inbox),
                                 !.stream = Append(ex[t].stream, "failed")]]
  BY ProducerTypes DEF ParkedResumeRefused, Executions
<1>2. Tail(ex[t].inbox) \in Seq(Tasks)
  BY ProducerTypes, TailFacts DEF ParkedResumeRefused
<1>3. Producing(t)
  BY DEF ParkedResumeRefused, Producing
<1>4. InboxKept(t, Tail(ex[t].inbox))
  BY DEF ParkedResumeRefused, InboxKept
<1> QED BY <1>1, <1>2, <1>3, <1>4, FailingKeeps DEF ParkedResumeRefused

LEMMA KidsSettleKeeps ==
  ASSUME RunInv, NEW t \in Tasks, NEW failed \in BOOLEAN, KidsSettle(t, failed) PROVE RunInv'
<1>1. /\ UNCHANGED cps /\ UNCHANGED producerVars
      /\ services' \in Seq(ServiceObjects) /\ Len(services') = Len(services)
  BY ProducerTypes DEF KidsSettle
<1>2. PICK g : /\ g = [ex[t] EXCEPT !.kids = FALSE, !.kidsFailed = ex[t].kidsFailed \/ failed]
               /\ ex' = [ex EXCEPT ![t] = g]
  BY ProducerTypes DEF KidsSettle, Executions
<1>3. g \in Executions
  <2>1. PICK b \in BOOLEAN : b = (ex[t].kidsFailed \/ failed)
    OBVIOUS
  <2>2. ex[t] \in Executions
    BY ProducerTypes
  <2>3. g = [ex[t] EXCEPT !.kids = FALSE, !.kidsFailed = b]
    BY <1>2, <2>1
  <2> QED BY <2>2, <2>3 DEF Executions
<1>4. /\ g.pc = ex[t].pc /\ g.prod = ex[t].prod /\ g.status = ex[t].status /\ g.seen = ex[t].seen
      /\ g.wait = ex[t].wait /\ g.claim = ex[t].claim /\ g.svc = ex[t].svc /\ g.inbox = ex[t].inbox
      /\ g.failed = ex[t].failed /\ g.at = ex[t].at /\ g.input = ex[t].input
      /\ g.stream = ex[t].stream
  BY <1>2, ProducerTypes DEF Executions
<1> QED BY <1>1, <1>2, <1>3, <1>4, LocalStepKeeps

LEMMA ParkedCancelKeeps ==
  ASSUME RunInv, NEW t \in Tasks, ParkedCancel(t) PROVE RunInv'
<1>1. /\ ex[t].prod = "parked" /\ UNCHANGED cps /\ UNCHANGED producerVars
      /\ services' \in Seq(ServiceObjects) /\ Len(services') = Len(services)
  BY ProducerTypes DEF ParkedCancel
<1>2. PICK g : g = [ex[t] EXCEPT !.prod = "draining"] /\ ex' = [ex EXCEPT ![t] = g]
  BY ProducerTypes DEF ParkedCancel
<1>3. g \in Executions
  <2>1. ex[t] \in Executions
    BY ProducerTypes
  <2> QED BY <1>2, <2>1 DEF Executions
<1>4. /\ g.pc = ex[t].pc /\ g.prod = "draining" /\ g.status = ex[t].status /\ g.seen = ex[t].seen
      /\ g.wait = ex[t].wait /\ g.claim = ex[t].claim /\ g.svc = ex[t].svc /\ g.inbox = ex[t].inbox
      /\ g.failed = ex[t].failed /\ g.at = ex[t].at /\ g.input = ex[t].input
      /\ g.stream = ex[t].stream
  BY <1>2, ProducerTypes DEF Executions
<1> QED BY <1>1, <1>2, <1>3, <1>4, LocalStepKeeps DEF Producing

LEMMA ProducerEndKeeps ==
  ASSUME RunInv, NEW t \in Tasks, ProducerEnd(t) PROVE RunInv'
<1>1. /\ ex[t].prod \in {"parked", "done", "draining"} /\ UNCHANGED cps /\ UNCHANGED producerVars
      /\ services' \in Seq(ServiceObjects) /\ Len(services') = Len(services)
  BY ProducerTypes DEF ProducerEnd, Drained
<1>2. PICK z : z = IF ex[t].prod = "done" THEN Append(ex[t].stream, "done") ELSE ex[t].stream
  OBVIOUS
<1>3. /\ z \in Seq(StreamEvents)
      /\ ex[t].prod = "done" => z # <<>> /\ z[Len(z)] # "resumed"
      /\ ex[t].prod # "done" => z = ex[t].stream
  <2>1. "done" \in StreamEvents
    BY DEF StreamEvents
  <2>2. ex[t].stream \in Seq(StreamEvents)
    BY ProducerTypes
  <2> DEFINE y == Append(ex[t].stream, "done")
  <2>3. y \in Seq(StreamEvents) /\ y # <<>> /\ y[Len(y)] = "done"
    BY <2>1, <2>2, AppendLast
  <2>4. z = IF ex[t].prod = "done" THEN y ELSE ex[t].stream
    BY <1>2
  <2> HIDE DEF y
  <2> QED BY <2>2, <2>3, <2>4
<1>4. PICK g : g = [ex[t] EXCEPT !.prod = "ended", !.inbox = ex[t].inbox, !.stream = z]
               /\ ex' = [ex EXCEPT ![t] = g]
  BY <1>2, ProducerTypes DEF ProducerEnd, Executions
<1>5. g \in Executions
  BY <1>3, <1>4, ProducerTypes, ExecutionWith
<1>6. /\ g.pc = ex[t].pc /\ g.prod = "ended" /\ g.status = ex[t].status /\ g.seen = ex[t].seen
      /\ g.wait = ex[t].wait /\ g.claim = ex[t].claim /\ g.svc = ex[t].svc /\ g.inbox = ex[t].inbox
      /\ g.failed = ex[t].failed /\ g.at = ex[t].at /\ g.input = ex[t].input /\ g.stream = z
  BY <1>4, ProducerTypes DEF Executions
<1> QED BY <1>1, <1>3, <1>4, <1>5, <1>6, LocalStepKeeps DEF Producing

\* A commit at which the producer goes on, has finished, or parks with its wait.
LEMMA CommitKeeps ==
  ASSUME RunInv, NEW t \in Tasks, NEW q \in {"parked", "done"}, NEW z \in Seq(StreamEvents),
         Commit(t, [ex[t] EXCEPT !.prod = q, !.stream = z]),
         q = "parked" => z # <<>> /\ z[Len(z)] # "resumed",
         Producing(t), UNCHANGED services, UNCHANGED producerVars
  PROVE  RunInv'
<1>1. RunTypeOK /\ ex[t] \in Executions /\ Len(cps) \in Nat /\ inputs \in Nat
  BY DEF RunInv, RunTypeOK, Shapes
<1>2. PICK f : f = [ex[t] EXCEPT !.prod = q, !.stream = z] /\ Commit(t, f)
  OBVIOUS
<1>3. f \in Executions
  BY <1>1, <1>2 DEF Executions
<1>4. /\ f.pc = ex[t].pc /\ f.prod = q /\ f.status = ex[t].status
      /\ f.seen = ex[t].seen /\ f.wait = ex[t].wait /\ f.claim = ex[t].claim
      /\ f.svc = ex[t].svc /\ f.inbox = ex[t].inbox /\ f.failed = ex[t].failed /\ f.stream = z
  BY <1>1, <1>2 DEF Executions
<1>5. services' \in Seq(ServiceObjects) /\ Len(services') = Len(services)
  BY ProducerTypes
<1>6. CommitEffect(t, f)
  BY <1>1, <1>2, <1>3, CommitFacts
<1>7. ProducerEffect(t)
  BY <1>1, <1>4, <1>5, <1>6 DEF CommitEffect, ProducerEffect
<1> QED BY <1>7, ProducerKeeps

LEMMA ProducerDoneKeeps ==
  ASSUME RunInv, NEW t \in Tasks, ProducerDone(t) PROVE RunInv'
<1>1. [ex[t] EXCEPT !.prod = "done"] = [ex[t] EXCEPT !.prod = "done", !.stream = ex[t].stream]
  BY ProducerTypes DEF Executions
<1>2. Commit(t, [ex[t] EXCEPT !.prod = "done", !.stream = ex[t].stream])
  BY <1>1 DEF ProducerDone
<1> QED BY <1>2, CommitKeeps, ProducerTypes DEF ProducerDone, Producing

LEMMA ProducerWaitKeeps ==
  ASSUME RunInv, NEW t \in Tasks, ProducerWait(t) PROVE RunInv'
<1>1. PICK w \in {"inbox", "input", "model_selection", "stopped"} : Park(t, w)
  BY DEF ProducerWait
<1>2. Producing(t) /\ UNCHANGED services /\ UNCHANGED producerVars
  BY DEF ProducerWait, Producing
<1>3. PICK z : z = Append(ex[t].stream, w)
  OBVIOUS
<1>4. z \in Seq(StreamEvents) /\ z # <<>> /\ z[Len(z)] # "resumed"
  <2>1. w \in StreamEvents /\ w # "resumed"
    BY DEF StreamEvents
  <2>2. ex[t].stream \in Seq(StreamEvents)
    BY ProducerTypes
  <2> DEFINE y == Append(ex[t].stream, w)
  <2>3. y \in Seq(StreamEvents) /\ y # <<>> /\ y[Len(y)] = w
    BY <2>1, <2>2, AppendLast
  <2> HIDE DEF y
  <2>4. z = y
    BY <1>3 DEF y
  <2> QED BY <2>1, <2>3, <2>4
<1>5. Commit(t, [ex[t] EXCEPT !.prod = "parked", !.stream = z])
  BY <1>1, <1>3, ProducerTypes DEF Park, Executions
<1> QED BY <1>2, <1>4, <1>5, CommitKeeps

-----------------------------------------------------------------------------
(* The parts of the invariant that a step has to keep. *)

\* The numbers that tasks and executions carry.
LEMMA Numbers ==
  ASSUME RunInv, NEW u \in Tasks
  PROVE  /\ ex[u] \in Executions /\ task[u] \in Launches /\ doc \in Documents
         /\ ex[u].at \in Nat /\ ex[u].seen \in Nat /\ ex[u].claim \in Nat /\ ex[u].svc \in Nat
         /\ task[u].resume \in Nat /\ task[u].claim \in Nat /\ task[u].input \in Nat
         /\ doc.checkpoint \in Nat /\ doc.resumeClaim \in Nat /\ doc.resumeCheckpoint \in Nat
         /\ Len(cps) \in Nat /\ Len(services) \in Nat /\ inputs \in Nat /\ waits \in Nat
         /\ MaxTasks \in Nat /\ u \in Nat /\ u >= 1 /\ u <= MaxTasks
<1>1. /\ ex[u] \in Executions /\ task[u] \in Launches /\ doc \in Documents
      /\ Len(cps) \in Nat /\ Len(services) \in Nat /\ inputs \in Nat /\ waits \in Nat
  BY DEF RunInv, RunTypeOK, Shapes
<1>2. MaxTasks \in Nat /\ u \in Nat /\ u >= 1 /\ u <= MaxTasks
  BY BoundsAssumption DEF Tasks
<1>3. /\ ex[u].at \in Nat /\ ex[u].seen \in Nat /\ ex[u].claim \in Nat /\ ex[u].svc \in Nat
  BY <1>1, <1>2 DEF Executions
<1>4. /\ task[u].resume \in Nat /\ task[u].claim \in Nat /\ task[u].input \in Nat
      /\ doc.checkpoint \in Nat /\ doc.resumeClaim \in Nat /\ doc.resumeCheckpoint \in Nat
  BY <1>1, <1>2 DEF Launches, Documents
<1> QED BY <1>1, <1>2, <1>3, <1>4

\* References name something that exists.
References ==
    /\ doc.wait.id <= waits /\ doc.resumeInput <= inputs
    /\ doc.checkpoint <= Len(cps) /\ doc.resumeCheckpoint <= Len(cps)
    /\ \A k \in 1..Len(cps) :
         cps[k].from < k /\ cps[k].input <= inputs /\ cps[k].inputs \subseteq 1..inputs
    /\ \A t \in Tasks :
         /\ task[t].resume <= Len(cps) /\ task[t].input <= inputs
         /\ task[t].claim \in {0, t}
         /\ ex[t].at <= Len(cps) /\ ex[t].seen <= Len(cps) /\ ex[t].input <= inputs
         /\ ex[t].wait.id <= waits /\ ex[t].svc <= Len(services)
    /\ current <= Len(services)
    /\ answered \subseteq 1..waits /\ oldWaits <= waits

LEMMA TypeParts == RunTypeOK <=> Shapes /\ References
  BY DEF RunTypeOK, References

LEMMA TypePartsNext == RunTypeOK' <=> Shapes' /\ References'
  BY DEF RunTypeOK, References

\* Executions that differ at most in their inboxes, and tasks that differ at most
\* in where a pending launch is.
SameExecutions ==
    /\ ex' \in [Tasks -> Executions]
    /\ \A u \in Tasks :
         /\ ex'[u].pc = ex[u].pc /\ ex'[u].prod = ex[u].prod /\ ex'[u].at = ex[u].at
         /\ ex'[u].seen = ex[u].seen /\ ex'[u].status = ex[u].status
         /\ ex'[u].wait = ex[u].wait /\ ex'[u].claim = ex[u].claim
         /\ ex'[u].svc = ex[u].svc /\ ex'[u].failed = ex[u].failed
         /\ ex'[u].stream = ex[u].stream /\ ex'[u].input = ex[u].input

SameLaunches ==
    /\ task' \in [Tasks -> Launches]
    /\ \A u \in Tasks : /\ task'[u].claim = task[u].claim /\ task'[u].resume = task[u].resume
                        /\ task'[u].input = task[u].input
                        /\ PendingTask(u)' <=> PendingTask(u)
                        /\ (task'[u].st = "owner") <=> (task[u].st = "owner")
                        /\ (task'[u].st = "none") <=> (task[u].st = "none")

LEMMA PendingKeeps ==
  ASSUME RunInv, SameExecutions, SameLaunches, OffersQueued',
         UNCHANGED <<doc, cps, owner, services, current, closed, restarts, faults, waits,
                     oldWaits, answered, inputs, incidents>>
  PROVE  RunInv'
<1>1. Shapes'
  BY DEF RunInv, RunTypeOK, Shapes, SameExecutions, SameLaunches
<1>2. References'
  <2>1. References
    BY TypeParts DEF RunInv
  <2> QED BY <2>1 DEF References, SameExecutions, SameLaunches
<1>3. OneOwner' /\ ClaimsInOrder'
  BY DEF RunInv, OneOwner, ClaimsInOrder, Producing, SameExecutions, SameLaunches
<1>4. CheckpointsForward'
  BY DEF RunInv, CheckpointsForward, SameExecutions, SameLaunches
<1>5. EarlierClaimsPassed'
  BY DEF RunInv, EarlierClaimsPassed, Producing, SameExecutions, SameLaunches
<1>6. StreamSettles' /\ WaitsNamed'
  BY DEF RunInv, StreamSettles, WaitsNamed, SameExecutions
<1>7. RunningIsClaimed'
  <2>1. ASSUME NEW u \in Tasks PROVE (ToLaunch(u)' <=> ToLaunch(u)) /\ (InExecution(u)' <=> InExecution(u))
    BY DEF SameExecutions, SameLaunches, ToLaunch, InExecution, ClaimOf
  <2> QED BY <2>1 DEF RunInv, RunningIsClaimed
<1> QED BY <1>1, <1>2, <1>3, <1>4, <1>5, <1>6, <1>7, TypePartsNext DEF RunInv

LEMMA PendingMoves ==
  ASSUME RunInv, NEW t \in Tasks, PendingTask(t),
         NEW q \in {"new", "offered", "unaccepted"}, NEW w \in 0..MaxTasks,
         task' = [task EXCEPT ![t] = [task[t] EXCEPT !.st = q, !.target = w]]
  PROVE  /\ SameLaunches /\ task'[t].st = q /\ task'[t].target = w
         /\ \A u \in Tasks \ {t} : task'[u] = task[u]
<1>1. PICK l : l = [task[t] EXCEPT !.st = q, !.target = w] /\ task' = [task EXCEPT ![t] = l]
  OBVIOUS
<1>2. l \in Launches
  <2>1. task[t] \in Launches
    BY Numbers
  <2> QED BY <1>1, <2>1 DEF Launches
<1>3. task \in [Tasks -> Launches]
  BY DEF RunInv, RunTypeOK, Shapes
<1>4. /\ task' \in [Tasks -> Launches] /\ \A u \in Tasks \ {t} : task'[u] = task[u]
      /\ task'[t] = l
  BY <1>1, <1>2, <1>3
<1>5. /\ l.claim = task[t].claim /\ l.resume = task[t].resume /\ l.input = task[t].input
      /\ l.st = q /\ l.target = w
  BY <1>1, Numbers DEF Launches
<1> QED BY <1>5, <1>4 DEF PendingTask, SameLaunches

LEMMA OfferKeeps ==
  ASSUME RunInv, NEW t \in Tasks, Offer(t) PROVE RunInv'
<1>1. PICK q \in {"offered", "unaccepted"} :
        task' = [task EXCEPT ![t] = [task[t] EXCEPT !.st = q, !.target = owner]]
  <2>1. task \in [Tasks -> Launches]
    BY DEF RunInv, RunTypeOK, Shapes
  <2> QED BY <2>1 DEF Offer, Launches
<1>2. PendingTask(t) /\ owner \in 0..MaxTasks
  BY DEF Offer, PendingTask, RunInv, RunTypeOK, Shapes
<1>3. SameLaunches
  BY <1>1, <1>2, PendingMoves
<1>4. SameExecutions
  <2>1. ex \in [Tasks -> Executions]
    BY DEF RunInv, RunTypeOK, Shapes
  <2>2. CASE ex' = ex
    BY <2>1, <2>2 DEF SameExecutions
  <2>3. CASE ex' = [ex EXCEPT ![owner].inbox = Append(@, t)]
    <3>1. owner \in Tasks
      BY <1>2, BoundsAssumption DEF Offer, Tasks
    <3>2. PICK g : g = [ex[owner] EXCEPT !.inbox = Append(ex[owner].inbox, t)]
                   /\ ex' = [ex EXCEPT ![owner] = g]
      BY <2>1, <2>3, <3>1
    <3>3. ex[owner] \in Executions /\ Append(ex[owner].inbox, t) \in Seq(Tasks)
      BY <3>1, ProducerTypes
    <3>4. g \in Executions
      BY <3>2, <3>3 DEF Executions
    <3>5. /\ g.pc = ex[owner].pc /\ g.prod = ex[owner].prod /\ g.at = ex[owner].at
          /\ g.seen = ex[owner].seen /\ g.status = ex[owner].status
          /\ g.wait = ex[owner].wait /\ g.claim = ex[owner].claim
          /\ g.svc = ex[owner].svc /\ g.failed = ex[owner].failed
          /\ g.stream = ex[owner].stream /\ g.input = ex[owner].input
      BY <3>2, <3>3 DEF Executions
    <3>6. ex' \in [Tasks -> Executions] /\ ex'[owner] = g /\ \A u \in Tasks \ {owner} : ex'[u] = ex[u]
      BY <2>1, <3>1, <3>2, <3>4
    <3> QED BY <3>5, <3>6 DEF SameExecutions
  <2> QED BY <2>2, <2>3 DEF Offer
<1>5. /\ task[t].st = "new" /\ task'[t].target = owner
      /\ \A u \in Tasks \ {t} : task'[u] = task[u]
  BY <1>1, <1>2, PendingMoves DEF Offer
<1>6. OffersQueued'
  <2>1. ASSUME NEW u \in Tasks, ex[u].prod # "ended", NEW n \in 1..Len(ex[u].inbox)
        PROVE  /\ ex[u].inbox[n] \in Tasks \ {t} /\ task'[ex[u].inbox[n]] = task[ex[u].inbox[n]]
    <3>1. ex[u].inbox \in Seq(Tasks)
      BY ProducerTypes
    <3>2. ex[u].inbox[n] \in Tasks
      BY <3>1
    <3>3. task[ex[u].inbox[n]].st = "offered"
      BY <2>1 DEF RunInv, OffersQueued
    <3> QED BY <3>2, <3>3, <1>5
  <2>2. ASSUME NEW u \in Tasks, ex'[u].inbox = ex[u].inbox
        PROVE  /\ (ex[u].pc = "off" => ex[u].inbox = <<>> /\ ex[u].prod = "off")'
               /\ (ex[u].prod # "ended" => \A n \in 1..Len(ex[u].inbox) :
                    /\ task[ex[u].inbox[n]].st = "offered" /\ task[ex[u].inbox[n]].target = u
                    /\ \A m \in 1..Len(ex[u].inbox) : ex[u].inbox[m] = ex[u].inbox[n] => m = n)'
    BY <1>4, <2>1, <2>2 DEF RunInv, OffersQueued, SameExecutions
  <2>3. CASE ex' = ex
    BY <2>2, <2>3 DEF OffersQueued
  <2>4. CASE ex' # ex
    <3>a. /\ ex' = [ex EXCEPT ![owner].inbox = Append(@, t)] /\ ~ReceiverGone(owner)
          /\ task' = [task EXCEPT ![t].st = "offered", ![t].target = owner]
      BY <2>4 DEF Offer
    <3>b. task \in [Tasks -> Launches]
      BY DEF RunInv, RunTypeOK, Shapes
    <3>1. task'[t].st = "offered"
      BY <3>a, <3>b DEF Launches
    <3>2. owner \in Tasks /\ ex \in [Tasks -> Executions]
      BY <1>2, BoundsAssumption DEF Offer, Tasks, RunInv, RunTypeOK, Shapes
    <3>3. \A u \in Tasks \ {owner} : ex'[u].inbox = ex[u].inbox
      BY <3>a, <3>2
    <3>4. ex[owner].prod # "ended" /\ ex[owner].inbox \in Seq(Tasks)
      BY <3>a, <3>2, ProducerTypes DEF ReceiverGone
    <3>5. PICK z : z = Append(ex[owner].inbox, t) /\ ex'[owner].inbox = z
      BY <3>a, <3>2 DEF Executions
    <3>6. /\ Len(z) = Len(ex[owner].inbox) + 1 /\ z[Len(ex[owner].inbox) + 1] = t
          /\ Len(ex[owner].inbox) \in Nat
          /\ \A k \in 1..Len(ex[owner].inbox) : z[k] = ex[owner].inbox[k]
      BY <3>4, <3>5
    <3>7. \A n \in 1..Len(ex[owner].inbox) :
             /\ ex[owner].inbox[n] # t
             /\ task'[ex[owner].inbox[n]].st = "offered" /\ task'[ex[owner].inbox[n]].target = owner
             /\ \A m \in 1..Len(ex[owner].inbox) : ex[owner].inbox[m] = ex[owner].inbox[n] => m = n
      BY <2>1, <3>2, <3>4 DEF RunInv, OffersQueued
    <3>8. \A n \in 1..Len(z) : /\ task'[z[n]].st = "offered" /\ task'[z[n]].target = owner
                              /\ \A m \in 1..Len(z) : z[m] = z[n] => m = n
      <4>1. ASSUME NEW n \in 1..Len(z) PROVE task'[z[n]].st = "offered" /\ task'[z[n]].target = owner
        <5>1. CASE n = Len(ex[owner].inbox) + 1
          BY <5>1, <3>1, <3>6, <1>5
        <5>2. CASE n # Len(ex[owner].inbox) + 1
          <6>1. n \in 1..Len(ex[owner].inbox)
            BY <5>2, <3>6
          <6> QED BY <6>1, <3>6, <3>7
        <5> QED BY <5>1, <5>2
      <4>2. ASSUME NEW n \in 1..Len(z), NEW m \in 1..Len(z), z[m] = z[n] PROVE m = n
        <5>1. \A k \in 1..Len(z) : k = Len(ex[owner].inbox) + 1 \/ k \in 1..Len(ex[owner].inbox)
          BY <3>6
        <5>2. CASE n = Len(ex[owner].inbox) + 1
          BY <4>2, <5>1, <5>2, <3>6, <3>7
        <5>3. CASE n \in 1..Len(ex[owner].inbox)
          BY <4>2, <5>1, <5>3, <3>6, <3>7
        <5> QED BY <5>1, <5>2, <5>3
      <4> QED BY <4>1, <4>2
    <3>9. ex'[owner].pc # "off"
      BY <1>4, <3>2 DEF SameExecutions, RunInv, OneOwner
    <3> QED BY SMTT(60), <2>2, <3>2, <3>3, <3>5, <3>8, <3>9 DEF OffersQueued, Offer
  <2> QED BY <2>3, <2>4
<1> QED BY <1>3, <1>4, <1>6, PendingKeeps DEF Offer

LEMMA OfferEndsKeeps ==
  ASSUME RunInv, NEW t \in Tasks, OfferDropped(t) \/ AwaitFinished(t) PROVE RunInv'
<1>1. task \in [Tasks -> Launches] /\ ex \in [Tasks -> Executions]
  BY DEF RunInv, RunTypeOK, Shapes
<1>2. PICK q \in {"new", "unaccepted"} :
        task' = [task EXCEPT ![t] = [task[t] EXCEPT !.st = q, !.target = task[t].target]]
  BY <1>1 DEF OfferDropped, AwaitFinished, Launches
<1>3. PendingTask(t) /\ task[t].target \in 0..MaxTasks
  BY <1>1 DEF OfferDropped, AwaitFinished, PendingTask, Launches
<1>4. SameLaunches
  BY <1>2, <1>3, PendingMoves
<1>5. SameExecutions
  BY <1>1 DEF OfferDropped, AwaitFinished, SameExecutions
<1>6. ex' = ex /\ \A u \in Tasks \ {t} : task'[u] = task[u]
  BY <1>2, <1>3, PendingMoves DEF OfferDropped, AwaitFinished
<1>7. ASSUME NEW u \in Tasks, ex[u].prod # "ended", NEW n \in 1..Len(ex[u].inbox)
      PROVE  ex[u].inbox[n] \in Tasks \ {t}
  <2>1. ex[u].inbox \in Seq(Tasks)
    BY ProducerTypes
  <2>2. ex[u].inbox[n] \in Tasks
    BY <2>1
  <2>3. task[ex[u].inbox[n]].st = "offered" /\ task[ex[u].inbox[n]].target = u
    BY <1>7 DEF RunInv, OffersQueued
  <2>4. ~Finished(u)
    <3>1. ex[u].pc # "off"
      BY <1>7, <2>1 DEF RunInv, OffersQueued
    <3> QED BY <3>1 DEF RunInv, OneOwner, Finished
  <2> QED BY <1>7, <2>2, <2>3, <2>4 DEF OfferDropped, AwaitFinished, ReceiverGone
<1>8. OffersQueued'
  BY <1>6, <1>7 DEF RunInv, OffersQueued
<1> QED BY <1>4, <1>5, <1>8, PendingKeeps DEF OfferDropped, AwaitFinished

-----------------------------------------------------------------------------
(* The commands. *)

\* A command that launches nothing.
CommandEffect ==
    /\ doc' \in Documents
    /\ doc'.checkpoint = doc.checkpoint /\ doc'.resumeClaim = doc.resumeClaim
    /\ doc'.resumeCheckpoint = doc.resumeCheckpoint /\ doc'.resumeInput = doc.resumeInput
    /\ doc'.wait = doc.wait /\ doc'.status \in {doc.status, "stopped"}
    /\ services' \in Seq(ServiceObjects) /\ Len(services') = Len(services)
    /\ closed' \in BOOLEAN
    /\ UNCHANGED <<cps, task, owner, ex, current, restarts, faults, waits, oldWaits, answered,
                   inputs, incidents>>

LEMMA CommandKeeps == ASSUME RunInv, CommandEffect PROVE RunInv'
<1>1. Shapes'
  BY DEF RunInv, RunTypeOK, Shapes, CommandEffect, ServiceObjects
<1>2. References'
  <2>1. References
    BY TypeParts DEF RunInv
  <2> QED BY <2>1 DEF References, CommandEffect
<1>3. OneOwner' /\ OffersQueued' /\ EarlierClaimsPassed' /\ StreamSettles'
  BY DEF RunInv, CommandEffect, OneOwner, OffersQueued, EarlierClaimsPassed, StreamSettles, Producing
<1>4. ClaimsInOrder' /\ CheckpointsForward'
  BY DEF RunInv, CommandEffect, ClaimsInOrder, CheckpointsForward
<1>5. WaitsNamed'
  BY DEF RunInv, CommandEffect, WaitsNamed
<1>6. RunningIsClaimed'
  <2>1. ASSUME NEW u \in Tasks PROVE (ToLaunch(u)' <=> ToLaunch(u)) /\ (InExecution(u)' <=> InExecution(u))
    BY DEF CommandEffect, ToLaunch, InExecution, ClaimOf, PendingTask
  <2>2. doc'.status = "running" => doc.status = "running"
    BY DEF CommandEffect
  <2>3. incidents' = incidents
    BY DEF CommandEffect
  <2> QED BY <2>1, <2>2, <2>3 DEF RunInv, RunningIsClaimed
<1> QED BY <1>1, <1>2, <1>3, <1>4, <1>5, <1>6, TypePartsNext DEF RunInv

\* The document with another queue.
OnlyQueue(d) ==
    /\ d \in Documents
    /\ d.status = doc.status /\ d.wait = doc.wait /\ d.checkpoint = doc.checkpoint
    /\ d.resumeCheckpoint = doc.resumeCheckpoint /\ d.resumeInput = doc.resumeInput
    /\ d.resumeClaim = doc.resumeClaim /\ d.abort = doc.abort /\ d.active = doc.active

LEMMA QueueWith ==
  ASSUME doc \in Documents, NEW q \in [Messages -> MessageStates]
  PROVE  OnlyQueue([doc EXCEPT !.queue = q])
<1>1. [doc EXCEPT !.queue = q] \in Documents
  BY DEF Documents
<1> QED BY <1>1 DEF OnlyQueue, Documents

LEMMA QueueSet ==
  ASSUME doc \in Documents, NEW m \in Messages, NEW s \in MessageStates
  PROVE  OnlyQueue([doc EXCEPT !.queue[m] = s])
<1>1. doc.queue \in [Messages -> MessageStates]
  BY DEF Documents
<1>2. PICK q \in [Messages -> MessageStates] : q = [doc.queue EXCEPT ![m] = s]
  BY <1>1
<1>3. [doc EXCEPT !.queue[m] = s] = [doc EXCEPT !.queue = q]
  BY <1>2 DEF Documents
<1> QED BY <1>3, QueueWith

LEMMA QueuedKeeps ==
  ASSUME RunInv, NEW d, OnlyQueue(d), doc' = d,
         UNCHANGED <<task, owner, services, current, answered, inputs, incidents>>,
         UNCHANGED commandVars
  PROVE  RunInv'
<1>1. closed \in BOOLEAN /\ services \in Seq(ServiceObjects)
  BY DEF RunInv, RunTypeOK, Shapes, ServiceObjects
<1>2. CommandEffect
  BY <1>1 DEF CommandEffect, OnlyQueue, commandVars
<1> QED BY <1>2, CommandKeeps

LEMMA RemoveMessageKeeps ==
  ASSUME RunInv, NEW m \in Messages, RemoveMessage(m) PROVE RunInv'
<1>1. doc \in Documents
  BY DEF RunInv, RunTypeOK, Shapes
<1>2. PICK s \in MessageStates : s = "cancelled"
  BY DEF MessageStates
<1>3. OnlyQueue([doc EXCEPT !.queue[m] = s])
  BY <1>1, QueueSet
<1>4. /\ doc' = [doc EXCEPT !.queue[m] = s] /\ UNCHANGED commandVars
      /\ UNCHANGED <<task, owner, services, current, answered, inputs, incidents>>
  BY <1>2 DEF RemoveMessage
<1> QED BY <1>3, <1>4, QueuedKeeps

LEMMA CancelKeeps == ASSUME RunInv, Cancel PROVE RunInv'
<1>1. doc \in Documents /\ closed \in BOOLEAN /\ services \in Seq(ServiceObjects)
  BY DEF RunInv, RunTypeOK, Shapes, ServiceObjects
<1>2. PICK s \in Statuses : s = (IF doc.status = "waiting" THEN "stopped" ELSE doc.status)
  BY <1>1 DEF Documents, Statuses
<1>3. doc' = [doc EXCEPT !.abort = TRUE, !.status = s]
  BY <1>1, <1>2 DEF Cancel, Documents
<1>4. /\ doc' \in Documents /\ doc'.checkpoint = doc.checkpoint /\ doc'.resumeClaim = doc.resumeClaim
      /\ doc'.resumeCheckpoint = doc.resumeCheckpoint /\ doc'.resumeInput = doc.resumeInput
      /\ doc'.wait = doc.wait /\ doc'.status = s
  BY <1>1, <1>3 DEF Documents
<1>5. services' \in Seq(ServiceObjects) /\ Len(services') = Len(services)
  BY <1>1, ServicesCancelled DEF Cancel
<1>6. CommandEffect
  BY <1>1, <1>2, <1>4, <1>5 DEF CommandEffect, Cancel, commandVars
<1> QED BY <1>6, CommandKeeps

LEMMA ShutdownKeeps == ASSUME RunInv, Shutdown PROVE RunInv'
<1>1. doc \in Documents /\ services \in Seq(ServiceObjects)
  BY DEF RunInv, RunTypeOK, Shapes, ServiceObjects
<1>2. services' \in Seq(ServiceObjects) /\ Len(services') = Len(services)
  BY <1>1, ServicesCancelled DEF Shutdown
<1>3. CommandEffect
  BY <1>1, <1>2 DEF CommandEffect, Shutdown
<1> QED BY <1>3, CommandKeeps

-----------------------------------------------------------------------------
(* Claims.  A claimed resume is launched as the first unused task. *)

\* While a claim is made, an execution is left alone or goes past a wake.
ExecutionPasses(u) ==
    \/ ex'[u] = ex[u]
    \/ /\ ex[u].pc = "wake" /\ ex'[u].pc = "run"
       /\ ex'[u].prod = ex[u].prod /\ ex'[u].at = ex[u].at
       /\ ex'[u].seen = ex[u].seen /\ ex'[u].status = ex[u].status
       /\ ex'[u].wait = ex[u].wait /\ ex'[u].claim = ex[u].claim
       /\ ex'[u].svc = ex[u].svc /\ ex'[u].failed = ex[u].failed
       /\ ex'[u].stream = ex[u].stream /\ ex'[u].input = ex[u].input
       /\ ex'[u].inbox = ex[u].inbox
    \/ /\ ex[u].pc = "lastWake"
       /\ ex'[u] = [NoExecution EXCEPT !.pc = "close", !.prod = "ended"]

ClaimEffect(f) ==
    /\ f \in Tasks /\ task[f].st = "none"
    /\ \A u \in 1..(f - 1) : task[u].st # "none"
    /\ doc' \in Documents /\ doc'.status = "running" /\ doc'.resumeClaim = f
    /\ doc'.checkpoint = doc.checkpoint /\ doc'.resumeCheckpoint = doc.checkpoint
    /\ doc'.resumeInput <= inputs' /\ doc'.wait = NoWait
    /\ task' \in [Tasks -> Launches] /\ \A u \in Tasks \ {f} : task'[u] = task[u]
    /\ task'[f].st = "new" /\ task'[f].claim = f /\ task'[f].resume = doc.checkpoint
    /\ task'[f].input <= inputs'
    /\ current' \in {0, current}
    /\ inputs' \in Nat /\ inputs <= inputs' /\ answered' \subseteq 1..waits
    /\ ex' \in [Tasks -> Executions] /\ \A u \in Tasks : ExecutionPasses(u)
    /\ UNCHANGED <<cps, owner, services, closed, restarts, faults, waits, oldWaits, incidents>>

\* The fields of an execution that has nothing.
LEMMA NothingFacts ==
  ASSUME NEW p, NEW q
  PROVE  LET e == [NoExecution EXCEPT !.pc = p, !.prod = q] IN
         /\ e.pc = p /\ e.prod = q /\ e.at = 0 /\ e.seen = 0 /\ e.input = 0 /\ e.svc = 0
         /\ e.claim = 0 /\ e.wait.id = 0 /\ e.status = "running" /\ e.inbox = <<>>
  BY DEF NoExecution, NoWait

LEMMA ClaimTypes ==
  ASSUME RunInv, NEW f, ClaimEffect(f) PROVE RunTypeOK'
<1>1. Shapes'
  <2>1. current \in Nat /\ waits \in Nat
    BY DEF RunInv, RunTypeOK, Shapes
  <2>2. current' \in Nat /\ answered' \in SUBSET Nat
    BY <2>1 DEF ClaimEffect
  <2> QED BY <2>2 DEF RunInv, RunTypeOK, Shapes, ClaimEffect
<1>2. References'
  <2>0. References
    BY TypeParts DEF RunInv
  <2>1. /\ UNCHANGED <<cps, services, waits, oldWaits>> /\ inputs \in Nat /\ inputs' \in Nat
        /\ inputs <= inputs' /\ Len(cps) \in Nat /\ Len(services) \in Nat /\ waits \in Nat
    BY DEF ClaimEffect, RunInv, RunTypeOK, Shapes
  <2>2. doc'.wait.id <= waits' /\ doc'.resumeInput <= inputs'
    BY <2>1 DEF ClaimEffect, NoWait
  <2>3. doc'.checkpoint <= Len(cps') /\ doc'.resumeCheckpoint <= Len(cps')
    BY <2>0, <2>1 DEF ClaimEffect, References
  <2>4. \A k \in 1..Len(cps') :
         cps'[k].from < k /\ cps'[k].input <= inputs' /\ cps'[k].inputs \subseteq 1..inputs'
    <3>1. ASSUME NEW k \in 1..Len(cps) PROVE cps[k].input \in Nat
      <4>1. cps \in Seq(Checkpoints)
        BY DEF RunInv, RunTypeOK, Shapes
      <4>2. cps[k] \in Checkpoints
        BY <4>1
      <4> QED BY <4>2 DEF Checkpoints
    <3> QED BY <3>1, <2>0, <2>1 DEF References
  <2>5. ASSUME NEW u \in Tasks
        PROVE  /\ task'[u].resume <= Len(cps') /\ task'[u].input <= inputs'
               /\ task'[u].claim \in {0, u}
    <3>1. CASE u = f
      BY <3>1, <2>0, <2>1 DEF ClaimEffect, References
    <3>2. CASE u # f
      BY SMTT(60), <3>2, <2>0, <2>1, Numbers DEF ClaimEffect, References
    <3> QED BY <3>1, <3>2
  <2>6. ASSUME NEW u \in Tasks
        PROVE  /\ ex'[u].at <= Len(cps') /\ ex'[u].seen <= Len(cps') /\ ex'[u].input <= inputs'
               /\ ex'[u].wait.id <= waits' /\ ex'[u].svc <= Len(services')
    <3>1. /\ ex[u].at <= Len(cps) /\ ex[u].seen <= Len(cps) /\ ex[u].input <= inputs
          /\ ex[u].wait.id <= waits /\ ex[u].svc <= Len(services) /\ ex[u].input \in Nat
      <4>1. ex[u] \in Executions
        BY Numbers
      <4> QED BY <2>0, <4>1 DEF References, Executions
    <3>2. CASE ex'[u] = [NoExecution EXCEPT !.pc = "close", !.prod = "ended"]
      BY <3>2, <2>1, NothingFacts
    <3>3. CASE ex'[u] # [NoExecution EXCEPT !.pc = "close", !.prod = "ended"]
      <4>1. /\ ex'[u].at = ex[u].at /\ ex'[u].seen = ex[u].seen /\ ex'[u].wait = ex[u].wait
            /\ ex'[u].svc = ex[u].svc /\ ex'[u].input = ex[u].input
        BY <3>3 DEF ClaimEffect, ExecutionPasses
      <4> QED BY <3>1, <4>1, <2>1
    <3> QED BY <3>2, <3>3
  <2>7. current' <= Len(services') /\ answered' \subseteq 1..waits' /\ oldWaits' <= waits'
    BY <2>0, <2>1 DEF ClaimEffect, References
  <2> QED BY <2>2, <2>3, <2>4, <2>5, <2>6, <2>7 DEF References
<1> QED BY <1>1, <1>2, TypePartsNext

\* An execution that goes past a wake: what is left of it.
LEMMA PassFacts ==
  ASSUME RunInv, NEW u \in Tasks, ExecutionPasses(u)
  PROVE  /\ ex'[u].pc = "off" <=> ex[u].pc = "off"
         /\ ex'[u].pc = "load" => ex'[u] = ex[u]
         /\ ex'[u].pc \in {"publish", "final", "failed"} => ex'[u] = ex[u]
         /\ ex'[u].prod # "ended" =>
              ex'[u].prod = ex[u].prod /\ ex'[u].inbox = ex[u].inbox
         /\ ex'[u].pc \in {"run", "publish", "wake"} =>
              /\ ex[u].pc \in {"run", "publish", "wake"}
              /\ ex'[u].prod = ex[u].prod /\ ex'[u].seen = ex[u].seen
              /\ ex'[u].stream = ex[u].stream /\ ex'[u].failed = ex[u].failed
              /\ ex'[u].status = ex[u].status
         /\ Producing(u)' =>
              /\ Producing(u) /\ ex'[u].at = ex[u].at /\ ex'[u].claim = ex[u].claim
              /\ ex'[u].prod = ex[u].prod /\ ex'[u].pc \in {"run", "publish", "wake"}
         /\ ex'[u].claim <= doc.resumeClaim
         /\ ex'[u].status = "waiting" => ex'[u].wait.id # 0
         /\ InExecution(u) => ex'[u].claim = ex[u].claim /\ ex'[u].pc \in {ex[u].pc, "run"}
<1>1. CASE ex'[u] = ex[u]
  BY <1>1 DEF RunInv, OneOwner, ClaimsInOrder, WaitsNamed, Producing
<1>2. CASE ex[u].pc = "wake" /\ ExecutionPasses(u) /\ ex'[u] # ex[u]
  BY <1>2 DEF RunInv, OneOwner, ClaimsInOrder, WaitsNamed, Producing, ExecutionPasses
<1>3. CASE ex[u].pc = "lastWake" /\ ex'[u] # ex[u]
  <2>1. PICK e : e = [NoExecution EXCEPT !.pc = "close", !.prod = "ended"] /\ ex'[u] = e
    BY <1>3 DEF ExecutionPasses
  <2>2. e.pc = "close" /\ e.prod = "ended" /\ e.claim = 0 /\ e.status = "running"
    BY <2>1, NothingFacts
  <2>3. doc.resumeClaim \in Nat
    BY Numbers
  <2> QED BY <1>3, <2>1, <2>2, <2>3 DEF Producing, InExecution
<1> QED BY <1>1, <1>2, <1>3 DEF ExecutionPasses

LEMMA ClaimKeeps ==
  ASSUME RunInv, NEW f, ClaimEffect(f) PROVE RunInv'
<1>0. RunTypeOK'
  BY ClaimTypes
<1>1. /\ f \in Tasks /\ task[f].st = "none" /\ owner' = owner
      /\ \A u \in Tasks \ {f} : task'[u] = task[u]
      /\ task'[f].st = "new" /\ task'[f].claim = f /\ task'[f].resume = doc.checkpoint
      /\ doc'.resumeClaim = f /\ doc'.checkpoint = doc.checkpoint /\ doc'.status = "running"
  BY DEF ClaimEffect
<1>2. doc.resumeClaim < f /\ \A u \in Tasks : f < u => task[u].st = "none"
  BY <1>1 DEF RunInv, ClaimsInOrder
<1>3. \A u \in Tasks : ExecutionPasses(u)
  BY DEF ClaimEffect
<1>4. \A u \in Tasks : u \in Nat /\ task[u].claim \in Nat /\ ex[u].claim \in Nat /\ task[u].resume \in Nat
  BY Numbers
<1>5. doc.resumeClaim \in Nat /\ doc.checkpoint \in Nat /\ f \in Nat
  BY <1>1, Numbers
<1>6. OneOwner'
  <2> SUFFICES ASSUME NEW u \in Tasks
               PROVE  /\ (task'[u].st = "owner") <=> (owner' = u)
                      /\ (owner' = u) <=> (ex'[u].pc # "off")
                      /\ Producing(u)' => ex'[u].pc \in {"run", "publish", "wake"}
                      /\ ex'[u].pc = "load" => ex'[u].prod = "off"
    BY DEF OneOwner
  <2>1. /\ (task[u].st = "owner") <=> (owner = u)
        /\ (owner = u) <=> (ex[u].pc # "off")
        /\ ex[u].pc = "load" => ex[u].prod = "off"
    BY DEF RunInv, OneOwner
  <2>2. ExecutionPasses(u)
    BY <1>3
  <2>3. /\ (ex'[u].pc = "off") <=> (ex[u].pc = "off")
        /\ ex'[u].pc = "load" => ex'[u] = ex[u]
        /\ Producing(u)' => ex'[u].pc \in {"run", "publish", "wake"}
    BY <2>2, PassFacts
  <2> QED BY <2>1, <2>3, <1>1
<1>7. OffersQueued'
  <2>1. ASSUME NEW u \in Tasks
        PROVE  /\ (ex'[u].pc = "off") => (ex'[u].inbox = <<>> /\ ex'[u].prod = "off")
               /\ ex'[u].prod # "ended" => ex[u].prod # "ended" /\ ex'[u].inbox = ex[u].inbox
    <3>1. ExecutionPasses(u)
      BY <1>3
    <3>2. (ex'[u].pc = "off") => ex'[u] = ex[u]
      <4>1. (ex'[u].pc = "off") <=> (ex[u].pc = "off")
        BY <3>1, PassFacts
      <4> QED BY <3>1, <4>1 DEF ExecutionPasses
    <3>3. ex'[u].prod # "ended" => ex'[u].prod = ex[u].prod /\ ex'[u].inbox = ex[u].inbox
      BY <3>1, PassFacts
    <3> QED BY <3>2, <3>3 DEF RunInv, OffersQueued
  <2>2. ASSUME NEW u \in Tasks, ex[u].prod # "ended", NEW n \in 1..Len(ex[u].inbox)
        PROVE  task'[ex[u].inbox[n]] = task[ex[u].inbox[n]]
    <3>1. ex[u].inbox \in Seq(Tasks)
      BY ProducerTypes
    <3>2. ex[u].inbox[n] \in Tasks /\ task[ex[u].inbox[n]].st = "offered"
      BY <2>2, <3>1 DEF RunInv, OffersQueued
    <3> QED BY <3>2, <1>1
  <2>3. ASSUME NEW u \in Tasks, ex'[u].prod # "ended"
        PROVE  \A n \in 1..Len(ex'[u].inbox) :
                 /\ task'[ex'[u].inbox[n]].st = "offered" /\ task'[ex'[u].inbox[n]].target = u
                 /\ \A m \in 1..Len(ex'[u].inbox) : ex'[u].inbox[m] = ex'[u].inbox[n] => m = n
    BY <2>1, <2>2, <2>3 DEF RunInv, OffersQueued
  <2> QED BY <2>1, <2>3 DEF OffersQueued
<1>8. ClaimsInOrder'
  <2>1. ASSUME NEW u \in Tasks, task'[u].st = "none"
        PROVE  f < u /\ \A v \in Tasks : u < v => task'[v].st = "none"
    <3>1. u # f /\ task[u].st = "none"
      BY <1>1, <2>1
    <3>2. f < u
      <4>1. u \in Nat /\ u >= 1 /\ f \in Nat
        BY <1>5, Numbers
      <4>2. u \notin 1..(f - 1)
        BY <3>1 DEF ClaimEffect
      <4> QED BY <3>1, <4>1, <4>2
    <3> QED BY <3>1, <3>2, <1>1, <1>4, <1>5 DEF RunInv, ClaimsInOrder
  <2>2. ASSUME NEW u \in Tasks PROVE task'[u].claim <= f /\ ex'[u].claim <= f
    <3>1. ex'[u].claim <= doc.resumeClaim
      BY <1>3, PassFacts
    <3>2. ex'[u].claim \in Nat
      <4>1. ex'[u] \in Executions
        BY DEF ClaimEffect
      <4> QED BY <4>1, BoundsAssumption DEF Executions
    <3>3. task[u].claim <= doc.resumeClaim
      BY DEF RunInv, ClaimsInOrder
    <3> QED BY <3>1, <3>2, <3>3, <1>1, <1>2, <1>4, <1>5
  <2> QED BY <2>1, <2>2, <1>1 DEF ClaimsInOrder
<1>9. CheckpointsForward'
  <2>1. ASSUME NEW u \in Tasks PROVE task'[u].resume <= doc'.checkpoint
    BY <1>1, <1>5 DEF RunInv, CheckpointsForward
  <2>2. ASSUME NEW u \in Tasks, NEW v \in Tasks, task'[u].claim < task'[v].claim
        PROVE  task'[u].resume <= task'[v].resume
    <3>1. CASE v = f
      BY <3>1, <2>1, <1>1
    <3>2. CASE v # f /\ u = f
      <4>1. task[v].claim <= doc.resumeClaim
        BY DEF RunInv, ClaimsInOrder
      <4> QED BY <3>2, <4>1, <2>2, <1>1, <1>2, <1>4, <1>5
    <3>3. CASE v # f /\ u # f
      BY <3>3, <2>2, <1>1 DEF RunInv, CheckpointsForward
    <3> QED BY <3>1, <3>2, <3>3
  <2>3. ASSUME NEW u \in Tasks, ex'[u].pc \in {"run", "publish", "wake", "final", "failed"}
        PROVE  doc'.checkpoint <= ex'[u].seen
    <3>1. /\ ex[u].pc \in {"run", "publish", "wake", "final", "failed"} /\ ex'[u].seen = ex[u].seen
      BY <2>3, <1>3, PassFacts
    <3> QED BY <3>1, <1>1 DEF RunInv, CheckpointsForward
  <2> QED BY <2>1, <2>2, <2>3 DEF CheckpointsForward
<1>10. EarlierClaimsPassed'
  <2> SUFFICES ASSUME NEW o \in Tasks, NEW r \in Tasks, Producing(o)', task'[r].claim < ex'[o].claim
               PROVE  /\ task'[r].resume <= ex'[o].at
                      /\ ex'[o].prod = "parked" => task'[r].resume < ex'[o].at
    BY DEF EarlierClaimsPassed
  <2>1. Producing(o) /\ ex'[o].at = ex[o].at /\ ex'[o].claim = ex[o].claim /\ ex'[o].prod = ex[o].prod
    BY <1>3, PassFacts
  <2>2. ex[o].claim <= doc.resumeClaim
    BY DEF RunInv, ClaimsInOrder
  <2>3. r # f
    BY <2>1, <2>2, <1>1, <1>2, <1>4, <1>5
  <2> QED BY <2>1, <2>3, <1>1 DEF RunInv, EarlierClaimsPassed
<1>11. StreamSettles'
  <2> SUFFICES ASSUME NEW u \in Tasks
               PROVE  /\ ex'[u].pc \in {"run", "publish", "wake"}
                           /\ ex'[u].prod \in {"parked", "draining", "ended"} =>
                           IF ex'[u].stream = <<>> THEN ex'[u].failed \/ ex'[u].status # "running"
                           ELSE ex'[u].stream[Len(ex'[u].stream)] # "resumed"
                      /\ ex'[u].pc \in {"publish", "final", "failed"} => ex'[u].status # "running"
                      /\ ex'[u].pc = "failed" => ex'[u].status # "waiting"
    BY DEF StreamSettles
  <2>1. /\ ex'[u].pc \in {"publish", "final", "failed"} => ex'[u] = ex[u]
        /\ ex'[u].pc \in {"run", "publish", "wake"} =>
              /\ ex[u].pc \in {"run", "publish", "wake"}
              /\ ex'[u].prod = ex[u].prod /\ ex'[u].status = ex[u].status
              /\ ex'[u].stream = ex[u].stream /\ ex'[u].failed = ex[u].failed
    BY <1>3, PassFacts
  <2> QED BY <2>1 DEF RunInv, StreamSettles
<1>12. WaitsNamed'
  BY <1>1, <1>3, PassFacts DEF WaitsNamed
<1>13. RunningIsClaimed'
  <2>1. ToLaunch(f)'
    BY <1>1 DEF ToLaunch, PendingTask
  <2> QED BY <2>1, <1>1 DEF RunningIsClaimed
<1> QED BY <1>0, <1>6, <1>7, <1>8, <1>9, <1>10, <1>11, <1>12, <1>13 DEF RunInv

\* What claim_resume does with a document that differs in its queue.
LEMMA ClaimFacts ==
  ASSUME RunInv, NEW d, OnlyQueue(d), NEW input \in Nat, ClaimResume(d, input),
         inputs' \in Nat, inputs <= inputs', input <= inputs', answered' \subseteq 1..waits,
         ex' \in [Tasks -> Executions], \A u \in Tasks : ExecutionPasses(u),
         UNCHANGED <<cps, owner, services, closed, restarts, faults, waits, oldWaits, incidents>>
  PROVE  RunInv'
<1>1. /\ CanLaunch /\ doc' = Claimed(d, input)
      /\ current' = (IF d.status \in {"stopped", "interrupted"} THEN 0 ELSE current)
  BY DEF ClaimResume
<1>2. PICK f : f = FreeTask
  OBVIOUS
<1>3. f \in Tasks /\ task[f].st = "none" /\ \A u \in 1..(f - 1) : task[u].st # "none"
  BY <1>1, <1>2, FreeTaskFacts
<1>4. d \in Documents /\ d.checkpoint = doc.checkpoint
  BY DEF OnlyQueue
<1>5. doc' = [d EXCEPT !.resumeInput = input, !.resumeCheckpoint = d.checkpoint,
              !.status = "running", !.wait = NoWait, !.abort = FALSE, !.resumeClaim = f]
  BY <1>1, <1>2 DEF Claimed
<1>6. /\ doc' \in Documents /\ doc'.status = "running" /\ doc'.resumeClaim = f
      /\ doc'.checkpoint = d.checkpoint /\ doc'.resumeCheckpoint = d.checkpoint
      /\ doc'.resumeInput = input /\ doc'.wait = NoWait
  <2>1. NoWait \in Waits
    BY DEF NoWait, Waits, WaitKinds
  <2>2. f \in 0..MaxTasks
    BY <1>3, BoundsAssumption DEF Tasks
  <2>3. PICK w \in Waits : w = NoWait
    BY <2>1
  <2>4. "running" \in Statuses
    BY DEF Statuses
  <2>5. d.checkpoint \in Nat
    BY <1>4 DEF Documents
  <2>6. PICK c \in Nat : c = d.checkpoint
    BY <2>5
  <2>7. PICK s \in Statuses : s = "running"
    BY <2>4
  <2>8. doc' = [d EXCEPT !.resumeInput = input, !.resumeCheckpoint = c,
                !.status = s, !.wait = w, !.abort = FALSE, !.resumeClaim = f]
    BY <1>5, <2>3, <2>6, <2>7
  <2>9. doc' \in Documents
    BY <1>4, <2>2, <2>8 DEF Documents
  <2>10. /\ doc'.status = s /\ doc'.resumeClaim = f /\ doc'.checkpoint = d.checkpoint
         /\ doc'.resumeCheckpoint = c /\ doc'.resumeInput = input /\ doc'.wait = w
    BY <1>4, <2>8 DEF Documents
  <2> QED BY <2>3, <2>6, <2>7, <2>9, <2>10
<1>7. PICK l : /\ l = [st |-> "new", claim |-> f, resume |-> d.checkpoint, input |-> input, target |-> 0]
               /\ task' = [task EXCEPT ![f] = l]
  BY <1>2 DEF ClaimResume
<1>8. l \in Launches
  <2>1. f \in 0..MaxTasks /\ 0 \in 0..MaxTasks
    BY <1>3, BoundsAssumption DEF Tasks
  <2>2. d.checkpoint \in Nat
    BY <1>4 DEF Documents
  <2> QED BY <1>7, <2>1, <2>2 DEF Launches
<1>9. task \in [Tasks -> Launches]
  BY DEF RunInv, RunTypeOK, Shapes
<1>10. task' \in [Tasks -> Launches] /\ (\A u \in Tasks \ {f} : task'[u] = task[u]) /\ task'[f] = l
  BY <1>3, <1>7, <1>8, <1>9
<1>11. ClaimEffect(f)
  BY <1>1, <1>3, <1>4, <1>6, <1>7, <1>10 DEF ClaimEffect
<1> QED BY <1>11, ClaimKeeps

LEMMA DocumentItself == ASSUME RunInv PROVE doc \in Documents /\ OnlyQueue(doc)
  BY DEF RunInv, RunTypeOK, Shapes, OnlyQueue

LEMMA ClaimCommandKeeps ==
  ASSUME RunInv, NEW d, OnlyQueue(d), NEW input \in Nat, ClaimResume(d, input),
         inputs' \in Nat, inputs <= inputs', input <= inputs', answered' \subseteq 1..waits,
         UNCHANGED <<owner, services, incidents>>, UNCHANGED commandVars
  PROVE  RunInv'
<1>1. ex' \in [Tasks -> Executions] /\ \A u \in Tasks : ExecutionPasses(u)
  BY DEF commandVars, ExecutionPasses, RunInv, RunTypeOK, Shapes
<1>2. UNCHANGED <<cps, owner, services, closed, restarts, faults, waits, oldWaits, incidents>>
  BY DEF commandVars
<1> QED BY <1>1, <1>2, ClaimFacts

LEMMA AnswerKeeps == ASSUME RunInv, Answer PROVE RunInv'
<1>1. PICK input : /\ input = IF doc.wait.kind = "model_selection" THEN 0 ELSE inputs + 1
                   /\ ClaimResume(doc, input) /\ doc.status = "waiting"
                   /\ answered' = answered \union {doc.wait.id}
                   /\ inputs' = IF input = 0 THEN inputs ELSE input
                   /\ UNCHANGED <<owner, services, incidents>> /\ UNCHANGED commandVars
  BY DEF Answer
<1>2. inputs \in Nat /\ waits \in Nat /\ answered \subseteq 1..waits /\ doc.wait.id <= waits
  BY DEF RunInv, RunTypeOK, Shapes
<1>3. doc.wait.id \in Nat /\ doc.wait.id # 0
  BY <1>1, DocumentItself DEF RunInv, WaitsNamed, Documents, Waits
<1>4. answered' \subseteq 1..waits
  <2>1. doc.wait.id \in 1..waits
    BY <1>2, <1>3
  <2> QED BY <1>1, <1>2, <2>1, Zenon
<1>5. input \in Nat /\ inputs' \in Nat /\ inputs <= inputs' /\ input <= inputs'
  BY <1>1, <1>2
<1>6. OnlyQueue(doc)
  BY DocumentItself
<1> QED BY <1>1, <1>4, <1>5, <1>6, ClaimCommandKeeps

LEMMA CommandNumbers ==
  ASSUME RunInv, UNCHANGED <<answered, inputs>>
  PROVE  inputs \in Nat /\ inputs' \in Nat /\ inputs <= inputs' /\ 0 <= inputs' /\ answered' \subseteq 1..waits
  BY DEF RunInv, RunTypeOK, Shapes

LEMMA QueueKeeps == ASSUME RunInv, NEW m \in Messages, Queue(m) PROVE RunInv'
<1>1. PICK s \in MessageStates : s = "pending"
  BY DEF MessageStates
<1>2. PICK d : /\ d = [doc EXCEPT !.queue[m] = s]
               /\ \/ ClaimResume(d, 0)
                  \/ doc' = d /\ UNCHANGED <<task, current>>
               /\ UNCHANGED <<owner, services, answered, inputs, incidents>> /\ UNCHANGED commandVars
  BY <1>1 DEF Queue
<1>3. OnlyQueue(d)
  BY <1>1, <1>2, DocumentItself, QueueSet
<1>4. CASE ClaimResume(d, 0)
  BY <1>2, <1>3, <1>4, CommandNumbers, ClaimCommandKeeps
<1>5. CASE doc' = d /\ UNCHANGED <<task, current>>
  BY <1>2, <1>3, <1>5, QueuedKeeps
<1> QED BY <1>2, <1>4, <1>5

LEMMA ResumeKeeps == ASSUME RunInv, NEW S \in SUBSET Messages, Resume(S) PROVE RunInv'
<1>1. PICK q : q = [m \in Messages |-> IF m \in S THEN "pending" ELSE doc.queue[m]]
  OBVIOUS
<1>2. q \in [Messages -> MessageStates]
  BY <1>1, DocumentItself DEF Documents, MessageStates
<1>3. PICK d : /\ d = [doc EXCEPT !.queue = q] /\ ClaimResume(d, doc.resumeInput)
               /\ UNCHANGED <<owner, services, answered, inputs, incidents>> /\ UNCHANGED commandVars
  BY <1>1 DEF Resume
<1>4. OnlyQueue(d)
  BY <1>2, <1>3, DocumentItself, QueueWith
<1>5. doc.resumeInput \in Nat /\ doc.resumeInput <= inputs'
  BY <1>3, DocumentItself DEF RunInv, RunTypeOK, Documents
<1> QED BY <1>3, <1>4, <1>5, CommandNumbers, ClaimCommandKeeps

-----------------------------------------------------------------------------
(* The consumer.  It changes its own execution and the document. *)

ConsumerFrame(t) ==
    /\ ex' \in [Tasks -> Executions] /\ \A u \in Tasks \ {t} : ex'[u] = ex[u]
    /\ UNCHANGED <<cps, task, owner, closed, restarts, oldWaits, answered, inputs>>
    /\ services' \in Seq(ServiceObjects) /\ Len(services) <= Len(services')
    /\ current' \in Nat /\ current' <= Len(services') /\ faults' \in Nat
    /\ waits' \in Nat /\ waits <= waits' /\ incidents' \in SUBSET Incidents

ConsumerDocument ==
    /\ doc' \in Documents /\ doc'.resumeClaim = doc.resumeClaim
    /\ doc.checkpoint <= doc'.checkpoint /\ doc'.checkpoint <= Len(cps)
    /\ doc'.resumeCheckpoint <= Len(cps) /\ doc'.resumeInput <= inputs
    /\ doc'.wait.id <= waits' /\ (doc'.status = "waiting" => doc'.wait.id # 0)

ConsumerReferences(t) ==
    /\ ex'[t].at <= Len(cps) /\ ex'[t].seen <= Len(cps) /\ ex'[t].input <= inputs
    /\ ex'[t].wait.id <= waits' /\ ex'[t].svc <= Len(services')
    /\ (ex'[t].status = "waiting" => ex'[t].wait.id # 0)
    /\ ex'[t].claim \in {0, ex[t].claim, task[t].claim, doc.resumeClaim}

ConsumerPlace(t) ==
    /\ ex[t].pc # "off" /\ ex'[t].pc \notin {"off", "load"}
    /\ (Producing(t)' =>
         /\ ex'[t].pc \in {"run", "publish", "wake"}
         /\ \/ ex'[t].at = ex[t].at /\ ex'[t].prod = ex[t].prod /\ ex'[t].claim = ex[t].claim
            \/ ex'[t].at = task[t].resume /\ ex'[t].claim = task[t].claim /\ ex'[t].prod = "run")
    /\ (ex'[t].prod # "ended" => ex[t].prod # "ended" /\ ex'[t].inbox = ex[t].inbox)
    /\ (ex'[t].pc \in {"run", "publish", "wake", "final", "failed"} => doc'.checkpoint <= ex'[t].seen)

\* What StreamSettles says of an execution.
Settles(e) ==
    /\ e.pc \in {"run", "publish", "wake"} /\ e.prod \in {"parked", "draining", "ended"} =>
         IF e.stream = <<>> THEN e.failed \/ e.status # "running"
         ELSE e.stream[Len(e.stream)] # "resumed"
    /\ e.pc \in {"publish", "final", "failed"} => e.status # "running"
    /\ e.pc = "failed" => e.status # "waiting"

StillRuns(t) ==
    doc'.status = "running" /\ "unrecorded failure" \notin incidents' =>
         /\ doc.status = "running" /\ "unrecorded failure" \notin incidents
         /\ InExecution(t) => InExecution(t)'

ConsumerEffect(t) ==
    /\ ConsumerFrame(t) /\ ConsumerDocument /\ ConsumerReferences(t) /\ ConsumerPlace(t)
    /\ Settles(ex'[t]) /\ StillRuns(t)

LEMMA ConsumerTypes ==
  ASSUME RunInv, NEW t \in Tasks, ConsumerEffect(t) PROVE RunTypeOK'
<1>1. Shapes'
  BY DEF RunInv, RunTypeOK, Shapes, ConsumerEffect, ConsumerFrame, ConsumerDocument, ConsumerReferences, ConsumerPlace, Settles, StillRuns, ServiceObjects
<1>2. References'
  <2>0. References
    BY TypeParts DEF RunInv
  <2>1. /\ UNCHANGED <<cps, task, oldWaits, answered, inputs>>
        /\ waits \in Nat /\ waits' \in Nat /\ waits <= waits' /\ oldWaits \in Nat
        /\ Len(services) \in Nat /\ Len(services') \in Nat /\ Len(services) <= Len(services')
    <3>1. services' \in Seq(ServiceObjects) /\ services \in Seq(ServiceObjects)
      BY DEF ConsumerEffect, ConsumerFrame, ConsumerDocument, ConsumerReferences, ConsumerPlace, Settles, StillRuns, RunInv, RunTypeOK, Shapes, ServiceObjects
    <3>2. Len(services) \in Nat /\ Len(services') \in Nat
      BY <3>1
    <3> QED BY <3>2 DEF ConsumerEffect, ConsumerFrame, ConsumerDocument, ConsumerReferences, ConsumerPlace, Settles, StillRuns, RunInv, RunTypeOK, Shapes
  <2>2. /\ doc'.wait.id <= waits' /\ doc'.resumeInput <= inputs'
        /\ doc'.checkpoint <= Len(cps') /\ doc'.resumeCheckpoint <= Len(cps')
        /\ current' <= Len(services')
    BY <2>1 DEF ConsumerEffect, ConsumerFrame, ConsumerDocument, ConsumerReferences, ConsumerPlace, Settles, StillRuns
  <2>3. /\ \A k \in 1..Len(cps') :
             cps'[k].from < k /\ cps'[k].input <= inputs' /\ cps'[k].inputs \subseteq 1..inputs'
        /\ answered' \subseteq 1..waits' /\ oldWaits' <= waits'
    BY <2>0, <2>1 DEF References
  <2>4. ASSUME NEW u \in Tasks
        PROVE  /\ task'[u].resume <= Len(cps') /\ task'[u].input <= inputs'
               /\ task'[u].claim \in {0, u}
    BY <2>0, <2>1 DEF References
  <2>5. ASSUME NEW u \in Tasks
        PROVE  /\ ex'[u].at <= Len(cps') /\ ex'[u].seen <= Len(cps') /\ ex'[u].input <= inputs'
               /\ ex'[u].wait.id <= waits' /\ ex'[u].svc <= Len(services')
    <3>1. CASE u = t
      BY <3>1, <2>1 DEF ConsumerEffect, ConsumerFrame, ConsumerDocument, ConsumerReferences, ConsumerPlace, Settles, StillRuns
    <3>2. CASE u # t
      <4>1. ex[u].wait.id \in Nat /\ ex[u].svc \in Nat /\ ex'[u] = ex[u]
        <5>1. ex[u] \in Executions
          BY Numbers
        <5> QED BY ZenonT(60), <5>1, <3>2
               DEF Executions, Waits, ConsumerEffect, ConsumerFrame, ConsumerDocument,
                   ConsumerReferences, ConsumerPlace, Settles, StillRuns
      <4> QED BY <4>1, <2>0, <2>1 DEF References
    <3> QED BY <3>1, <3>2
  <2> QED BY <2>2, <2>3, <2>4, <2>5 DEF References
<1> QED BY <1>1, <1>2, TypePartsNext

LEMMA ConsumerKeeps ==
  ASSUME RunInv, NEW t \in Tasks, ConsumerEffect(t) PROVE RunInv'
<1>0. RunTypeOK'
  BY ConsumerTypes
<1>1. UNCHANGED <<cps, task, owner>> /\ \A u \in Tasks \ {t} : ex'[u] = ex[u]
  BY DEF ConsumerEffect, ConsumerFrame, ConsumerDocument, ConsumerReferences, ConsumerPlace, Settles, StillRuns
<1>2. /\ doc'.resumeClaim = doc.resumeClaim /\ doc.checkpoint <= doc'.checkpoint
      /\ doc.checkpoint \in Nat /\ doc'.checkpoint \in Nat /\ doc.resumeClaim \in Nat
  BY Numbers DEF ConsumerEffect, ConsumerFrame, ConsumerDocument, ConsumerReferences, ConsumerPlace, Settles, StillRuns, Documents
<1>3. OneOwner'
  <2>1. ASSUME NEW u \in Tasks
        PROVE  /\ (task'[u].st = "owner") <=> (owner' = u)
               /\ (owner' = u) <=> (ex'[u].pc # "off")
               /\ Producing(u)' => ex'[u].pc \in {"run", "publish", "wake"}
               /\ ex'[u].pc = "load" => ex'[u].prod = "off"
    <3>1. CASE u = t
      BY <3>1, <1>1 DEF ConsumerEffect, ConsumerFrame, ConsumerDocument, ConsumerReferences, ConsumerPlace, Settles, StillRuns, RunInv, OneOwner
    <3>2. CASE u # t
      BY <3>2, <1>1 DEF RunInv, OneOwner, Producing
    <3> QED BY <3>1, <3>2
  <2> QED BY <2>1 DEF OneOwner
<1>4. \A u \in Tasks \ {t} : ex[u].pc = "off" /\ ~Producing(u)
  BY DEF ConsumerEffect, ConsumerFrame, ConsumerDocument, ConsumerReferences, ConsumerPlace, Settles, StillRuns, RunInv, OneOwner
<1>5. OffersQueued'
  <2>1. ASSUME NEW u \in Tasks
        PROVE  /\ ex'[u].pc = "off" => (ex'[u].inbox = <<>> /\ ex'[u].prod = "off")
               /\ ex'[u].prod # "ended" => ex[u].prod # "ended" /\ ex'[u].inbox = ex[u].inbox
    <3>1. CASE u = t
      BY <3>1 DEF ConsumerEffect, ConsumerFrame, ConsumerDocument, ConsumerReferences, ConsumerPlace, Settles, StillRuns
    <3>2. CASE u # t
      BY <3>2, <1>1 DEF RunInv, OffersQueued
    <3> QED BY <3>1, <3>2
  <2> QED BY <2>1, <1>1 DEF RunInv, OffersQueued
<1>6. ClaimsInOrder'
  <2>1. ASSUME NEW u \in Tasks PROVE ex'[u].claim <= doc'.resumeClaim
    <3>1. CASE u = t
      <4>1. ex'[t].claim \in {0, ex[t].claim, task[t].claim, doc.resumeClaim}
        BY DEF ConsumerEffect, ConsumerFrame, ConsumerDocument, ConsumerReferences, ConsumerPlace, Settles, StillRuns
      <4>2. ex[t].claim <= doc.resumeClaim /\ task[t].claim <= doc.resumeClaim
        BY DEF RunInv, ClaimsInOrder
      <4> QED BY <3>1, <4>1, <4>2, <1>2
    <3>2. CASE u # t
      BY <3>2, <1>1, <1>2 DEF RunInv, ClaimsInOrder
    <3> QED BY <3>1, <3>2
  <2> QED BY <2>1, <1>1, <1>2 DEF RunInv, ClaimsInOrder
<1>7. CheckpointsForward'
  <2>1. ASSUME NEW u \in Tasks PROVE task'[u].resume <= doc'.checkpoint
    <3>1. task[u].resume \in Nat /\ task[u].resume <= doc.checkpoint
      BY Numbers DEF RunInv, CheckpointsForward
    <3> QED BY <3>1, <1>1, <1>2
  <2>2. ASSUME NEW u \in Tasks, ex'[u].pc \in {"run", "publish", "wake", "final", "failed"}
        PROVE  doc'.checkpoint <= ex'[u].seen
    <3>1. u = t
      BY <2>2, <1>1, <1>4
    <3> QED BY <2>2, <3>1 DEF ConsumerEffect, ConsumerFrame, ConsumerDocument, ConsumerReferences, ConsumerPlace, Settles, StillRuns
  <2> QED BY <2>1, <2>2, <1>1 DEF RunInv, CheckpointsForward
<1>8. EarlierClaimsPassed'
  <2> SUFFICES ASSUME NEW o \in Tasks, NEW r \in Tasks, Producing(o)', task'[r].claim < ex'[o].claim
               PROVE  /\ task'[r].resume <= ex'[o].at
                      /\ ex'[o].prod = "parked" => task'[r].resume < ex'[o].at
    BY DEF EarlierClaimsPassed
  <2>1. o = t
    BY <1>1, <1>4 DEF Producing
  <2>2. CASE ex'[t].at = ex[t].at /\ ex'[t].prod = ex[t].prod /\ ex'[t].claim = ex[t].claim
    <3>1. Producing(t)
      BY <2>1, <2>2 DEF Producing
    <3> QED BY <2>1, <2>2, <3>1, <1>1 DEF RunInv, EarlierClaimsPassed
  <2>3. CASE ex'[t].at = task[t].resume /\ ex'[t].claim = task[t].claim /\ ex'[t].prod = "run"
    BY <2>1, <2>3, <1>1 DEF RunInv, CheckpointsForward
  <2> QED BY <2>1, <2>2, <2>3 DEF ConsumerEffect, ConsumerFrame, ConsumerDocument, ConsumerReferences, ConsumerPlace, Settles, StillRuns
<1>9. StreamSettles'
  <2>1. ASSUME NEW u \in Tasks
        PROVE  /\ ex'[u].pc \in {"run", "publish", "wake"}
                    /\ ex'[u].prod \in {"parked", "draining", "ended"} =>
                    IF ex'[u].stream = <<>> THEN ex'[u].failed \/ ex'[u].status # "running"
                    ELSE ex'[u].stream[Len(ex'[u].stream)] # "resumed"
               /\ ex'[u].pc \in {"publish", "final", "failed"} => ex'[u].status # "running"
               /\ ex'[u].pc = "failed" => ex'[u].status # "waiting"
    <3>1. CASE u = t
      BY <3>1 DEF ConsumerEffect, ConsumerFrame, ConsumerDocument, ConsumerReferences, ConsumerPlace, Settles, StillRuns
    <3>2. CASE u # t
      BY <3>2, <1>1, <1>4
    <3> QED BY <3>1, <3>2
  <2> QED BY <2>1 DEF StreamSettles
<1>10. WaitsNamed'
  BY <1>1 DEF ConsumerEffect, ConsumerFrame, ConsumerDocument, ConsumerReferences, ConsumerPlace, Settles, StillRuns, RunInv, WaitsNamed
<1>11. RunningIsClaimed'
  <2> SUFFICES ASSUME doc'.status = "running", "unrecorded failure" \notin incidents'
               PROVE  \E u \in Tasks : ToLaunch(u)' \/ InExecution(u)'
    BY DEF RunningIsClaimed
  <2>1. /\ doc.status = "running" /\ "unrecorded failure" \notin incidents
        /\ InExecution(t) => InExecution(t)'
    BY DEF ConsumerEffect, ConsumerFrame, ConsumerDocument, ConsumerReferences, ConsumerPlace, Settles, StillRuns
  <2>2. PICK u \in Tasks : ToLaunch(u) \/ InExecution(u)
    BY <2>1 DEF RunInv, RunningIsClaimed
  <2>3. CASE ToLaunch(u)
    <3>1. ToLaunch(u)'
      BY <2>3, <1>1, <1>2 DEF ToLaunch, PendingTask
    <3> QED BY <3>1
  <2>4. CASE InExecution(u)
    <3>1. u = t
      BY <2>4, <1>4 DEF InExecution
    <3> QED BY <2>1, <2>4, <3>1
  <2> QED BY <2>2, <2>3, <2>4
<1> QED BY <1>0, <1>3, <1>5, <1>6, <1>7, <1>8, <1>9, <1>10, <1>11 DEF RunInv

\* The facts about a state that the steps of its consumer start from.
LEMMA ConsumerStart ==
  ASSUME RunInv, NEW t \in Tasks
  PROVE  /\ ex \in [Tasks -> Executions] /\ ex[t] \in Executions /\ doc \in Documents
         /\ services \in Seq(ServiceObjects) /\ Len(services) \in Nat /\ current \in Nat
         /\ current <= Len(services) /\ faults \in Nat /\ waits \in Nat /\ inputs \in Nat
         /\ incidents \in SUBSET Incidents /\ cps \in Seq(Checkpoints) /\ Len(cps) \in Nat
         /\ doc.checkpoint \in Nat /\ doc.checkpoint <= Len(cps)
         /\ doc.resumeCheckpoint <= Len(cps) /\ doc.resumeInput <= inputs
         /\ doc.wait.id <= waits /\ (doc.status = "waiting" => doc.wait.id # 0)
         /\ ex[t].at <= Len(cps) /\ ex[t].seen <= Len(cps) /\ ex[t].input <= inputs
         /\ ex[t].wait.id <= waits /\ ex[t].svc <= Len(services)
         /\ (ex[t].status = "waiting" => ex[t].wait.id # 0)
         /\ (Producing(t) => ex[t].pc \in {"run", "publish", "wake"})
<1>1. RunTypeOK
  BY DEF RunInv
<1>2. /\ ex \in [Tasks -> Executions] /\ ex[t] \in Executions /\ doc \in Documents
      /\ services \in Seq(ServiceObjects) /\ Len(services) \in Nat /\ current \in Nat
      /\ current <= Len(services) /\ faults \in Nat /\ waits \in Nat /\ inputs \in Nat
      /\ incidents \in SUBSET Incidents /\ cps \in Seq(Checkpoints) /\ Len(cps) \in Nat
  BY <1>1 DEF RunTypeOK, Shapes, ServiceObjects
<1>3. /\ doc.checkpoint <= Len(cps)
      /\ doc.resumeCheckpoint <= Len(cps) /\ doc.resumeInput <= inputs
      /\ doc.wait.id <= waits
      /\ ex[t].at <= Len(cps) /\ ex[t].seen <= Len(cps) /\ ex[t].input <= inputs
      /\ ex[t].wait.id <= waits /\ ex[t].svc <= Len(services)
  BY <1>1 DEF RunTypeOK
<1>4. doc.checkpoint \in Nat
  BY <1>2 DEF Documents
<1>5. /\ (doc.status = "waiting" => doc.wait.id # 0)
      /\ (ex[t].status = "waiting" => ex[t].wait.id # 0)
      /\ (Producing(t) => ex[t].pc \in {"run", "publish", "wake"})
  BY DEF RunInv, WaitsNamed, OneOwner
<1> QED BY <1>2, <1>3, <1>4, <1>5

LEMMA FlushKeeps == ASSUME RunInv, NEW t \in Tasks, Flush(t) PROVE RunInv'
<1>1. PICK k \in (doc.checkpoint + 1)..Len(cps) :
        /\ ex[t].seen <= k /\ ex' = [ex EXCEPT ![t].seen = k] /\ doc' = [doc EXCEPT !.checkpoint = k]
  BY DEF Flush
<1>2. /\ UNCHANGED <<task, current, waits, cps, owner, services, closed, restarts, faults, oldWaits,
                     answered, inputs, incidents>>
      /\ ex[t].pc \in {"run", "publish", "final"}
  BY DEF Flush, consumerVars
<1>3. k \in Nat /\ doc.checkpoint <= k /\ k <= Len(cps)
  BY ConsumerStart
<1>4. PICK g : g = [ex[t] EXCEPT !.seen = k] /\ ex' = [ex EXCEPT ![t] = g]
  BY <1>1, ConsumerStart DEF Executions
<1>5. g \in Executions
  <2>1. ex[t] \in Executions
    BY ConsumerStart
  <2> QED BY <1>3, <1>4, <2>1 DEF Executions
<1>6. /\ g.pc = ex[t].pc /\ g.prod = ex[t].prod /\ g.status = ex[t].status /\ g.seen = k
      /\ g.wait = ex[t].wait /\ g.claim = ex[t].claim /\ g.svc = ex[t].svc /\ g.inbox = ex[t].inbox
      /\ g.failed = ex[t].failed /\ g.at = ex[t].at /\ g.input = ex[t].input
      /\ g.stream = ex[t].stream
  BY <1>4, ConsumerStart DEF Executions
<1>7. ex' \in [Tasks -> Executions] /\ (\A u \in Tasks \ {t} : ex'[u] = ex[u]) /\ ex'[t] = g
  BY <1>4, <1>5, ConsumerStart
<1>8. doc' \in Documents
  <2>1. doc \in Documents
    BY ConsumerStart
  <2> QED BY <1>1, <1>3, <2>1 DEF Documents
<1>9. /\ doc'.checkpoint = k /\ doc'.status = doc.status /\ doc'.wait = doc.wait
      /\ doc'.resumeClaim = doc.resumeClaim /\ doc'.resumeCheckpoint = doc.resumeCheckpoint
      /\ doc'.resumeInput = doc.resumeInput
  BY <1>1, ConsumerStart DEF Documents
<1>10. InExecution(t) => InExecution(t)'
  BY <1>2, <1>6, <1>7, <1>9 DEF InExecution, ClaimOf
<1>11. Settles(ex'[t])
  BY <1>6, <1>7 DEF Settles, RunInv, StreamSettles
<1>12. ConsumerFrame(t)
  BY <1>2, <1>7, ConsumerStart DEF ConsumerFrame
<1>13. ConsumerDocument
  BY <1>2, <1>3, <1>8, <1>9, ConsumerStart DEF ConsumerDocument
<1>14. ConsumerReferences(t)
  BY <1>2, <1>3, <1>6, <1>7, ConsumerStart DEF ConsumerReferences
<1>15. ConsumerPlace(t)
  <2>1. Producing(t)' => Producing(t)
    BY <1>6, <1>7 DEF Producing
  <2> QED BY <2>1, <1>2, <1>3, <1>6, <1>7, <1>9, ConsumerStart DEF ConsumerPlace
<1>16. StillRuns(t)
  BY <1>2, <1>9, <1>10 DEF StillRuns
<1> QED BY <1>11, <1>12, <1>13, <1>14, <1>15, <1>16, ConsumerKeeps DEF ConsumerEffect

\* An execution is replaced and the document is left alone.
LEMMA FrameWith ==
  ASSUME RunInv, NEW t \in Tasks, NEW g \in Executions, ex' = [ex EXCEPT ![t] = g],
         waits' \in {waits, waits + 1}, UNCHANGED <<doc, task, current>>, UNCHANGED consumerVars
  PROVE  ConsumerFrame(t) /\ ConsumerDocument /\ ex'[t] = g
<1>1. ex' \in [Tasks -> Executions] /\ (\A u \in Tasks \ {t} : ex'[u] = ex[u]) /\ ex'[t] = g
  BY ConsumerStart
<1>2. waits' \in Nat /\ waits <= waits'
  BY ConsumerStart
<1>3. ConsumerFrame(t)
  BY <1>1, <1>2, ConsumerStart DEF ConsumerFrame, consumerVars
<1>4. doc.wait.id \in Nat
  BY ConsumerStart DEF Documents, Waits
<1>5. ConsumerDocument
  BY <1>2, <1>4, ConsumerStart DEF ConsumerDocument
<1> QED BY <1>1, <1>3, <1>5

LEMMA TakeEventKeeps == ASSUME RunInv, NEW t \in Tasks, TakeEvent(t) PROVE RunInv'
<1>1. /\ ex[t] \in Executions /\ ex[t].pc = "run" /\ ex[t].stream # <<>>
      /\ UNCHANGED <<doc, task, current>> /\ UNCHANGED consumerVars
  BY ConsumerStart DEF TakeEvent
<1>2. PICK z : z = Tail(ex[t].stream)
  OBVIOUS
<1>3. PICK v : v = Head(ex[t].stream)
  OBVIOUS
<1>4. /\ z \in Seq(StreamEvents) /\ v \in StreamEvents
      /\ z = <<>> => v = ex[t].stream[Len(ex[t].stream)]
      /\ z # <<>> => z[Len(z)] = ex[t].stream[Len(ex[t].stream)]
  <2> DEFINE s == ex[t].stream
  <2>1. s \in Seq(StreamEvents) /\ s # <<>>
    BY <1>1 DEF Executions
  <2> HIDE DEF s
  <2>2. /\ Head(s) \in StreamEvents /\ Head(s) = s[1] /\ Tail(s) \in Seq(StreamEvents)
        /\ Len(s) \in Nat /\ Len(s) >= 1 /\ Len(Tail(s)) = Len(s) - 1
        /\ (Tail(s) = <<>> <=> Len(s) = 1)
        /\ \A k \in 1..Len(Tail(s)) : Tail(s)[k] = s[k + 1]
    BY <2>1, TailFacts
  <2>3. Tail(s) = <<>> => Head(s) = s[Len(s)]
    BY <2>2
  <2>4. Tail(s) # <<>> => Tail(s)[Len(Tail(s))] = s[Len(s)]
    <3>1. Tail(s) # <<>> => Len(Tail(s)) \in 1..Len(Tail(s)) /\ Len(Tail(s)) + 1 = Len(s)
      BY <2>2
    <3> QED BY <2>2, <3>1
  <2> QED BY <2>2, <2>3, <2>4, <1>2, <1>3 DEF s
<1>5. PICK rest : rest = [ex[t] EXCEPT !.stream = z]
  OBVIOUS
<1>6. rest \in Executions
  BY <1>1, <1>4, <1>5 DEF Executions
<1>7. /\ rest.pc = "run" /\ rest.prod = ex[t].prod /\ rest.status = ex[t].status /\ rest.seen = ex[t].seen
      /\ rest.wait = ex[t].wait /\ rest.claim = ex[t].claim /\ rest.svc = ex[t].svc
      /\ rest.inbox = ex[t].inbox /\ rest.failed = ex[t].failed /\ rest.at = ex[t].at
      /\ rest.input = ex[t].input /\ rest.stream = z
  BY <1>1, <1>5 DEF Executions
<1>8. PICK wait : wait = [id |-> waits + 1, kind |-> v]
  OBVIOUS
<1>9. wait.id = waits + 1
  BY <1>8
<1>10. PICK g : /\ ex' = [ex EXCEPT ![t] = g] /\ g \in Executions /\ waits' \in {waits, waits + 1}
                /\ g.prod = ex[t].prod /\ g.claim = ex[t].claim /\ g.svc = ex[t].svc
                /\ g.inbox = ex[t].inbox /\ g.at = ex[t].at /\ g.input = ex[t].input /\ g.stream = z
                /\ g.pc \in {"run", "publish"} /\ g.seen \in {ex[t].seen, Len(cps)}
                /\ (g.wait \in {ex[t].wait, NoWait} \/ g.wait.id = waits')
                /\ (g.status = "waiting" => g.wait.id # 0)
                /\ (v # "resumed" => g.failed \/ g.status # "running")
                /\ (g.pc = "publish" => g.status # "running")
  <2>0. NoWait \in Waits /\ waits \in Nat /\ Len(cps) \in Nat
    BY ConsumerStart DEF NoWait, Waits, WaitKinds
  <2>1. CASE v \in {"resumed", "done"}
    <3>1. PICK s \in Statuses : s = IF v = "resumed" THEN "running" ELSE "completed"
      BY DEF Statuses
    <3>2. PICK w \in Waits : w = NoWait
      BY <2>0
    <3>3. PICK g : g = [rest EXCEPT !.status = s, !.wait = w]
      OBVIOUS
    <3>4. ex' = [ex EXCEPT ![t] = g] /\ waits' = waits
      BY <2>1, <3>1, <3>2, <3>3, <1>2, <1>3, <1>5 DEF TakeEvent
    <3>5. g \in Executions
      BY <1>6, <3>3 DEF Executions
    <3>6. /\ g.prod = rest.prod /\ g.claim = rest.claim /\ g.svc = rest.svc
          /\ g.inbox = rest.inbox /\ g.at = rest.at /\ g.input = rest.input /\ g.stream = rest.stream
          /\ g.pc = rest.pc /\ g.seen = rest.seen /\ g.wait = w /\ g.status = s
      BY <1>6, <3>3 DEF Executions
    <3> QED BY <3>1, <3>2, <3>4, <3>5, <3>6, <1>7
  <2>2. CASE v = "failed"
    <3>1. PICK g : g = [rest EXCEPT !.failed = TRUE]
      OBVIOUS
    <3>2. ex' = [ex EXCEPT ![t] = g] /\ waits' = waits
      BY <2>2, <3>1, <1>2, <1>3, <1>5 DEF TakeEvent
    <3>3. g \in Executions
      BY <1>6, <3>1 DEF Executions
    <3>4. /\ g.prod = rest.prod /\ g.claim = rest.claim /\ g.svc = rest.svc
          /\ g.inbox = rest.inbox /\ g.at = rest.at /\ g.input = rest.input /\ g.stream = rest.stream
          /\ g.pc = rest.pc /\ g.seen = rest.seen /\ g.wait = rest.wait /\ g.status = rest.status
      BY <1>6, <3>1 DEF Executions
    <3>5. g.failed \/ g.status # "running"
      <4>1. g.failed = TRUE
        BY <1>6, <3>1 DEF Executions
      <4> QED BY <4>1, Zenon
    <3>6. g.status = "waiting" => g.wait.id # 0
      BY <3>4, <1>7, ConsumerStart
    <3> QED BY <3>2, <3>3, <3>4, <3>5, <3>6, <1>7
  <2>3. CASE v \notin {"resumed", "done", "failed"}
    <3>1. PICK s \in Statuses : s = IF v = "stopped" THEN "stopped" ELSE "waiting"
      BY DEF Statuses
    <3>2. wait \in Waits
      BY <2>0, <2>3, <1>4, <1>8 DEF Waits, WaitKinds, StreamEvents
    <3>3. PICK p \in {"run", "publish"} : p = IF ex[t].kids THEN "publish" ELSE "run"
      OBVIOUS
    <3>4. PICK a \in BOOLEAN : a = ex[t].kids
      BY <1>1 DEF Executions
    <3>5. PICK n \in Nat : n = Len(cps)
      BY <2>0
    <3>6. PICK g : g = [rest EXCEPT !.seen = n, !.wait = wait, !.status = s, !.active = a, !.pc = p]
      OBVIOUS
    <3>7. ex' = [ex EXCEPT ![t] = g] /\ waits' = waits + 1
      BY <2>3, <3>1, <3>3, <3>4, <3>5, <3>6, <1>2, <1>3, <1>5, <1>8 DEF TakeEvent
    <3>8. g \in Executions
      BY <1>6, <3>2, <3>6 DEF Executions
    <3>9. /\ g.prod = rest.prod /\ g.claim = rest.claim /\ g.svc = rest.svc
          /\ g.inbox = rest.inbox /\ g.at = rest.at /\ g.input = rest.input /\ g.stream = rest.stream
          /\ g.pc = p /\ g.seen = n /\ g.wait = wait /\ g.status = s
      BY <1>6, <3>6 DEF Executions
    <3>10. g.wait.id = waits' /\ g.wait.id # 0 /\ g.status # "running"
      BY <2>0, <3>1, <3>7, <3>9, <1>9
    <3>11. g.failed \/ g.status # "running"
      BY <3>10
    <3> QED BY <3>5, <3>7, <3>8, <3>9, <3>10, <3>11, <1>7
  <2> QED BY <2>1, <2>2, <2>3
<1>11. ConsumerFrame(t) /\ ConsumerDocument /\ ex'[t] = g
  BY <1>1, <1>10, FrameWith
<1>12. ConsumerReferences(t)
  <2>1. ex[t].wait.id \in Nat /\ waits \in Nat
    BY <1>1, ConsumerStart DEF Executions, Waits
  <2>2. g.wait.id <= waits'
    BY <2>1, <1>10, ConsumerStart DEF NoWait
  <2> QED BY <2>2, <1>1, <1>10, <1>11, ConsumerStart DEF ConsumerReferences, consumerVars
<1>13. ConsumerPlace(t)
  <2>1. Producing(t)' => Producing(t)
    BY <1>10, <1>11 DEF Producing
  <2>2. doc.checkpoint <= g.seen
    BY <1>1, <1>10, ConsumerStart DEF RunInv, CheckpointsForward
  <2> QED BY <2>1, <2>2, <1>1, <1>10, <1>11 DEF ConsumerPlace
<1>14. Settles(ex'[t])
  <2>1. ex[t].prod \in {"parked", "draining", "ended"} => ex[t].stream[Len(ex[t].stream)] # "resumed"
    BY <1>1 DEF RunInv, StreamSettles
  <2> QED BY <2>1, <1>4, <1>10, <1>11 DEF Settles
<1>15. StillRuns(t)
  <2>1. InExecution(t) => InExecution(t)'
    BY <1>1, <1>10, <1>11 DEF InExecution, ClaimOf
  <2> QED BY <2>1, <1>1 DEF StillRuns, consumerVars
<1> QED BY <1>11, <1>12, <1>13, <1>14, <1>15, ConsumerKeeps DEF ConsumerEffect

LEMMA StreamClosedKeeps == ASSUME RunInv, NEW t \in Tasks, StreamClosed(t) PROVE RunInv'
<1>1. /\ ex[t] \in Executions /\ ex[t].pc = "run" /\ ex[t].prod = "ended" /\ ex[t].stream = <<>>
      /\ UNCHANGED <<doc, task, current, waits>> /\ UNCHANGED consumerVars
  BY ConsumerStart DEF StreamClosed
<1>2. PICK s : /\ s = IF Cancelled(t) /\ doc.abort THEN "stopped"
                      ELSE IF Cancelled(t) /\ closed THEN "interrupted"
                      ELSE IF ex[t].failed
                      THEN IF doc.abort THEN "stopped" ELSE IF closed THEN "interrupted" ELSE "error"
                      ELSE ex[t].status
               /\ ex' = [ex EXCEPT ![t] = [ex[t] EXCEPT !.pc = "final", !.seen = Len(cps),
                                             !.active = FALSE, !.status = s]]
  BY ConsumerStart DEF StreamClosed, Executions
<1>3. s \in {"stopped", "interrupted", "error"} \/ (~ex[t].failed /\ s = ex[t].status)
  BY <1>2
<1>4. ex[t].failed \/ ex[t].status # "running"
  BY <1>1 DEF RunInv, StreamSettles
<1>5. s # "running" /\ s \in Statuses /\ (s = "waiting" => ex[t].status = "waiting")
  <2>1. s \in {"stopped", "interrupted", "error"} \/ (s = ex[t].status /\ ex[t].status # "running")
    BY <1>3, <1>4, Zenon
  <2>2. ex[t].status \in Statuses
    BY <1>1 DEF Executions
  <2> QED BY <2>1, <2>2 DEF Statuses
<1>6. PICK n \in Nat : n = Len(cps)
  BY ConsumerStart
<1>7. PICK g : /\ g = [ex[t] EXCEPT !.pc = "final", !.seen = n, !.active = FALSE, !.status = s]
               /\ ex' = [ex EXCEPT ![t] = g]
  BY <1>2, <1>6
<1>8. g \in Executions
  BY <1>1, <1>5, <1>7 DEF Executions
<1>9. /\ g.pc = "final" /\ g.prod = "ended" /\ g.status = s /\ g.seen = n /\ g.wait = ex[t].wait
      /\ g.claim = ex[t].claim /\ g.svc = ex[t].svc /\ g.at = ex[t].at /\ g.input = ex[t].input
  BY <1>1, <1>7 DEF Executions
<1>10. ConsumerFrame(t) /\ ConsumerDocument /\ ex'[t] = g
  BY <1>1, <1>7, <1>8, FrameWith
<1>11. ConsumerReferences(t)
  BY <1>1, <1>5, <1>6, <1>9, <1>10, ConsumerStart DEF ConsumerReferences, consumerVars
<1>12. ConsumerPlace(t)
  BY <1>1, <1>6, <1>9, <1>10, ConsumerStart DEF ConsumerPlace, Producing
<1>13. Settles(ex'[t])
  BY <1>5, <1>9, <1>10 DEF Settles
<1>14. StillRuns(t)
  <2>1. InExecution(t) => InExecution(t)'
    BY <1>1, <1>9, <1>10 DEF InExecution, ClaimOf
  <2> QED BY <2>1, <1>1 DEF StillRuns, consumerVars
<1> QED BY <1>10, <1>11, <1>12, <1>13, <1>14, ConsumerKeeps DEF ConsumerEffect

LEMMA NothingItself == NoExecution \in Executions
<1>1. <<>> \in Seq(Tasks) /\ <<>> \in Seq(StreamEvents)
  OBVIOUS
<1>2. PICK i \in Seq(Tasks) : i = <<>>
  BY <1>1
<1>3. PICK z \in Seq(StreamEvents) : z = <<>>
  BY <1>1
<1>4. NoWait \in Waits
  BY DEF NoWait, Waits, WaitKinds
<1>5. PICK w \in Waits : w = NoWait
  BY <1>4
<1>6. 0 \in 0..MaxTasks /\ "running" \in Statuses
  BY BoundsAssumption DEF Statuses
<1>7. PICK h \in SUBSET Messages : h = {}
  OBVIOUS
<1>8. NoExecution =
      [pc |-> "off", prod |-> "off", at |-> 0, held |-> h, input |-> 0,
       kids |-> FALSE, kidsFailed |-> FALSE, inbox |-> i, stream |-> z, seen |-> 0,
       status |-> "running", wait |-> w, active |-> FALSE,
       claim |-> 0, svc |-> 0, failed |-> FALSE]
  BY <1>2, <1>3, <1>5, <1>7 DEF NoExecution
<1> QED BY <1>6, <1>8 DEF Executions

LEMMA NothingIsExecution ==
  ASSUME NEW p \in {"off", "load", "close"}, NEW q \in {"off", "ended"}
  PROVE  [NoExecution EXCEPT !.pc = p, !.prod = q] \in Executions
  BY NothingItself DEF Executions

\* To give a field the value it has changes nothing.
LEMMA SameProducer ==
  ASSUME NEW e \in Executions, NEW p
  PROVE  [e EXCEPT !.pc = p] = [e EXCEPT !.pc = p, !.prod = e.prod]
  BY DEF Executions

\* An execution moves on without a change of its own.
LEMMA MovedExecution ==
  ASSUME RunInv, NEW t \in Tasks, NEW p \in {"run", "wake", "lastWake"}, NEW g,
         g = [ex[t] EXCEPT !.pc = p]
  PROVE  /\ g \in Executions
         /\ g.pc = p /\ g.prod = ex[t].prod /\ g.status = ex[t].status /\ g.seen = ex[t].seen
         /\ g.wait = ex[t].wait /\ g.claim = ex[t].claim /\ g.svc = ex[t].svc
         /\ g.inbox = ex[t].inbox /\ g.failed = ex[t].failed /\ g.at = ex[t].at
         /\ g.input = ex[t].input /\ g.stream = ex[t].stream
<1>1. ex[t] \in Executions
  BY ConsumerStart
<1> QED BY <1>1 DEF Executions

LEMMA WakePasses ==
  ASSUME RunInv, NEW t \in Tasks,
         \/ ex[t].pc = "wake" /\ ex' = [ex EXCEPT ![t] = After(@, "run")]
         \/ ex[t].pc = "lastWake" /\ ex' = [ex EXCEPT ![t] = After(@, "close")]
  PROVE  ex' \in [Tasks -> Executions] /\ \A u \in Tasks : ExecutionPasses(u)
<1>0. ex \in [Tasks -> Executions]
  BY ConsumerStart
<1>1. CASE ex[t].pc = "wake" /\ ex' = [ex EXCEPT ![t] = After(@, "run")]
  <2>1. PICK g : g = [ex[t] EXCEPT !.pc = "run"] /\ ex' = [ex EXCEPT ![t] = g]
    BY <1>0, <1>1 DEF After
  <2>2. /\ g \in Executions
        /\ g.pc = "run" /\ g.prod = ex[t].prod /\ g.status = ex[t].status /\ g.seen = ex[t].seen
        /\ g.wait = ex[t].wait /\ g.claim = ex[t].claim /\ g.svc = ex[t].svc
        /\ g.inbox = ex[t].inbox /\ g.failed = ex[t].failed /\ g.at = ex[t].at
        /\ g.input = ex[t].input /\ g.stream = ex[t].stream
    BY <2>1, MovedExecution
  <2>3. ex' \in [Tasks -> Executions] /\ ex'[t] = g /\ \A u \in Tasks \ {t} : ex'[u] = ex[u]
    BY <1>0, <2>1, <2>2
  <2> QED BY <1>1, <2>2, <2>3 DEF ExecutionPasses
<1>2. CASE ex[t].pc = "lastWake" /\ ex' = [ex EXCEPT ![t] = After(@, "close")]
  <2>1. PICK g : g = [NoExecution EXCEPT !.pc = "close", !.prod = "ended"] /\ ex' = [ex EXCEPT ![t] = g]
    BY <1>0, <1>2 DEF After
  <2>2. g \in Executions
    BY <2>1, NothingIsExecution
  <2>3. ex' \in [Tasks -> Executions] /\ ex'[t] = g /\ \A u \in Tasks \ {t} : ex'[u] = ex[u]
    BY <1>0, <2>1, <2>2
  <2> QED BY <1>2, <2>1, <2>3 DEF ExecutionPasses
<1> QED BY <1>1, <1>2

LEMMA WakeKeeps ==
  ASSUME RunInv, NEW t \in Tasks, WakePublished(t) \/ WakeFinal(t) PROVE RunInv'
<1>1. /\ ex[t].pc \in {"wake", "lastWake"} /\ waits' = waits /\ UNCHANGED consumerVars
      /\ \/ ClaimResume(doc, 0)
         \/ UNCHANGED <<doc, task, current>>
  BY DEF WakePublished, WakeFinal, WakeQueuedInput
<1>2. ex' \in [Tasks -> Executions] /\ \A u \in Tasks : ExecutionPasses(u)
  BY WakePasses DEF WakePublished, WakeFinal, WakeQueuedInput
<1>3. UNCHANGED <<cps, owner, services, closed, restarts, faults, waits, oldWaits, incidents,
                  answered, inputs>>
  BY <1>1 DEF consumerVars
<1>4. CASE ClaimResume(doc, 0)
  BY <1>2, <1>3, <1>4, DocumentItself, CommandNumbers, ClaimFacts
<1>5. CASE UNCHANGED <<doc, task, current>>
  <2>1. PICK g \in Executions : ex' = [ex EXCEPT ![t] = g]
    <3>1. ex' = [ex EXCEPT ![t] = After(ex[t], "run")] \/ ex' = [ex EXCEPT ![t] = After(ex[t], "close")]
      BY ConsumerStart DEF WakePublished, WakeFinal, WakeQueuedInput
    <3>2. ex'[t] \in Executions /\ ex' = [ex EXCEPT ![t] = ex'[t]]
      BY <1>2, <3>1, ConsumerStart
    <3> QED BY <3>2
  <2>2. ConsumerFrame(t) /\ ConsumerDocument /\ ex'[t] = g
    BY <1>1, <1>5, <2>1, FrameWith
  <2>3. ExecutionPasses(t)
    BY <1>2
  <2>4. CASE ex[t].pc = "wake"
    <3>1. /\ g.pc = "run" \/ g = ex[t]
          /\ g.prod = ex[t].prod /\ g.status = ex[t].status /\ g.seen = ex[t].seen
          /\ g.wait = ex[t].wait /\ g.claim = ex[t].claim /\ g.svc = ex[t].svc
          /\ g.inbox = ex[t].inbox /\ g.failed = ex[t].failed /\ g.at = ex[t].at
          /\ g.input = ex[t].input /\ g.stream = ex[t].stream
      BY <2>2, <2>3, <2>4 DEF ExecutionPasses
    <3>2. ConsumerReferences(t)
      BY <1>3, <2>2, <3>1, ConsumerStart DEF ConsumerReferences
    <3>3. ConsumerPlace(t)
      <4>1. Producing(t)' => Producing(t)
        BY <2>2, <3>1 DEF Producing
      <4>2. doc'.checkpoint <= ex'[t].seen
        BY <1>5, <2>2, <2>4, <3>1 DEF RunInv, CheckpointsForward
      <4> QED BY <4>1, <4>2, <2>2, <2>4, <3>1 DEF ConsumerPlace
    <3>4. Settles(ex'[t])
      BY <2>2, <2>4, <3>1 DEF Settles, RunInv, StreamSettles
    <3>5. StillRuns(t)
      <4>1. InExecution(t) => InExecution(t)'
        BY <1>5, <2>2, <2>4, <3>1 DEF InExecution, ClaimOf
      <4> QED BY <4>1, <1>3, <1>5 DEF StillRuns
    <3> QED BY <2>2, <3>2, <3>3, <3>4, <3>5, ConsumerKeeps DEF ConsumerEffect
  <2>5. CASE ex[t].pc = "lastWake" /\ ex'[t] # ex[t]
    <3>1. /\ g.pc = "close" /\ g.prod = "ended" /\ g.at = 0 /\ g.seen = 0 /\ g.input = 0 /\ g.svc = 0
          /\ g.claim = 0 /\ g.wait.id = 0 /\ g.status = "running"
      <4>1. g = [NoExecution EXCEPT !.pc = "close", !.prod = "ended"]
        BY <2>2, <2>3, <2>5 DEF ExecutionPasses
      <4> QED BY <4>1, NothingFacts
    <3>2. ConsumerReferences(t)
      BY <1>3, <2>2, <3>1, ConsumerStart DEF ConsumerReferences
    <3>3. ConsumerPlace(t)
      BY <2>2, <2>5, <3>1 DEF ConsumerPlace, Producing
    <3>4. Settles(ex'[t])
      BY <2>2, <3>1 DEF Settles
    <3>5. StillRuns(t)
      BY <1>3, <1>5, <2>5 DEF StillRuns, InExecution
    <3> QED BY <2>2, <3>2, <3>3, <3>4, <3>5, ConsumerKeeps DEF ConsumerEffect
  <2>6. CASE ex[t].pc = "lastWake" /\ ex'[t] = ex[t]
    <3>1. ex'[t].pc = "close"
      <4>1. ex' = [ex EXCEPT ![t] = After(ex[t], "close")]
        BY <2>6, ConsumerStart DEF WakePublished, WakeFinal, WakeQueuedInput
      <4>2. ex'[t] = [NoExecution EXCEPT !.pc = "close", !.prod = "ended"]
        BY <4>1, ConsumerStart DEF After
      <4> QED BY <4>2, NothingFacts
    <3> QED BY <2>6, <3>1
  <2> QED BY <1>1, <2>4, <2>5, <2>6
<1> QED BY <1>1, <1>4, <1>5

\* What persist_event makes of the document.
LEMMA MergedFacts ==
  ASSUME RunInv, NEW t \in Tasks, NEW d, d = Merged(doc, ex[t])
  PROVE  /\ d \in Documents
         /\ d.resumeClaim = doc.resumeClaim /\ d.checkpoint = ex[t].seen
         /\ d.resumeCheckpoint \in {0, doc.resumeCheckpoint}
         /\ d.resumeInput \in {0, doc.resumeInput} /\ d.wait \in {NoWait, ex[t].wait}
         /\ (d.status = "waiting" => ex[t].status = "waiting" /\ d.wait = ex[t].wait)
         /\ (d.status = "running" => ex[t].status = "running" \/ AlreadyClaimed(doc, ex[t]))
<1>1. ex[t] \in Executions /\ doc \in Documents
  BY ConsumerStart
<1>2. PICK claimed \in BOOLEAN : claimed = AlreadyClaimed(doc, ex[t])
  BY DEF AlreadyClaimed
<1>3. PICK s : s = IF doc.abort /\ (IF claimed THEN "running" ELSE ex[t].status) = "waiting" THEN "stopped"
                   ELSE IF claimed THEN "running" ELSE ex[t].status
  OBVIOUS
<1>4. /\ s \in Statuses /\ (s = "waiting" => ~claimed /\ ex[t].status = "waiting")
      /\ (s = "running" => claimed \/ ex[t].status = "running")
  <2>1. ex[t].status \in Statuses /\ "running" \in Statuses /\ "stopped" \in Statuses
    BY <1>1 DEF Executions, Statuses
  <2> QED BY <1>3, <2>1
<1>5. PICK w : w = IF claimed THEN NoWait ELSE ex[t].wait
  OBVIOUS
<1>6. w \in Waits /\ w \in {NoWait, ex[t].wait} /\ (~claimed => w = ex[t].wait)
  BY <1>1, <1>5 DEF Executions, NoWait, Waits, WaitKinds
<1>7. PICK applied \in BOOLEAN :
        applied = (doc.resumeCheckpoint # 0 /\ ex[t].seen # 0 /\ ex[t].seen # doc.resumeCheckpoint)
  OBVIOUS
<1>8. PICK i \in Nat : i = IF applied THEN 0 ELSE doc.resumeInput
  BY <1>1 DEF Documents
<1>9. PICK c \in Nat : c = IF applied THEN 0 ELSE doc.resumeCheckpoint
  BY <1>1 DEF Documents
<1>10. PICK q : q = [m \in Messages |-> IF doc.queue[m] = "pending" /\ m \in Consumed(ex[t].seen)
                                        THEN "consumed" ELSE doc.queue[m]]
  OBVIOUS
<1>11. q \in [Messages -> MessageStates]
  BY <1>1, <1>10 DEF Documents, MessageStates
<1>12. d = [doc EXCEPT !.status = s, !.wait = w, !.checkpoint = ex[t].seen, !.active = ex[t].active,
                       !.resumeInput = i, !.resumeCheckpoint = c, !.queue = q]
  BY <1>1, <1>2, <1>3, <1>5, <1>7, <1>8, <1>9, <1>10 DEF Merged, Documents
<1>13. ex[t].seen \in Nat /\ ex[t].active \in BOOLEAN
  BY <1>1 DEF Executions
<1>14. d \in Documents
  <2>1. PICK n \in Nat : n = ex[t].seen
    BY <1>13
  <2>2. PICK a \in BOOLEAN : a = ex[t].active
    BY <1>13
  <2>3. d = [doc EXCEPT !.status = s, !.wait = w, !.checkpoint = n, !.active = a,
                        !.resumeInput = i, !.resumeCheckpoint = c, !.queue = q]
    BY <1>12, <2>1, <2>2
  <2> QED BY <1>1, <1>4, <1>6, <1>11, <2>3 DEF Documents
<1>15. /\ d.status = s /\ d.wait = w /\ d.checkpoint = ex[t].seen /\ d.resumeInput = i
       /\ d.resumeCheckpoint = c /\ d.resumeClaim = doc.resumeClaim
  BY <1>1, <1>12 DEF Documents
<1> QED BY <1>2, <1>4, <1>6, <1>8, <1>9, <1>14, <1>15

\* A persist that the execution goes on from, at p.
LEMMA PersistMovesKeeps ==
  ASSUME RunInv, NEW t \in Tasks, NEW p \in {"wake", "lastWake", "close"},
         PersistEvent(t, p),
         \/ ex[t].pc = "publish" /\ p = "wake"
         \/ ex[t].pc = "final" /\ p = "lastWake"
         \/ ex[t].pc = "failed" /\ p = "close"
  PROVE  RunInv'
<1>1. /\ doc' = Merged(doc, ex[t]) /\ ex' = [ex EXCEPT ![t] = After(ex[t], p)]
      /\ UNCHANGED <<task, current, waits, cps, owner, services, closed, restarts,
                     faults, oldWaits, answered, inputs>>
  BY ConsumerStart DEF PersistEvent
<1>2. incidents \subseteq incidents' /\ incidents' \in SUBSET Incidents
  BY ConsumerStart DEF PersistEvent, Incidents
<1>3. PICK d : d = Merged(doc, ex[t]) /\ doc' = d
  BY <1>1
<1>4. /\ d \in Documents
      /\ d.resumeClaim = doc.resumeClaim /\ d.checkpoint = ex[t].seen
      /\ d.resumeCheckpoint \in {0, doc.resumeCheckpoint}
      /\ d.resumeInput \in {0, doc.resumeInput} /\ d.wait \in {NoWait, ex[t].wait}
      /\ (d.status = "waiting" => ex[t].status = "waiting" /\ d.wait = ex[t].wait)
      /\ (d.status = "running" => ex[t].status = "running" \/ AlreadyClaimed(doc, ex[t]))
  BY <1>3, MergedFacts
<1>5. doc.checkpoint <= ex[t].seen /\ ex[t].status # "running"
  BY DEF RunInv, CheckpointsForward, StreamSettles
<1>6. PICK g : g = After(ex[t], p) /\ ex' = [ex EXCEPT ![t] = g]
  BY <1>1
<1>7. /\ g \in Executions /\ g.pc = p
      /\ \/ /\ p # "close" /\ g.prod = ex[t].prod /\ g.status = ex[t].status /\ g.seen = ex[t].seen
            /\ g.wait = ex[t].wait /\ g.claim = ex[t].claim /\ g.svc = ex[t].svc
            /\ g.inbox = ex[t].inbox /\ g.failed = ex[t].failed /\ g.at = ex[t].at
            /\ g.input = ex[t].input /\ g.stream = ex[t].stream
         \/ /\ p = "close" /\ g.prod = "ended" /\ g.at = 0 /\ g.seen = 0 /\ g.input = 0 /\ g.svc = 0
            /\ g.claim = 0 /\ g.wait.id = 0 /\ g.status = "running"
  <2>1. CASE p = "close"
    <3>1. g = [NoExecution EXCEPT !.pc = "close", !.prod = "ended"]
      BY <1>6, <2>1 DEF After
    <3>2. /\ g.pc = p /\ g.prod = "ended" /\ g.at = 0 /\ g.seen = 0 /\ g.input = 0 /\ g.svc = 0
          /\ g.claim = 0 /\ g.wait.id = 0 /\ g.status = "running"
      BY <2>1, <3>1, NothingFacts
    <3> QED BY <2>1, <3>1, <3>2, NothingIsExecution
  <2>2. CASE p # "close"
    <3>1. g = [ex[t] EXCEPT !.pc = p] /\ p \in {"run", "wake", "lastWake"}
      BY <1>6, <2>2 DEF After
    <3> QED BY <2>2, <3>1, MovedExecution
  <2> QED BY <2>1, <2>2
<1>8. ex' \in [Tasks -> Executions] /\ ex'[t] = g /\ \A u \in Tasks \ {t} : ex'[u] = ex[u]
  BY <1>6, <1>7, ConsumerStart
<1>9. ConsumerFrame(t)
  BY <1>1, <1>2, <1>8, ConsumerStart DEF ConsumerFrame
<1>10. ConsumerDocument
  <2>1. d.wait.id <= waits /\ (d.status = "waiting" => d.wait.id # 0)
    BY <1>4, ConsumerStart DEF NoWait
  <2>2. d.resumeCheckpoint <= Len(cps) /\ d.resumeInput <= inputs
    BY <1>4, ConsumerStart
  <2> QED BY <2>1, <2>2, <1>1, <1>3, <1>4, <1>5, ConsumerStart DEF ConsumerDocument
<1>11. ConsumerReferences(t)
  BY <1>1, <1>7, <1>8, ConsumerStart DEF ConsumerReferences
<1>12. ConsumerPlace(t)
  <2>1. CASE p = "close"
    BY <2>1, <1>7, <1>8 DEF ConsumerPlace, Producing
  <2>2. CASE p # "close"
    <3>1. Producing(t)' => Producing(t)
      BY <2>2, <1>7, <1>8 DEF Producing
    <3>2. Producing(t) => p = "wake"
      BY ConsumerStart
    <3>3. ex[t].seen \in Nat /\ doc'.checkpoint <= ex'[t].seen
      BY <2>2, <1>3, <1>4, <1>7, <1>8, Numbers
    <3> QED BY <2>2, <3>1, <3>2, <3>3, <1>7, <1>8 DEF ConsumerPlace
  <2> QED BY <2>1, <2>2
<1>13. Settles(ex'[t])
  BY <1>7, <1>8 DEF Settles, RunInv, StreamSettles
<1>14. StillRuns(t)
  <2> SUFFICES ASSUME doc'.status = "running", "unrecorded failure" \notin incidents'
               PROVE  /\ doc.status = "running" /\ "unrecorded failure" \notin incidents
                      /\ InExecution(t) => InExecution(t)'
    BY DEF StillRuns
  <2>1. AlreadyClaimed(doc, ex[t])
    BY <1>3, <1>4, <1>5
  <2>2. doc.status = "running" /\ doc.resumeClaim # ex[t].claim /\ ex[t].status = "waiting"
    BY <2>1 DEF AlreadyClaimed
  <2>3. ex[t].pc # "failed"
    BY <2>2 DEF RunInv, StreamSettles
  <2>4. ~InExecution(t)
    BY <2>2, <2>3 DEF InExecution, ClaimOf
  <2> QED BY <2>2, <2>4, <1>2
<1> QED BY <1>9, <1>10, <1>11, <1>12, <1>13, <1>14, ConsumerKeeps DEF ConsumerEffect

LEMMA PersistKeeps ==
  ASSUME RunInv, NEW t \in Tasks, PublishWait(t) \/ PersistFinal(t) \/ PersistFailure(t)
  PROVE  RunInv'
  BY PersistMovesKeeps DEF PublishWait, PersistFinal, PersistFailure

LEMMA StateStart ==
  ASSUME RunInv
  PROVE  /\ doc \in Documents /\ services \in Seq(ServiceObjects) /\ Len(services) \in Nat
         /\ current \in Nat /\ current <= Len(services) /\ faults \in Nat /\ waits \in Nat
         /\ inputs \in Nat /\ incidents \in SUBSET Incidents /\ Len(cps) \in Nat
         /\ doc.checkpoint \in Nat /\ doc.checkpoint <= Len(cps)
         /\ doc.resumeCheckpoint <= Len(cps) /\ doc.resumeInput <= inputs
         /\ doc.wait.id <= waits /\ (doc.status = "waiting" => doc.wait.id # 0)
<1>1. 1 \in Tasks
  BY BoundsAssumption DEF Tasks
<1> QED BY <1>1, ConsumerStart

LEMMA PersistFailureFailsKeeps ==
  ASSUME RunInv, NEW t \in Tasks, PersistFailureFails(t) PROVE RunInv'
<1>1. /\ ex[t].pc = "failed"
      /\ UNCHANGED <<doc, cps, task, owner, services, current, closed, restarts, waits,
                     oldWaits, answered, inputs>>
  BY DEF PersistFailureFails, Fault
<1>2. PICK g : g = [NoExecution EXCEPT !.pc = "close", !.prod = "ended"] /\ ex' = [ex EXCEPT ![t] = g]
  BY ConsumerStart DEF PersistFailureFails, After
<1>3. /\ g.pc = "close" /\ g.prod = "ended" /\ g.at = 0 /\ g.seen = 0 /\ g.input = 0 /\ g.svc = 0
      /\ g.claim = 0 /\ g.wait.id = 0 /\ g.status = "running"
  BY <1>2, NothingFacts
<1>4. g \in Executions
  BY <1>2, NothingIsExecution
<1>5. ex' \in [Tasks -> Executions] /\ ex'[t] = g /\ \A u \in Tasks \ {t} : ex'[u] = ex[u]
  BY <1>2, <1>4, ConsumerStart
<1>a. incidents' = incidents \union {"unrecorded failure"}
  BY DEF PersistFailureFails
<1>6. incidents' \in SUBSET Incidents /\ faults' \in Nat
  <2>1. faults' = faults + 1
    BY DEF PersistFailureFails, Fault
  <2>2. faults' \in Nat
    BY <2>1, StateStart
  <2>3. "unrecorded failure" \in Incidents
    BY DEF Incidents
  <2> QED BY <1>a, <2>2, <2>3, StateStart, Zenon
<1>7. ConsumerFrame(t)
  BY <1>1, <1>5, <1>6, StateStart DEF ConsumerFrame
<1>8. ConsumerDocument
  BY <1>1, StateStart DEF ConsumerDocument
<1>9. ConsumerReferences(t)
  BY <1>1, <1>3, <1>5, StateStart DEF ConsumerReferences
<1>10. ConsumerPlace(t)
  BY <1>1, <1>3, <1>5 DEF ConsumerPlace, Producing
<1>11. Settles(ex'[t]) /\ StillRuns(t)
  BY <1>1, <1>3, <1>5, <1>a DEF Settles, StillRuns
<1> QED BY <1>7, <1>8, <1>9, <1>10, <1>11, ConsumerKeeps DEF ConsumerEffect

-----------------------------------------------------------------------------
(* Launches. *)

LEMMA FailedFacts ==
  ASSUME RunInv
  PROVE  /\ Failed \in Executions
         /\ Failed.pc = "failed" /\ Failed.prod = "ended" /\ Failed.seen = doc.checkpoint
         /\ Failed.status \in {"interrupted", "error"} /\ Failed.wait = doc.wait
         /\ Failed.claim = doc.resumeClaim /\ Failed.at = 0 /\ Failed.input = 0 /\ Failed.svc = 0
<1>1. doc \in Documents
  BY DocumentItself
<1>2. doc.checkpoint \in Nat /\ doc.wait \in Waits /\ doc.resumeClaim \in 0..MaxTasks
  BY <1>1 DEF Documents
<1>3. PICK s \in {"interrupted", "error"} : s = IF closed THEN "interrupted" ELSE "error"
  OBVIOUS
<1>4. PICK e : e = [NoExecution EXCEPT !.pc = "close", !.prod = "ended"]
  OBVIOUS
<1>5. e \in Executions /\ e.at = 0 /\ e.input = 0 /\ e.svc = 0 /\ e.prod = "ended"
  BY <1>4, NothingIsExecution, NothingFacts
<1>6. Failed = [e EXCEPT !.pc = "failed", !.seen = doc.checkpoint, !.status = s, !.wait = doc.wait,
                        !.claim = doc.resumeClaim]
  BY ZenonT(60), <1>3, <1>4 DEF Failed, NoExecution
<1>7. PICK n \in Nat : n = doc.checkpoint
  BY <1>2
<1>8. PICK w \in Waits : w = doc.wait
  BY <1>2
<1>9. PICK c \in 0..MaxTasks : c = doc.resumeClaim
  BY <1>2
<1>10. PICK f : /\ f = [e EXCEPT !.pc = "failed", !.seen = n, !.status = s, !.wait = w, !.claim = c]
                /\ f = Failed
  BY <1>6, <1>7, <1>8, <1>9
<1>11. f \in Executions
  BY ZenonT(60), <1>5, <1>10 DEF Executions, Statuses
<1>12. /\ f.pc = "failed" /\ f.prod = e.prod /\ f.seen = n /\ f.status = s /\ f.wait = w /\ f.claim = c
       /\ f.at = e.at /\ f.input = e.input /\ f.svc = e.svc
  BY <1>5, <1>10 DEF Executions
<1> QED BY <1>5, <1>7, <1>8, <1>9, <1>10, <1>11, <1>12

LEMMA FailsKeeps ==
  ASSUME RunInv, NEW t \in Tasks, LoadFails(t) \/ ExecuteFails(t) PROVE RunInv'
<1>1. /\ ex[t].pc # "off" /\ ex' = [ex EXCEPT ![t] = Failed]
      /\ UNCHANGED <<doc, cps, task, owner, current, closed, restarts, waits,
                     oldWaits, answered, inputs>>
  BY DEF LoadFails, ExecuteFails, Fault
<1>2. services' \in Seq(ServiceObjects) /\ Len(services') = Len(services)
  <2>1. services' = services \/ services' = [services EXCEPT ![ex[t].svc].cancelled = TRUE]
    BY DEF LoadFails, ExecuteFails
  <2>2. /\ [services EXCEPT ![ex[t].svc].cancelled = TRUE] \in Seq(ServiceObjects)
        /\ Len([services EXCEPT ![ex[t].svc].cancelled = TRUE]) = Len(services)
    BY StateStart, ServicesCancelled
  <2> QED BY <2>1, <2>2, StateStart
<1>3. PICK g : g = Failed /\ ex' = [ex EXCEPT ![t] = g]
  BY <1>1
<1>4. /\ g \in Executions
      /\ g.pc = "failed" /\ g.prod = "ended" /\ g.seen = doc.checkpoint
      /\ g.status \in {"interrupted", "error"} /\ g.wait = doc.wait
      /\ g.claim = doc.resumeClaim /\ g.at = 0 /\ g.input = 0 /\ g.svc = 0
  BY <1>3, FailedFacts
<1>5. ex' \in [Tasks -> Executions] /\ ex'[t] = g /\ \A u \in Tasks \ {t} : ex'[u] = ex[u]
  BY <1>3, <1>4, ConsumerStart
<1>6. incidents' \in SUBSET Incidents /\ faults' \in Nat /\ incidents \subseteq incidents'
  <2>1. faults' = faults + 1
    BY DEF LoadFails, ExecuteFails, Fault
  <2>2. incidents' = incidents \/ incidents' = incidents \union {"failed execution"}
    BY DEF LoadFails, ExecuteFails
  <2>3. faults' \in Nat
    BY <2>1, StateStart
  <2>4. "failed execution" \in Incidents
    BY DEF Incidents
  <2> QED BY <2>2, <2>3, <2>4, StateStart, Zenon
<1>7. ConsumerFrame(t)
  BY <1>1, <1>2, <1>5, <1>6, StateStart DEF ConsumerFrame
<1>8. ConsumerDocument
  BY <1>1, StateStart DEF ConsumerDocument
<1>9. ConsumerReferences(t)
  BY <1>1, <1>2, <1>4, <1>5, StateStart DEF ConsumerReferences
<1>10. ConsumerPlace(t)
  BY <1>1, <1>4, <1>5, StateStart DEF ConsumerPlace, Producing
<1>11. Settles(ex'[t])
  BY <1>4, <1>5 DEF Settles
<1>12. StillRuns(t)
  BY <1>1, <1>4, <1>5, <1>6 DEF StillRuns, InExecution
<1> QED BY <1>7, <1>8, <1>9, <1>10, <1>11, <1>12, ConsumerKeeps DEF ConsumerEffect

LEMMA LoadKeeps == ASSUME RunInv, NEW t \in Tasks, Load(t) PROVE RunInv'
<1>1. /\ ex[t].pc = "load"
      /\ UNCHANGED <<doc, cps, task, owner, closed, restarts, faults, waits, oldWaits, answered,
                     inputs, incidents>>
  BY DEF Load
<1>2. PICK reuse \in BOOLEAN : reuse = (current # 0 /\ ~services[current].cancelled)
  OBVIOUS
<1>3. PICK s : s = IF reuse THEN current ELSE Len(services) + 1
  OBVIOUS
<1>4. PICK c \in BOOLEAN : c = (doc.abort \/ (closed /\ ~reuse))
  OBVIOUS
<1>5. /\ current' = s
      /\ services' = IF reuse THEN [services EXCEPT ![s].cancelled = c]
                     ELSE Append(services, [cancelled |-> c, claimed |-> {}])
  BY <1>2, <1>3, <1>4 DEF Load
<1>6. /\ services' \in Seq(ServiceObjects) /\ Len(services') \in Nat /\ Len(services) <= Len(services')
      /\ s \in Nat /\ s <= Len(services')
  <2>1. CASE reuse
    BY SMTT(60), <2>1, <1>3, <1>5, ServicesCancelled, ConsumerStart
  <2>2. CASE ~reuse
    <3>1. PICK o : o = [cancelled |-> c, claimed |-> {}]
      OBVIOUS
    <3>2. o \in ServiceObjects
      BY <3>1 DEF ServiceObjects
    <3>3. services' = Append(services, o)
      BY <2>2, <3>1, <1>5
    <3>4. services \in Seq(ServiceObjects) /\ Len(services) \in Nat
      BY ConsumerStart
    <3>5. services' \in Seq(ServiceObjects) /\ Len(services') = Len(services) + 1
      BY <3>2, <3>3, <3>4, AppendFacts
    <3> QED BY <2>2, <3>4, <3>5, <1>3
  <2> QED BY <2>1, <2>2
<1>7. PICK z : z = IF task[t].resume = 0 THEN <<>> ELSE <<"resumed">>
  OBVIOUS
<1>8. z \in Seq(StreamEvents)
  <2>1. <<>> \in Seq(StreamEvents) /\ "resumed" \in StreamEvents
    BY DEF StreamEvents
  <2>2. <<"resumed">> \in Seq(StreamEvents)
    BY <2>1
  <2> QED BY <1>7, <2>1, <2>2
<1>9. PICK kids \in BOOLEAN :
        ex' = [ex EXCEPT ![t] =
                [ex[t] EXCEPT !.pc = "run", !.prod = "run", !.at = task[t].resume, !.kids = kids,
                          !.input = task[t].input, !.seen = doc.checkpoint,
                          !.status = doc.status, !.wait = doc.wait,
                          !.active = doc.active, !.claim = task[t].claim, !.svc = s,
                          !.stream = z]]
  BY <1>2, <1>3, <1>7, ConsumerStart DEF Load
<1>10. PICK g : /\ g = [ex[t] EXCEPT !.pc = "run", !.prod = "run", !.at = task[t].resume, !.kids = kids,
                          !.input = task[t].input, !.seen = doc.checkpoint,
                          !.status = doc.status, !.wait = doc.wait,
                          !.active = doc.active, !.claim = task[t].claim, !.svc = s,
                          !.stream = z]
                /\ ex' = [ex EXCEPT ![t] = g]
  BY <1>9
<1>11. ex[t] \in Executions /\ task[t] \in Launches /\ doc \in Documents
  BY Numbers
<1>12. g \in Executions
  <2>1. PICK n \in Nat : n = task[t].resume
    BY <1>11 DEF Launches
  <2>2. PICK i \in Nat : i = task[t].input
    BY <1>11 DEF Launches
  <2>3. PICK b \in 0..MaxTasks : b = task[t].claim
    BY <1>11 DEF Launches
  <2>4. PICK h \in Nat : h = doc.checkpoint
    BY <1>11 DEF Documents
  <2>5. PICK w \in Waits : w = doc.wait
    BY <1>11 DEF Documents
  <2>6. PICK r \in Statuses : r = doc.status
    BY <1>11 DEF Documents
  <2>7. PICK a \in BOOLEAN : a = doc.active
    BY <1>11 DEF Documents
  <2>8. g = [ex[t] EXCEPT !.pc = "run", !.prod = "run", !.at = n, !.kids = kids, !.input = i,
                          !.seen = h, !.status = r, !.wait = w, !.active = a, !.claim = b, !.svc = s,
                          !.stream = z]
    BY <1>10, <2>1, <2>2, <2>3, <2>4, <2>5, <2>6, <2>7
  <2> QED BY ZenonT(60), <2>8, <1>6, <1>8, <1>11 DEF Executions
<1>13. /\ g.pc = "run" /\ g.prod = "run" /\ g.at = task[t].resume /\ g.input = task[t].input
       /\ g.seen = doc.checkpoint /\ g.status = doc.status /\ g.wait = doc.wait
       /\ g.claim = task[t].claim /\ g.svc = s /\ g.inbox = ex[t].inbox
  BY <1>10, <1>11 DEF Executions
<1>14. ex' \in [Tasks -> Executions] /\ ex'[t] = g /\ \A u \in Tasks \ {t} : ex'[u] = ex[u]
  BY <1>10, <1>12, ConsumerStart
<1>15. ConsumerFrame(t)
  BY <1>1, <1>5, <1>6, <1>14, StateStart DEF ConsumerFrame
<1>16. ConsumerDocument
  BY <1>1, StateStart DEF ConsumerDocument
<1>17. ConsumerReferences(t)
  <2>1. task[t].resume <= Len(cps) /\ task[t].input <= inputs
    BY DEF RunInv, RunTypeOK
  <2> QED BY <2>1, <1>1, <1>6, <1>13, <1>14, StateStart DEF ConsumerReferences
<1>18. ConsumerPlace(t)
  BY <1>1, <1>13, <1>14, ConsumerStart DEF ConsumerPlace, RunInv, OneOwner
<1>19. Settles(ex'[t])
  BY <1>13, <1>14 DEF Settles
<1>20. StillRuns(t)
  <2>1. InExecution(t) => InExecution(t)'
    BY <1>1, <1>13, <1>14 DEF InExecution, ClaimOf
  <2> QED BY <2>1, <1>1 DEF StillRuns
<1> QED BY <1>15, <1>16, <1>17, <1>18, <1>19, <1>20, ConsumerKeeps DEF ConsumerEffect

\* A run without an owner has no execution.
LEMMA OwnerOnly ==
  ASSUME RunInv, NEW u \in Tasks, owner # u
  PROVE  ex[u].pc = "off" /\ ~Producing(u) /\ ex[u].inbox = <<>> /\ ex[u].prod = "off" /\ task[u].st # "owner"
  BY DEF RunInv, OneOwner, OffersQueued

LEMMA TaskFacts ==
  ASSUME RunInv
  PROVE  /\ task \in [Tasks -> Launches] /\ ex \in [Tasks -> Executions]
         /\ Gone \in Launches /\ NoExecution \in Executions
         /\ Gone.st = "gone" /\ Gone.claim = 0 /\ Gone.resume = 0 /\ Gone.input = 0
         /\ NoTask \in Launches
         /\ NoTask.st = "none" /\ NoTask.claim = 0 /\ NoTask.resume = 0 /\ NoTask.input = 0
         /\ NoExecution.pc = "off" /\ NoExecution.prod = "off" /\ NoExecution.at = 0
         /\ NoExecution.seen = 0 /\ NoExecution.input = 0 /\ NoExecution.svc = 0
         /\ NoExecution.claim = 0 /\ NoExecution.wait.id = 0 /\ NoExecution.status = "running"
         /\ NoExecution.inbox = <<>>
<1>1. task \in [Tasks -> Launches] /\ ex \in [Tasks -> Executions]
  BY DEF RunInv, RunTypeOK, Shapes
<1>2. 0 \in 0..MaxTasks
  BY BoundsAssumption
<1>3. NoTask \in Launches /\ NoTask.st = "none" /\ NoTask.claim = 0 /\ NoTask.resume = 0 /\ NoTask.input = 0
  BY <1>2 DEF NoTask, Launches
<1>4. Gone \in Launches /\ Gone.st = "gone" /\ Gone.claim = 0 /\ Gone.resume = 0 /\ Gone.input = 0
  BY <1>2 DEF Gone, NoTask, Launches
<1>6. NoExecution \in Executions
  BY NothingItself
<1>7. /\ NoExecution.pc = "off" /\ NoExecution.prod = "off" /\ NoExecution.at = 0
      /\ NoExecution.seen = 0 /\ NoExecution.input = 0 /\ NoExecution.svc = 0
      /\ NoExecution.claim = 0 /\ NoExecution.wait.id = 0 /\ NoExecution.status = "running"
      /\ NoExecution.inbox = <<>>
  BY DEF NoExecution, NoWait
<1> QED BY <1>1, <1>3, <1>4, <1>6, <1>7

LEMMA TakeOwnershipKeeps == ASSUME RunInv, NEW t \in Tasks, TakeOwnership(t) PROVE RunInv'
<1>1. /\ task[t].st = "new" /\ owner = 0 /\ owner' = t
      /\ UNCHANGED <<doc, cps, services, current, closed, restarts, faults, waits, oldWaits, answered,
                     inputs, incidents>>
  BY DEF TakeOwnership
<1>2. PICK l : l = [task[t] EXCEPT !.st = "owner"] /\ task' = [task EXCEPT ![t] = l]
  BY TaskFacts DEF TakeOwnership
<1>3. /\ l \in Launches /\ l.st = "owner" /\ l.claim = task[t].claim /\ l.resume = task[t].resume
      /\ l.input = task[t].input
  <2>1. task[t] \in Launches
    BY TaskFacts
  <2> QED BY <1>2, <2>1 DEF Launches
<1>4. task' \in [Tasks -> Launches] /\ task'[t] = l /\ \A u \in Tasks \ {t} : task'[u] = task[u]
  BY <1>2, <1>3, TaskFacts
<1>5. PICK g : g = [NoExecution EXCEPT !.pc = "load", !.prod = "off"] /\ ex' = [ex EXCEPT ![t] = g]
  <2>1. [NoExecution EXCEPT !.pc = "load"] = [NoExecution EXCEPT !.pc = "load", !.prod = "off"]
    <3>1. NoExecution.prod = "off"
      BY TaskFacts
    <3> QED BY <3>1, NothingItself, SameProducer
  <2> QED BY <2>1 DEF TakeOwnership
<1>6. /\ g \in Executions
      /\ g.pc = "load" /\ g.prod = "off" /\ g.at = 0 /\ g.seen = 0 /\ g.input = 0 /\ g.svc = 0
      /\ g.claim = 0 /\ g.wait.id = 0 /\ g.status = "running" /\ g.inbox = <<>>
  BY <1>5, NothingIsExecution, NothingFacts
<1>7. ex' \in [Tasks -> Executions] /\ ex'[t] = g /\ \A u \in Tasks \ {t} : ex'[u] = ex[u]
  BY <1>5, <1>6, TaskFacts
<1>8. \A u \in Tasks : owner # u /\ u \in 0..MaxTasks /\ u # 0
  BY <1>1, BoundsAssumption DEF Tasks
<1>9. \A u \in Tasks : /\ ex[u].pc = "off" /\ ~Producing(u) /\ ex[u].inbox = <<>> /\ ex[u].prod = "off"
                      /\ task[u].st # "owner"
  BY <1>8, OwnerOnly
<1>10. Shapes'
  <2>1. owner' \in 0..MaxTasks
    BY <1>1, <1>8
  <2> QED BY <2>1, <1>1, <1>4, <1>7 DEF RunInv, RunTypeOK, Shapes
<1>11. References'
  <2>1. References
    BY TypeParts DEF RunInv
  <2>2. ASSUME NEW u \in Tasks
        PROVE  /\ task'[u].resume <= Len(cps) /\ task'[u].input <= inputs
               /\ task'[u].claim \in {0, u}
    BY <2>1, <1>3, <1>4 DEF References
  <2>3. ASSUME NEW u \in Tasks
        PROVE  /\ ex'[u].at <= Len(cps) /\ ex'[u].seen <= Len(cps) /\ ex'[u].input <= inputs
               /\ ex'[u].wait.id <= waits /\ ex'[u].svc <= Len(services)
    <3>1. CASE u = t
      BY <3>1, <1>6, <1>7, StateStart
    <3>2. CASE u # t
      BY <3>2, <2>1, <1>7 DEF References
    <3> QED BY <3>1, <3>2
  <2> QED BY <2>1, <2>2, <2>3, <1>1 DEF References
<1>12. OneOwner'
  BY <1>1, <1>3, <1>4, <1>6, <1>7, <1>9 DEF OneOwner, Producing
<1>13. OffersQueued'
  <2>1. \A u \in Tasks : ex'[u].inbox = <<>> /\ ex'[u].prod = "off"
    BY <1>6, <1>7, <1>9
  <2> QED BY <2>1 DEF OffersQueued
<1>14. ClaimsInOrder'
  <2>1. doc.resumeClaim \in Nat
    BY Numbers
  <2> QED BY <2>1, <1>1, <1>3, <1>4, <1>6, <1>7 DEF RunInv, ClaimsInOrder
<1>15. CheckpointsForward'
  BY <1>1, <1>3, <1>4, <1>6, <1>7 DEF RunInv, CheckpointsForward
<1>16. EarlierClaimsPassed' /\ StreamSettles'
  <2>1. \A u \in Tasks : ex'[u].prod = "off" /\ ex'[u].pc \in {"off", "load"}
    BY <1>6, <1>7, <1>9
  <2> QED BY <2>1 DEF EarlierClaimsPassed, StreamSettles, Producing
<1>17. WaitsNamed'
  BY <1>1, <1>6, <1>7 DEF RunInv, WaitsNamed
<1>18. RunningIsClaimed'
  <2> SUFFICES ASSUME doc'.status = "running", "unrecorded failure" \notin incidents'
               PROVE  \E u \in Tasks : ToLaunch(u)' \/ InExecution(u)'
    BY DEF RunningIsClaimed
  <2>1. PICK u \in Tasks : ToLaunch(u) \/ InExecution(u)
    BY <1>1 DEF RunInv, RunningIsClaimed
  <2>2. ToLaunch(u)
    BY <2>1, <1>9 DEF InExecution
  <2>3. CASE u = t
    <3>1. InExecution(u)'
      BY <2>2, <2>3, <1>1, <1>3, <1>4, <1>6, <1>7 DEF InExecution, ClaimOf, ToLaunch
    <3> QED BY <3>1
  <2>4. CASE u # t
    <3>1. ToLaunch(u)'
      BY <2>2, <2>4, <1>1, <1>4 DEF ToLaunch, PendingTask
    <3> QED BY <3>1
  <2> QED BY <2>3, <2>4
<1> QED BY <1>10, <1>11, <1>12, <1>13, <1>14, <1>15, <1>16, <1>17, <1>18, TypePartsNext DEF RunInv

LEMMA CloseKeeps == ASSUME RunInv, NEW t \in Tasks, Close(t) PROVE RunInv'
<1>1. /\ ex[t].pc = "close" /\ owner' = 0 /\ task' = [task EXCEPT ![t] = Gone]
      /\ ex' = [ex EXCEPT ![t] = NoExecution]
      /\ UNCHANGED <<doc, cps, services, current, closed, restarts, faults, waits, oldWaits, answered,
                     inputs, incidents>>
  BY DEF Close
<1>2. owner = t /\ task[t].st = "owner"
  BY <1>1 DEF RunInv, OneOwner
<1>3. /\ task' \in [Tasks -> Launches] /\ task'[t] = Gone /\ \A u \in Tasks \ {t} : task'[u] = task[u]
      /\ ex' \in [Tasks -> Executions] /\ ex'[t] = NoExecution /\ \A u \in Tasks \ {t} : ex'[u] = ex[u]
  BY <1>1, TaskFacts
<1>4. \A u \in Tasks \ {t} : /\ ex[u].pc = "off" /\ ~Producing(u) /\ ex[u].inbox = <<>>
                             /\ ex[u].prod = "off" /\ task[u].st # "owner"
  BY <1>2, OwnerOnly
<1>5. \A u \in Tasks : ex'[u].pc = "off" /\ ex'[u].inbox = <<>> /\ ex'[u].prod = "off" /\ task'[u].st # "owner"
  BY <1>3, <1>4, TaskFacts
<1>6. Shapes'
  <2>1. owner' \in 0..MaxTasks
    BY <1>1, BoundsAssumption
  <2> QED BY <2>1, <1>1, <1>3 DEF RunInv, RunTypeOK, Shapes
<1>7. References'
  <2>1. References
    BY TypeParts DEF RunInv
  <2>2. ASSUME NEW u \in Tasks
        PROVE  /\ task'[u].resume <= Len(cps) /\ task'[u].input <= inputs
               /\ task'[u].claim \in {0, u}
    <3>1. CASE u = t
      BY <3>1, <1>3, TaskFacts, StateStart
    <3>2. CASE u # t
      BY <3>2, <2>1, <1>3 DEF References
    <3> QED BY <3>1, <3>2
  <2>3. ASSUME NEW u \in Tasks
        PROVE  /\ ex'[u].at <= Len(cps) /\ ex'[u].seen <= Len(cps) /\ ex'[u].input <= inputs
               /\ ex'[u].wait.id <= waits /\ ex'[u].svc <= Len(services)
    <3>1. CASE u = t
      BY <3>1, <1>3, TaskFacts, StateStart
    <3>2. CASE u # t
      BY <3>2, <2>1, <1>3 DEF References
    <3> QED BY <3>1, <3>2
  <2> QED BY <2>1, <2>2, <2>3, <1>1 DEF References
<1>8. OneOwner' /\ OffersQueued' /\ EarlierClaimsPassed' /\ StreamSettles'
  <2>1. \A u \in Tasks : owner' # u
    BY <1>1, BoundsAssumption DEF Tasks
  <2> QED BY <2>1, <1>5 DEF OneOwner, OffersQueued, EarlierClaimsPassed, StreamSettles, Producing
<1>9. ClaimsInOrder'
  <2>1. doc.resumeClaim \in Nat
    BY Numbers
  <2> QED BY <2>1, <1>1, <1>2, <1>3, TaskFacts DEF RunInv, ClaimsInOrder
<1>10. CheckpointsForward'
  <2>1. \A u \in Tasks : task[u].resume \in Nat /\ task[u].claim \in Nat
    BY Numbers
  <2>2. ASSUME NEW u \in Tasks PROVE task'[u].resume <= doc'.checkpoint
    BY <1>1, <1>3, TaskFacts, StateStart DEF RunInv, CheckpointsForward
  <2>3. ASSUME NEW u \in Tasks, NEW v \in Tasks, task'[u].claim < task'[v].claim
        PROVE  task'[u].resume <= task'[v].resume
    <3>1. v # t
      BY <2>1, <2>3, <1>3, TaskFacts
    <3>2. CASE u = t
      BY <2>1, <3>1, <3>2, <1>3, TaskFacts
    <3>3. CASE u # t
      BY <2>3, <3>1, <3>3, <1>3 DEF RunInv, CheckpointsForward
    <3> QED BY <3>2, <3>3
  <2> QED BY <2>2, <2>3, <1>5 DEF CheckpointsForward
<1>11. WaitsNamed'
  BY <1>1, <1>3, TaskFacts DEF RunInv, WaitsNamed
<1>12. RunningIsClaimed'
  <2> SUFFICES ASSUME doc'.status = "running", "unrecorded failure" \notin incidents'
               PROVE  \E u \in Tasks : ToLaunch(u)'
    BY DEF RunningIsClaimed
  <2>1. PICK u \in Tasks : ToLaunch(u) \/ InExecution(u)
    BY <1>1 DEF RunInv, RunningIsClaimed
  <2>2. ToLaunch(u) /\ u # t
    BY <2>1, <1>1, <1>2, <1>4 DEF InExecution, ToLaunch, PendingTask
  <2>3. ToLaunch(u)'
    BY <2>2, <1>1, <1>3 DEF ToLaunch, PendingTask
  <2> QED BY <2>3
<1> QED BY <1>6, <1>7, <1>8, <1>9, <1>10, <1>11, <1>12, TypePartsNext DEF RunInv

LEMMA ParkedResumeKeeps == ASSUME RunInv, NEW t \in Tasks, ParkedResume(t) PROVE RunInv'
<1>1. PICK r : r = Head(ex[t].inbox)
  OBVIOUS
<1>2. /\ ex[t].prod = "parked" /\ ex[t].inbox # <<>> /\ task[r].resume = ex[t].at
      /\ task' = [task EXCEPT ![r] = Gone]
      /\ UNCHANGED <<doc, cps, owner, services, current, closed, restarts, faults, waits, oldWaits,
                     answered, inputs, incidents>>
  BY <1>1 DEF ParkedResume, Front
<1>3. /\ r \in Tasks /\ Tail(ex[t].inbox) \in Seq(Tasks)
      /\ task[r].st = "offered"
  <2> DEFINE s == ex[t].inbox
  <2>1. s \in Seq(Tasks) /\ s # <<>>
    BY <1>2, ProducerTypes
  <2>2. ex[t].prod # "ended" => \A n \in 1..Len(s) : task[s[n]].st = "offered"
    BY DEF RunInv, OffersQueued
  <2> HIDE DEF s
  <2>3. Head(s) \in Tasks /\ Tail(s) \in Seq(Tasks) /\ Head(s) = s[1] /\ 1 \in 1..Len(s)
    BY <2>1, TailFacts
  <2>4. r = Head(s)
    BY <1>1 DEF s
  <2>5. task[r].st = "offered"
    BY <2>2, <2>3, <2>4, <1>2
  <2> QED BY <2>3, <2>4, <2>5 DEF s
<1>4. Producing(t) /\ ex[t].pc \in {"run", "publish", "wake"} /\ owner = t /\ task[t].st = "owner" /\ r # t
  <2>1. Producing(t)
    BY <1>2 DEF Producing
  <2> QED BY <2>1, <1>3 DEF RunInv, OneOwner
<1>5. PICK z : z = Append(ex[t].stream, "resumed")
  OBVIOUS
<1>6. z \in Seq(StreamEvents)
  <2>1. "resumed" \in StreamEvents /\ ex[t].stream \in Seq(StreamEvents)
    BY ProducerTypes DEF StreamEvents
  <2> QED BY <1>5, <2>1, AppendLast
<1>7. PICK i : i = Tail(ex[t].inbox)
  OBVIOUS
<1>8. PICK g : /\ g = [ex[t] EXCEPT !.inbox = i, !.prod = "run", !.claim = task[r].claim,
                                    !.input = task[r].input, !.stream = z]
               /\ ex' = [ex EXCEPT ![t] = g]
  BY ZenonT(60), <1>1, <1>5, <1>7, ProducerTypes DEF ParkedResume, Front, Executions
<1>9. g \in Executions
  <2>1. ex[t] \in Executions /\ task[r] \in Launches
    BY <1>3, Numbers
  <2>2. PICK c \in 0..MaxTasks : c = task[r].claim
    BY <2>1 DEF Launches
  <2>3. PICK n \in Nat : n = task[r].input
    BY <2>1 DEF Launches
  <2>4. i \in Seq(Tasks)
    BY <1>3, <1>7
  <2>5. g = [ex[t] EXCEPT !.inbox = i, !.prod = "run", !.claim = c, !.input = n, !.stream = z]
    BY <1>8, <2>2, <2>3
  <2> QED BY <1>6, <2>1, <2>4, <2>5 DEF Executions
<1>10. /\ g.pc = ex[t].pc /\ g.prod = "run" /\ g.at = ex[t].at /\ g.inbox = i /\ g.stream = z
       /\ g.claim = task[r].claim /\ g.input = task[r].input /\ g.seen = ex[t].seen
       /\ g.status = ex[t].status /\ g.wait = ex[t].wait /\ g.svc = ex[t].svc
  BY <1>8, ProducerTypes DEF Executions
<1>11. /\ task' \in [Tasks -> Launches] /\ task'[r] = Gone /\ \A u \in Tasks \ {r} : task'[u] = task[u]
       /\ ex' \in [Tasks -> Executions] /\ ex'[t] = g /\ \A u \in Tasks \ {t} : ex'[u] = ex[u]
  BY <1>2, <1>3, <1>8, <1>9, TaskFacts
<1>12. \A u \in Tasks \ {t} : /\ ex[u].pc = "off" /\ ~Producing(u) /\ ex[u].inbox = <<>>
                              /\ ex[u].prod = "off" /\ task[u].st # "owner"
  BY <1>4, OwnerOnly
<1>13. Shapes'
  BY <1>2, <1>11 DEF RunInv, RunTypeOK, Shapes
<1>14. References'
  <2>1. References
    BY TypeParts DEF RunInv
  <2>2. ASSUME NEW u \in Tasks
        PROVE  /\ task'[u].resume <= Len(cps) /\ task'[u].input <= inputs
               /\ task'[u].claim \in {0, u}
    <3>1. CASE u = r
      BY <3>1, <1>11, TaskFacts, StateStart
    <3>2. CASE u # r
      BY <3>2, <2>1, <1>11 DEF References
    <3> QED BY <3>1, <3>2
  <2>3. ASSUME NEW u \in Tasks
        PROVE  /\ ex'[u].at <= Len(cps) /\ ex'[u].seen <= Len(cps) /\ ex'[u].input <= inputs
               /\ ex'[u].wait.id <= waits /\ ex'[u].svc <= Len(services)
    <3>1. CASE u = t
      BY <3>1, <2>1, <1>3, <1>10, <1>11 DEF References
    <3>2. CASE u # t
      BY <3>2, <2>1, <1>11 DEF References
    <3> QED BY <3>1, <3>2
  <2> QED BY <2>1, <2>2, <2>3, <1>2 DEF References
<1>15. OneOwner'
  <2>1. ASSUME NEW u \in Tasks
        PROVE  /\ (task'[u].st = "owner") <=> (owner' = u)
               /\ (owner' = u) <=> (ex'[u].pc # "off")
               /\ Producing(u)' => ex'[u].pc \in {"run", "publish", "wake"}
               /\ ex'[u].pc = "load" => ex'[u].prod = "off"
    <3>1. CASE u = t
      BY <3>1, <1>2, <1>4, <1>10, <1>11
    <3>2. CASE u # t
      BY <3>2, <1>2, <1>4, <1>11, <1>12, TaskFacts DEF Producing
    <3> QED BY <3>1, <3>2
  <2> QED BY <2>1 DEF OneOwner
<1>16. OffersQueued'
  <2>1. ASSUME NEW n \in 1..Len(i)
        PROVE  /\ task'[i[n]].st = "offered" /\ task'[i[n]].target = t
               /\ \A m \in 1..Len(i) : i[m] = i[n] => m = n
    <3>1. /\ task[i[n]].st = "offered" /\ task[i[n]].target = t /\ i[n] # r
          /\ \A m \in 1..Len(i) : i[m] = i[n] => m = n
      BY <1>1, <1>2, <1>7, TailOffered
    <3>2. i[n] \in Tasks
      BY <1>3, <1>7
    <3> QED BY <3>1, <3>2, <1>11
  <2>2. ex'[t].inbox = i /\ ex'[t].pc # "off"
    BY <1>4, <1>10, <1>11
  <2>3. \A u \in Tasks \ {t} : ex'[u].inbox = <<>> /\ ex'[u].prod = "off"
    BY <1>11, <1>12
  <2> QED BY <2>1, <2>2, <2>3 DEF OffersQueued
<1>17. ClaimsInOrder'
  <2>1. doc.resumeClaim \in Nat
    BY Numbers
  <2> QED BY <2>1, <1>2, <1>3, <1>10, <1>11, TaskFacts DEF RunInv, ClaimsInOrder
<1>18. \A u \in Tasks : task[u].resume \in Nat /\ task[u].claim \in Nat /\ ex[u].at \in Nat
  BY Numbers
<1>19. CheckpointsForward'
  <2>2. ASSUME NEW u \in Tasks PROVE task'[u].resume <= doc'.checkpoint
    BY <1>2, <1>11, TaskFacts, StateStart DEF RunInv, CheckpointsForward
  <2>3. ASSUME NEW u \in Tasks, NEW v \in Tasks, task'[u].claim < task'[v].claim
        PROVE  task'[u].resume <= task'[v].resume
    <3>1. v # r
      BY <1>18, <2>3, <1>11, TaskFacts
    <3>2. CASE u = r
      BY <1>18, <3>1, <3>2, <1>11, TaskFacts
    <3>3. CASE u # r
      BY <2>3, <3>1, <3>3, <1>11 DEF RunInv, CheckpointsForward
    <3> QED BY <3>2, <3>3
  <2>4. ASSUME NEW u \in Tasks, ex'[u].pc \in {"run", "publish", "wake", "final", "failed"}
        PROVE  doc'.checkpoint <= ex'[u].seen
    BY <2>4, <1>2, <1>10, <1>11 DEF RunInv, CheckpointsForward
  <2> QED BY <2>2, <2>3, <2>4 DEF CheckpointsForward
<1>20. EarlierClaimsPassed'
  <2> SUFFICES ASSUME NEW o \in Tasks, NEW v \in Tasks, Producing(o)', task'[v].claim < ex'[o].claim
               PROVE  /\ task'[v].resume <= ex'[o].at
                      /\ ex'[o].prod = "parked" => task'[v].resume < ex'[o].at
    BY DEF EarlierClaimsPassed
  <2>1. o = t
    BY <1>11, <1>12 DEF Producing
  <2>2. CASE v = r
    BY <2>1, <2>2, <1>10, <1>11, <1>18, TaskFacts
  <2>3. CASE v # r
    <3>1. task[v].resume <= task[r].resume
      BY <2>1, <2>3, <1>3, <1>10, <1>11 DEF RunInv, CheckpointsForward
    <3> QED BY <2>1, <2>3, <3>1, <1>2, <1>10, <1>11
  <2> QED BY <2>2, <2>3
<1>21. StreamSettles'
  <2>1. ASSUME NEW u \in Tasks PROVE Settles(ex'[u])
    <3>1. CASE u = t
      BY <3>1, <1>4, <1>10, <1>11 DEF Settles, RunInv, StreamSettles
    <3>2. CASE u # t
      BY <3>2, <1>11, <1>12 DEF Settles
    <3> QED BY <3>1, <3>2
  <2> QED BY <2>1 DEF StreamSettles, Settles
<1>22. WaitsNamed'
  BY <1>2, <1>10, <1>11 DEF RunInv, WaitsNamed
<1>24. ex[t].claim = doc.resumeClaim => task[r].claim = doc.resumeClaim
  <2>1. /\ task[r].claim <= doc.resumeClaim /\ doc.resumeClaim \in Nat /\ task[r].claim \in Nat
        /\ task[r].resume \in Nat
    BY <1>3, Numbers DEF RunInv, ClaimsInOrder
  <2>2. task[r].claim < ex[t].claim => task[r].resume < ex[t].at
    BY <1>2, <1>3, <1>4 DEF RunInv, EarlierClaimsPassed
  <2> QED BY <2>1, <2>2, <1>2
<1>23. RunningIsClaimed'
  <2> SUFFICES ASSUME doc'.status = "running", "unrecorded failure" \notin incidents'
               PROVE  \E u \in Tasks : ToLaunch(u)' \/ InExecution(u)'
    BY DEF RunningIsClaimed
  <2>1. PICK u \in Tasks : ToLaunch(u) \/ InExecution(u)
    BY <1>2 DEF RunInv, RunningIsClaimed
  <2>2. CASE task[r].claim = doc.resumeClaim
    <3>1. InExecution(t)'
      BY <2>2, <1>2, <1>4, <1>10, <1>11 DEF InExecution, ClaimOf
    <3> QED BY <3>1
  <2>3. CASE ToLaunch(u) /\ task[r].claim # doc.resumeClaim
    <3>1. u # r
      BY <2>3 DEF ToLaunch
    <3>2. ToLaunch(u)'
      BY <2>3, <3>1, <1>2, <1>11 DEF ToLaunch, PendingTask
    <3> QED BY <3>2
  <2>4. CASE InExecution(u) /\ task[r].claim # doc.resumeClaim
    <3>1. u = t /\ ex[t].claim = doc.resumeClaim
      BY <2>4, <1>4, <1>12 DEF InExecution, ClaimOf
    <3> QED BY <2>4, <3>1, <1>24
  <2> QED BY <2>1, <2>2, <2>3, <2>4
<1> QED BY <1>13, <1>14, <1>15, <1>16, <1>17, <1>19, <1>20, <1>21, <1>22, <1>23, TypePartsNext DEF RunInv

-----------------------------------------------------------------------------
(* Restart. *)

LEMMA RecoveredFacts ==
  ASSUME RunInv, NEW d, d = Recovered(doc)
  PROVE  /\ d \in Documents /\ d.status # "running" /\ d.wait = doc.wait
         /\ (d.status = "waiting" => doc.status = "waiting")
         /\ d.resumeClaim = doc.resumeClaim /\ d.checkpoint <= Len(cps)
         /\ d.resumeCheckpoint \in {0, doc.resumeCheckpoint}
         /\ d.resumeInput \in {0, doc.resumeInput}
<1>1. doc \in Documents /\ Len(cps) \in Nat /\ doc.checkpoint <= Len(cps)
  BY StateStart
<1>2. CASE ~(doc.status = "running" \/ doc.active)
  <2>1. d = doc
    BY <1>2 DEF Recovered
  <2> QED BY <1>1, <1>2, <2>1
<1>3. CASE doc.status = "running" \/ doc.active
  <2>1. PICK n \in Nat : n = Len(cps)
    BY <1>1
  <2>2. PICK applied \in BOOLEAN : applied = (doc.resumeCheckpoint # 0 /\ n # 0 /\ doc.resumeCheckpoint # n)
    OBVIOUS
  <2>3. PICK i \in Nat : i = IF applied THEN 0 ELSE doc.resumeInput
    BY <1>1 DEF Documents
  <2>4. PICK c \in Nat : c = IF applied THEN 0 ELSE doc.resumeCheckpoint
    BY <1>1 DEF Documents
  <2>5. PICK q : q = [m \in Messages |-> IF doc.queue[m] = "pending" /\ m \in Consumed(n)
                                         THEN "consumed" ELSE doc.queue[m]]
    OBVIOUS
  <2>6. q \in [Messages -> MessageStates]
    BY <1>1, <2>5 DEF Documents, MessageStates
  <2>7. PICK s \in Statuses : s = IF doc.status = "running" THEN "interrupted" ELSE doc.status
    BY <1>1 DEF Documents, Statuses
  <2>8. d = [doc EXCEPT !.checkpoint = n, !.resumeInput = i, !.resumeCheckpoint = c, !.queue = q,
                        !.status = s, !.active = FALSE]
    BY <1>1, <1>3, <2>1, <2>2, <2>3, <2>4, <2>5, <2>7 DEF Recovered, Documents
  <2>9. d \in Documents
    BY <1>1, <2>6, <2>8 DEF Documents
  <2>10. /\ d.status = s /\ d.wait = doc.wait /\ d.checkpoint = n /\ d.resumeInput = i
         /\ d.resumeCheckpoint = c /\ d.resumeClaim = doc.resumeClaim
    BY <1>1, <2>8 DEF Documents
  <2> QED BY <2>1, <2>3, <2>4, <2>7, <2>9, <2>10
<1> QED BY <1>2, <1>3

LEMMA RestartKeeps == ASSUME RunInv, Restart PROVE RunInv'
<1>1. /\ doc' = Recovered(doc) /\ owner' = 0 /\ ex' = [t \in Tasks |-> NoExecution]
      /\ task' = [t \in Tasks |-> IF task[t].st = "none" THEN NoTask ELSE Gone]
      /\ current' = 0 /\ closed' = FALSE /\ oldWaits' = waits
      /\ UNCHANGED <<cps, faults, waits, answered, inputs>>
  BY DEF Restart
<1>2. services' = <<>> /\ services' \in Seq(ServiceObjects) /\ Len(services') = 0
  <2>1. services' = <<>>
    BY DEF Restart
  <2>2. <<>> \in Seq(ServiceObjects) /\ Len(<<>>) = 0
    OBVIOUS
  <2> QED BY <2>1, <2>2, Zenon
<1>3. restarts' \in Nat /\ incidents' \in SUBSET Incidents
  <2>1. restarts \in Nat /\ incidents \in SUBSET Incidents
    BY DEF RunInv, RunTypeOK, Shapes
  <2>2. restarts' \in Nat
    <3>1. restarts' = restarts + 1
      BY DEF Restart
    <3> QED BY <2>1, <3>1
  <2>3. incidents' \in SUBSET Incidents
    BY <2>1 DEF Restart
  <2> QED BY <2>2, <2>3
<1>4. PICK d : d = Recovered(doc) /\ doc' = d
  BY <1>1
<1>5. /\ d \in Documents /\ d.status # "running" /\ d.wait = doc.wait
      /\ (d.status = "waiting" => doc.status = "waiting")
      /\ d.resumeClaim = doc.resumeClaim /\ d.checkpoint <= Len(cps)
      /\ d.resumeCheckpoint \in {0, doc.resumeCheckpoint}
      /\ d.resumeInput \in {0, doc.resumeInput}
  BY <1>4, RecoveredFacts
<1>6. \A u \in Tasks : /\ ex'[u] = NoExecution
                      /\ task'[u] = IF task[u].st = "none" THEN NoTask ELSE Gone
  BY <1>1
<1>7. \A u \in Tasks : /\ (task'[u].st = "none") <=> (task[u].st = "none")
                      /\ task'[u].st # "owner"
                      /\ task'[u].claim = 0 /\ task'[u].resume = 0 /\ task'[u].input = 0
                      /\ ex'[u].pc = "off" /\ ex'[u].inbox = <<>> /\ ex'[u].prod = "off"
                      /\ ex'[u].claim = 0 /\ ex'[u].status = "running"
                      /\ ex'[u].at = 0 /\ ex'[u].seen = 0 /\ ex'[u].input = 0 /\ ex'[u].svc = 0
                      /\ ex'[u].wait.id = 0
  BY <1>6, TaskFacts
<1>8. Shapes'
  <2>1. task' \in [Tasks -> Launches] /\ ex' \in [Tasks -> Executions]
    BY <1>1, TaskFacts
  <2>2. owner' \in 0..MaxTasks
    BY <1>1, BoundsAssumption
  <2>3. oldWaits' \in Nat /\ current' \in Nat /\ closed' \in BOOLEAN
    BY <1>1, StateStart
  <2> QED BY <1>1, <1>2, <1>3, <1>4, <1>5, <2>1, <2>2, <2>3 DEF RunInv, RunTypeOK, Shapes, ServiceObjects
<1>9. References'
  <2>1. References
    BY TypeParts DEF RunInv
  <2>2. /\ doc'.wait.id <= waits' /\ doc'.resumeInput <= inputs'
        /\ doc'.checkpoint <= Len(cps') /\ doc'.resumeCheckpoint <= Len(cps')
    BY <1>1, <1>4, <1>5, StateStart
  <2>3. /\ current' <= Len(services') /\ answered' \subseteq 1..waits' /\ oldWaits' <= waits'
    BY <1>1, <1>2, <2>1, StateStart DEF References
  <2>4. \A u \in Tasks :
         /\ task'[u].resume <= Len(cps') /\ task'[u].input <= inputs'
         /\ task'[u].claim \in {0, u}
         /\ ex'[u].at <= Len(cps') /\ ex'[u].seen <= Len(cps') /\ ex'[u].input <= inputs'
         /\ ex'[u].wait.id <= waits' /\ ex'[u].svc <= Len(services')
    BY <1>1, <1>2, <1>7, StateStart
  <2> QED BY <1>1, <2>1, <2>2, <2>3, <2>4 DEF References
<1>10. OneOwner' /\ OffersQueued' /\ EarlierClaimsPassed' /\ StreamSettles'
  <2>1. \A u \in Tasks : owner' # u
    BY <1>1, BoundsAssumption DEF Tasks
  <2> QED BY <2>1, <1>7 DEF OneOwner, OffersQueued, EarlierClaimsPassed, StreamSettles, Producing
<1>11. ClaimsInOrder'
  <2>1. doc.resumeClaim \in Nat /\ doc'.resumeClaim = doc.resumeClaim
    BY <1>4, <1>5, StateStart, BoundsAssumption DEF Documents
  <2> QED BY <2>1, <1>7 DEF RunInv, ClaimsInOrder
<1>12. CheckpointsForward'
  <2>1. doc'.checkpoint \in Nat
    BY <1>4, <1>5 DEF Documents
  <2> QED BY <2>1, <1>7 DEF CheckpointsForward
<1>13. WaitsNamed'
  BY <1>4, <1>5, <1>7 DEF RunInv, WaitsNamed
<1>14. RunningIsClaimed'
  BY <1>4, <1>5 DEF RunningIsClaimed
<1> QED BY <1>8, <1>9, <1>10, <1>11, <1>12, <1>13, <1>14, TypePartsNext DEF RunInv

-----------------------------------------------------------------------------
(* The theorems. *)

LEMMA InitEstablishes == Init => RunInv
<1> SUFFICES ASSUME Init PROVE RunInv
  OBVIOUS
<1>1. /\ cps = <<>> /\ owner = 0 /\ ex = [t \in Tasks |-> NoExecution]
      /\ task = [t \in Tasks |-> IF t = 1 THEN [NoTask EXCEPT !.st = "new"] ELSE NoTask]
      /\ current = 0 /\ closed = FALSE /\ restarts = 0 /\ faults = 0 /\ waits = 0 /\ oldWaits = 0
      /\ inputs = 0
  BY DEF Init
<1>2. services = <<>> /\ answered = {} /\ incidents = {}
  BY DEF Init
<1>3. PICK q : /\ q = [m \in Messages |-> "absent"]
               /\ doc = [status |-> "running", wait |-> NoWait, checkpoint |-> 0,
                         resumeCheckpoint |-> 0, resumeInput |-> 0, resumeClaim |-> 0,
                         abort |-> FALSE, active |-> FALSE, queue |-> q]
  BY DEF Init
<1>4. 0 \in 0..MaxTasks /\ 1 \in Tasks /\ \A u \in Tasks : u \in Nat /\ u >= 1 /\ u # 0
  BY BoundsAssumption DEF Tasks
<1>5. doc \in Documents
  <2>1. q \in [Messages -> MessageStates]
    BY <1>3 DEF MessageStates
  <2>2. PICK w \in Waits : w = NoWait
    BY DEF NoWait, Waits, WaitKinds
  <2>3. "running" \in Statuses
    BY DEF Statuses
  <2> QED BY <1>3, <1>4, <2>1, <2>2, <2>3 DEF Documents
<1>6. /\ doc.status = "running" /\ doc.wait.id = 0 /\ doc.checkpoint = 0 /\ doc.resumeCheckpoint = 0
      /\ doc.resumeInput = 0 /\ doc.resumeClaim = 0
  BY <1>3 DEF NoWait
<1>7. /\ NoTask \in Launches /\ [NoTask EXCEPT !.st = "new"] \in Launches
      /\ NoTask.st = "none" /\ NoTask.claim = 0 /\ NoTask.resume = 0 /\ NoTask.input = 0
      /\ [NoTask EXCEPT !.st = "new"].st = "new" /\ [NoTask EXCEPT !.st = "new"].claim = 0
      /\ [NoTask EXCEPT !.st = "new"].resume = 0 /\ [NoTask EXCEPT !.st = "new"].input = 0
  BY <1>4 DEF NoTask, Launches
<1>8. /\ NoExecution.pc = "off" /\ NoExecution.prod = "off" /\ NoExecution.at = 0
      /\ NoExecution.seen = 0 /\ NoExecution.input = 0 /\ NoExecution.svc = 0
      /\ NoExecution.claim = 0 /\ NoExecution.wait.id = 0 /\ NoExecution.status = "running"
      /\ NoExecution.inbox = <<>>
  BY DEF NoExecution, NoWait
<1>9. \A u \in Tasks : /\ ex[u] = NoExecution
                      /\ task[u].st = (IF u = 1 THEN "new" ELSE "none")
                      /\ task[u].claim = 0 /\ task[u].resume = 0 /\ task[u].input = 0
  BY <1>1, <1>7
<1>10. Len(cps) = 0 /\ cps \in Seq(Checkpoints) /\ Len(services) = 0 /\ services \in Seq(ServiceObjects)
  BY <1>1, <1>2
<1>11. Shapes
  <2>1. task \in [Tasks -> Launches] /\ ex \in [Tasks -> Executions]
    BY <1>1, <1>7, NothingItself
  <2>2. answered \in SUBSET Nat /\ incidents \in SUBSET Incidents
    BY <1>2
  <2>3. owner \in 0..MaxTasks /\ closed \in BOOLEAN
    BY <1>1, <1>4
  <2>4. current \in Nat /\ restarts \in Nat /\ faults \in Nat /\ waits \in Nat /\ oldWaits \in Nat /\ inputs \in Nat
    BY <1>1
  <2> QED BY <1>5, <1>10, <2>1, <2>2, <2>3, <2>4 DEF Shapes, ServiceObjects
<1>12. References
  BY <1>1, <1>2, <1>6, <1>8, <1>9, <1>10 DEF References
<1>13. OneOwner /\ OffersQueued /\ EarlierClaimsPassed /\ StreamSettles
  BY <1>1, <1>4, <1>8, <1>9 DEF OneOwner, OffersQueued, EarlierClaimsPassed, StreamSettles, Producing
<1>14. ClaimsInOrder /\ CheckpointsForward /\ WaitsNamed
  BY <1>4, <1>6, <1>8, <1>9 DEF ClaimsInOrder, CheckpointsForward, WaitsNamed
<1>15. RunningIsClaimed
  <2>1. ToLaunch(1)
    BY <1>4, <1>6, <1>9 DEF ToLaunch, PendingTask
  <2> QED BY <2>1, <1>4 DEF RunningIsClaimed
<1> QED BY <1>11, <1>12, <1>13, <1>14, <1>15, TypeParts DEF RunInv

LEMMA StutterKeeps == ASSUME RunInv, UNCHANGED vars PROVE RunInv'
<1>1. SameExecutions /\ SameLaunches
  BY DEF vars, RunInv, RunTypeOK, Shapes, SameExecutions, SameLaunches, PendingTask
<1>2. OffersQueued'
  BY DEF vars, RunInv, OffersQueued
<1> QED BY <1>1, <1>2, PendingKeeps DEF vars

LEMMA NextKeeps == ASSUME RunInv, [Next]_vars PROVE RunInv'
<1>1. CASE Command
  <2>1. ASSUME NEW m \in Messages, Queue(m) \/ RemoveMessage(m) PROVE RunInv'
    BY <2>1, QueueKeeps, RemoveMessageKeeps
  <2>2. ASSUME NEW S \in SUBSET Messages, Resume(S) PROVE RunInv'
    BY <2>2, ResumeKeeps
  <2> QED BY <1>1, <2>1, <2>2, AnswerKeeps, CancelKeeps, ShutdownKeeps DEF Command
<1>2. ASSUME NEW t \in Tasks, Launch(t) PROVE RunInv'
  BY <1>2, TakeOwnershipKeeps, OfferKeeps, OfferEndsKeeps, LoadKeeps, FailsKeeps DEF Launch
<1>3. ASSUME NEW t \in Tasks, Producer(t) PROVE RunInv'
  <2>1. ASSUME NEW m \in Messages, ProducerClaim(t, m) PROVE RunInv'
    BY <2>1, ProducerClaimKeeps
  <2>2. ASSUME NEW failed \in BOOLEAN, KidsSettle(t, failed) PROVE RunInv'
    BY <2>2, KidsSettleKeeps
  <2> QED BY <1>3, <2>1, <2>2, ProducerStepKeeps, ProducerEmptyKeeps, ProducerWaitKeeps,
             ProducerDoneKeeps, ProducerFailKeeps, ParkedCancelKeeps, ParkedResumeKeeps,
             ParkedResumeRefusedKeeps, ProducerEndKeeps, ProducerEndFailsKeeps DEF Producer
<1>4. ASSUME NEW t \in Tasks, Consumer(t) PROVE RunInv'
  BY <1>4, FlushKeeps, TakeEventKeeps, WakeKeeps, StreamClosedKeeps, PersistKeeps,
     PersistFailureFailsKeeps, CloseKeeps DEF Consumer
<1> QED BY <1>1, <1>2, <1>3, <1>4, RestartKeeps, StutterKeeps DEF Next

\* The strengthening holds of every reachable state of a run, for every number of
\* launches, checkpoints, messages, restarts and failures.
THEOREM RunInvariant == Spec => []RunInv
<1>1. Init => RunInv
  BY InitEstablishes
<1>2. RunInv /\ [Next]_vars => RunInv'
  BY NextKeeps
<1> QED BY <1>1, <1>2, PTL DEF Spec

\* A running run of which nothing is left to launch or to execute does not exist:
\* the launch that holds its claim is pending, or its execution has still to
\* persist an end.
LEMMA RunningHasLaunch == RunInv => RunsAreOwned
<1> SUFFICES ASSUME RunInv, doc.status = "running", "unrecorded failure" \notin incidents
             PROVE  ~Quiescent
  BY DEF RunInv, RunsAreOwned, NoOrphan
<1>1. PICK u \in Tasks : ToLaunch(u) \/ InExecution(u)
  BY DEF RunInv, RunningIsClaimed
<1>2. CASE ToLaunch(u)
  BY <1>2 DEF ToLaunch, PendingTask, Quiescent
<1>3. CASE InExecution(u)
  <2>1. ex[u].pc # "off"
    BY <1>3 DEF InExecution
  <2>2. task[u].st = "owner"
    BY <2>1 DEF RunInv, OneOwner
  <2> QED BY <2>2 DEF Quiescent
<1> QED BY <1>1, <1>2, <1>3

\* sessions.rs: every reference of a run names something that exists, and a run
\* recorded as running always has a launch that will settle it, whatever
\* commands, handovers, failures and restarts happened, except after a failure
\* that could not be recorded.
THEOREM RunsAlwaysOwned == Spec => []RunsAreOwned
<1>1. RunInv => RunsAreOwned
  BY RunningHasLaunch
<1> QED BY <1>1, RunInvariant, PTL

\* What a claim leaves of an abort: nothing.
LEMMA ClaimEndsAbort ==
  ASSUME NEW d, d \in Documents, NEW input, ClaimResume(d, input)
  PROVE  AbortWins'
<1>1. doc' = [d EXCEPT !.resumeInput = input, !.resumeCheckpoint = d.checkpoint,
              !.status = "running", !.wait = NoWait, !.abort = FALSE, !.resumeClaim = FreeTask]
  BY DEF ClaimResume, Claimed
<1>2. doc'.status = "running"
  BY <1>1 DEF Documents
<1> QED BY <1>2 DEF AbortWins

LEMMA AbortKept == ASSUME RunInv, AbortWins, [Next]_vars PROVE AbortWins'
<1>0. doc \in Documents
  BY StateStart
<1>1. CASE UNCHANGED doc
  BY <1>1 DEF AbortWins
<1>2. CASE Answer
  BY <1>0, <1>2, ClaimEndsAbort DEF Answer
<1>3. ASSUME NEW m \in Messages, Queue(m) \/ RemoveMessage(m) PROVE AbortWins'
  <2>1. PICK s \in MessageStates : /\ s \in {"pending", "cancelled"}
          /\ \/ ClaimResume([doc EXCEPT !.queue[m] = s], 0)
             \/ doc' = [doc EXCEPT !.queue[m] = s]
    BY <1>3 DEF Queue, RemoveMessage, MessageStates
  <2>2. OnlyQueue([doc EXCEPT !.queue[m] = s])
    BY <1>0, QueueSet
  <2> QED BY <2>1, <2>2, ClaimEndsAbort DEF OnlyQueue, AbortWins
<1>4. CASE Cancel
  <2>1. doc' = [doc EXCEPT !.abort = TRUE, !.status = IF doc.status = "waiting" THEN "stopped" ELSE doc.status]
    BY <1>0, <1>4 DEF Cancel, Documents
  <2> QED BY <1>0, <2>1 DEF Documents, AbortWins
<1>5. ASSUME NEW S \in SUBSET Messages, Resume(S) PROVE AbortWins'
  <2>1. PICK q : q = [m \in Messages |-> IF m \in S THEN "pending" ELSE doc.queue[m]]
    OBVIOUS
  <2>2. q \in [Messages -> MessageStates]
    BY <1>0, <2>1 DEF Documents, MessageStates
  <2>3. ClaimResume([doc EXCEPT !.queue = q], doc.resumeInput)
    BY <1>5, <2>1 DEF Resume
  <2>4. [doc EXCEPT !.queue = q] \in Documents
    BY <1>0, <2>2, QueueWith DEF OnlyQueue
  <2> QED BY <2>3, <2>4, ClaimEndsAbort
<1>6. ASSUME NEW t \in Tasks, Flush(t) PROVE AbortWins'
  <2>1. PICK k : doc' = [doc EXCEPT !.checkpoint = k]
    BY <1>6 DEF Flush
  <2> QED BY <1>0, <2>1 DEF Documents, AbortWins
<1>7. ASSUME NEW t \in Tasks, PublishWait(t) \/ PersistFinal(t) \/ PersistFailure(t) PROVE AbortWins'
  <2>1. doc' = Merged(doc, ex[t])
    BY <1>7 DEF PublishWait, PersistFinal, PersistFailure, PersistEvent
  <2>2. PICK s : /\ s = IF doc.abort /\ (IF AlreadyClaimed(doc, ex[t]) THEN "running" ELSE ex[t].status) = "waiting"
                        THEN "stopped"
                        ELSE IF AlreadyClaimed(doc, ex[t]) THEN "running" ELSE ex[t].status
                 /\ doc'.status = s /\ doc'.abort = doc.abort
    BY <1>0, <2>1 DEF Merged, Documents
  <2>3. doc.abort => s # "waiting"
    BY <2>2
  <2> QED BY <2>2, <2>3, Zenon DEF AbortWins
<1>8. ASSUME NEW t \in Tasks, WakePublished(t) \/ WakeFinal(t) PROVE AbortWins'
  <2>1. ClaimResume(doc, 0) \/ UNCHANGED doc
    BY <1>8 DEF WakePublished, WakeFinal, WakeQueuedInput
  <2> QED BY <1>0, <1>1, <2>1, ClaimEndsAbort
<1>9. CASE Restart
  <2>1. doc' = Recovered(doc)
    BY <1>9 DEF Restart
  <2>2. PICK d : d = Recovered(doc) /\ doc' = d
    BY <2>1
  <2>3. d.abort = doc.abort
    BY <1>0, <2>2 DEF Recovered, Documents
  <2>4. d.status = "waiting" => doc.status = "waiting"
    BY <2>2, RecoveredFacts
  <2> QED BY <2>2, <2>3, <2>4, Zenon DEF AbortWins
<1>10. ASSUME NEW t \in Tasks, Launch(t) PROVE UNCHANGED doc
  BY <1>10 DEF Launch, TakeOwnership, Offer, OfferDropped, AwaitFinished, Load, LoadFails, ExecuteFails
<1>11. ASSUME NEW t \in Tasks, Producer(t) PROVE UNCHANGED doc
  BY <1>11 DEF Producer, ProducerStep, ProducerClaim, ProducerEmpty, ProducerWait, ProducerDone,
               ProducerFail, KidsSettle, ParkedCancel, ParkedResume, ParkedResumeRefused, ProducerEnd,
               ProducerEndFails, producerVars
<1>12. ASSUME NEW t \in Tasks, Consumer(t) PROVE AbortWins'
  <2>1. TakeEvent(t) \/ StreamClosed(t) \/ PersistFailureFails(t) \/ Close(t) => UNCHANGED doc
    BY DEF TakeEvent, StreamClosed, PersistFailureFails, Close
  <2> QED BY <1>1, <1>6, <1>7, <1>8, <1>12, <2>1 DEF Consumer
<1>13. CASE Command
  <2>1. Shutdown => UNCHANGED doc
    BY DEF Shutdown
  <2> QED BY <1>1, <1>2, <1>3, <1>4, <1>5, <1>13, <2>1 DEF Command
<1>14. UNCHANGED vars => UNCHANGED doc
  BY DEF vars
<1> QED BY <1>1, <1>9, <1>10, <1>11, <1>12, <1>13, <1>14 DEF Next

\* sessions.rs, persist_event: a run whose user asked for a stop is never shown
\* waiting for that user, also when the abort races the publication of a wait,
\* a wake, a claim or the recovery after a restart.
THEOREM AbortAlwaysWins == Spec => []AbortWins
<1>1. Init => AbortWins
  BY DEF Init, AbortWins
<1>2. RunInv /\ AbortWins /\ [Next]_vars => AbortWins'
  BY AbortKept
<1> QED BY <1>1, <1>2, RunInvariant, PTL DEF Spec

=============================================================================
