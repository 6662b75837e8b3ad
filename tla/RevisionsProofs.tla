-------------------------- MODULE RevisionsProofs --------------------------
(***************************************************************************)
(* For all definitions, shapes, super-steps, publications and deaths: the  *)
(* nodes of a super-step run one definition, and one that fits the native  *)
(* executor.                                                               *)
(***************************************************************************)
EXTENDS Revisions, FiniteSetTheorems, TLAPS

Stages == {"select", "activate", "run", "interrupted"}

LEMMA StepsAre == Steps \subseteq Nat /\ \A s \in Steps : s + 1 \in 0 .. MaxStep + 1
    BY RevisionsAssumption DEF Steps

LEMMA ExecIs ==
    ASSUME RevisionsTypeOK, exec # None
    PROVE  /\ exec \in Execs /\ exec.base \in Defs /\ exec.todo \subseteq Nodes
           /\ exec.pc \in Stages /\ exec.node \in Nodes \cup {None}
           /\ exec.def \in Defs \cup {None} /\ exec.rebuilt \in BOOLEAN
           /\ ckpt.step \in Steps /\ ckpt.step \in Nat /\ head \in Defs
           /\ pin[ckpt.step] \in Defs \cup {None} /\ graphPin[ckpt.step] \in Defs \cup {None}
           /\ boundary[ckpt.step] \in Requests \cup {None}
    <1>1. exec \in Execs BY DEF RevisionsTypeOK
    <1>2. /\ exec.base \in Defs /\ exec.todo \subseteq Nodes /\ exec.pc \in Stages
          /\ exec.node \in Nodes \cup {None} /\ exec.def \in Defs \cup {None}
          /\ exec.rebuilt \in BOOLEAN
        BY <1>1 DEF Execs, Stages
    <1>3. ckpt.step \in Steps /\ head \in Defs BY DEF RevisionsTypeOK
    <1>4. ckpt.step \in Nat BY <1>3, StepsAre
    <1> QED BY <1>1, <1>2, <1>3, <1>4 DEF RevisionsTypeOK

LEMMA ActiveIs ==
    ASSUME RevisionsTypeOK, active # None
    PROVE  active \in Actives /\ active.step \in Steps /\ active.step \in Nat /\ active.def \in Defs
    <1>1. active \in Actives BY DEF RevisionsTypeOK
    <1>2. active.step \in Steps /\ active.def \in Defs BY <1>1 DEF Actives
    <1> QED BY <1>1, <1>2, StepsAre

LEMMA CheckpointIs ==
    ASSUME RevisionsTypeOK
    PROVE  /\ ckpt.step \in 0 .. MaxStep + 1 /\ ckpt.step \in Nat /\ ckpt.nodes \subseteq Nodes
           /\ ckpt.shape \in Shapes /\ ckpt.wait \in BOOLEAN
    <1>1. ckpt \in Checkpoints BY DEF RevisionsTypeOK
    <1> QED BY <1>1, RevisionsAssumption DEF Checkpoints

\* A recorded definition is one; nothing is none.
LEMMA NoneIs ==
    /\ \A d \in Defs : d # None
    /\ \A e \in Execs : e # None
    /\ \A a \in Actives : a # None
    /\ \A b \in Requests : b # None
    BY RevisionsAssumption

-----------------------------------------------------------------------------
(***************************************************************************)
(* What a step leaves alone keeps its part of the invariant.               *)
(***************************************************************************)
LEMMA PinsSame ==
    ASSUME PinsKept, UNCHANGED <<ran, pin, active>>, ckpt'.step = ckpt.step PROVE PinsKept'
    BY DEF PinsKept

LEMMA ActiveSame ==
    ASSUME ActiveKept, UNCHANGED <<pin, active>>, ckpt'.step = ckpt.step, ~torn' => ~torn,
           ~torn' => (Activating => Activating')
    PROVE  ActiveKept'
    BY DEF ActiveKept

LEMMA AdoptedSame ==
    ASSUME NEW d, Adopted(d), UNCHANGED <<graphed, graphPin, head, active, busy>>,
           ckpt'.step = ckpt.step, exec'.base = exec.base
    PROVE  Adopted(d)'
    BY DEF Adopted, Candidate, HeldOff, Fallback, Step

-----------------------------------------------------------------------------
(***************************************************************************)
(* Publications.                                                           *)
(***************************************************************************)
LEMMA PublishStep ==
    ASSUME RevisionsInv, Publish PROVE RevisionsInv'
    <1>1. UNCHANGED <<doc, graphed, pin, graphPin, active, boundary, ckpt, busy, exec, ran, torn>>
        BY DEF Publish
    <1>2. PICK d, id :
            /\ d \in Defs /\ DOMAIN batches' = DOMAIN batches \cup {id}
            /\ \/ id \in applied /\ head' = head /\ applied' = applied
               \/ head' = d /\ applied' = applied \cup {id}
        BY DEF Publish, Apply
    <1>3. moved' = (moved \/ (exec # None /\ (exec.rebuilt \/ exec.pc = "interrupted")))
        BY DEF Publish
    <1>4. RevisionsTypeOK'
        <2>1. head' \in Defs \cup {None} /\ (head # None => head' # None)
            BY <1>2, NoneIs DEF RevisionsInv, RevisionsTypeOK
        <2> QED BY <1>1, <2>1 DEF RevisionsInv, RevisionsTypeOK
    <1>5. BatchesKept' BY <1>2 DEF RevisionsInv, BatchesKept
    <1>6. PinsKept' /\ ActiveKept'
        BY <1>1, PinsSame, ActiveSame DEF RevisionsInv, Activating
    <1>7. ExecKept' BY <1>1 DEF RevisionsInv, ExecKept, Step
    <1>8. ShapeKept'
        <2> SUFFICES ASSUME exec # None, ~moved', ~torn
                     PROVE  ShapeKept'
            BY <1>1 DEF ShapeKept
        <2>1. ~moved /\ ~exec.rebuilt /\ exec.pc # "interrupted" BY <1>3
        <2> QED BY <1>1, <2>1 DEF RevisionsInv, ShapeKept, Step
    <1> QED BY <1>4, <1>5, <1>6, <1>7, <1>8 DEF RevisionsInv

\* A batch that has its receipt is not applied again.
LEMMA ReplayStep ==
    ASSUME RevisionsInv, Replay PROVE RevisionsInv'
    <1>1. UNCHANGED <<doc, graphed, batches, pin, graphPin, active, boundary, ckpt, busy, exec,
                      ran, moved, torn>>
        BY DEF Replay
    <1>2. UNCHANGED <<head, applied>> BY DEF Replay, Apply, RevisionsInv, BatchesKept
    <1>3. RevisionsTypeOK' BY <1>1, <1>2 DEF RevisionsInv, RevisionsTypeOK
    <1>4. BatchesKept' BY <1>1, <1>2 DEF RevisionsInv, BatchesKept
    <1>5. PinsKept' /\ ActiveKept' BY <1>1, PinsSame, ActiveSame DEF RevisionsInv, Activating
    <1>6. ExecKept' BY <1>1 DEF RevisionsInv, ExecKept, Step
    <1>7. ShapeKept'
        BY <1>1, <1>2 DEF RevisionsInv, ShapeKept, Step, Adopted, Candidate, HeldOff, Fallback
    <1> QED BY <1>3, <1>4, <1>5, <1>6, <1>7 DEF RevisionsInv

-----------------------------------------------------------------------------
(***************************************************************************)
(* The executor.                                                           *)
(***************************************************************************)

\* An executor is built for the definition of its checkpoint.
LEMMA LaunchStep ==
    ASSUME RevisionsInv, Launch PROVE RevisionsInv'
    <1>0. RevisionsTypeOK BY DEF RevisionsInv
    <1>1. /\ UNCHANGED <<doc, graphed, batches, applied, pin, graphPin, active, boundary, busy, ran, torn>>
          /\ exec = None /\ ckpt.step <= MaxStep /\ moved' = FALSE
        BY DEF Launch
    <1>2. ckpt.step \in Steps BY <1>0, <1>1, CheckpointIs, RevisionsAssumption DEF Steps
    <1>3. /\ pin[ckpt.step] # None => CheckpointDefinition = pin[ckpt.step]
          /\ pin[ckpt.step] = None /\ active # None => CheckpointDefinition = active.def
          /\ pin[ckpt.step] = None /\ active = None => CheckpointDefinition = doc
        BY DEF CheckpointDefinition, RevisionsInv, PinsKept
    <1>4. CheckpointDefinition \in Defs
        <2>1. pin[ckpt.step] \in Defs \cup {None} /\ doc \in Defs BY <1>0, <1>2 DEF RevisionsTypeOK
        <2> QED BY <1>0, <1>3, <2>1, ActiveIs
    <1>5. PICK d \in Defs : d = CheckpointDefinition BY <1>4
    <1>6. /\ exec' = [base |-> d, todo |-> ckpt.nodes, pc |-> "select", node |-> None,
                      def |-> None, rebuilt |-> FALSE]
          /\ head' = IF head = None THEN d ELSE head
          /\ ckpt' = [ckpt EXCEPT !.wait = FALSE]
        BY <1>5 DEF Launch, Claim
    <1>7. /\ exec' \in Execs /\ exec'.base = d /\ exec'.pc = "select" /\ exec'.def = None
          /\ exec'.rebuilt = FALSE
        BY <1>0, <1>6, CheckpointIs DEF Execs
    <1>8. ckpt' \in Checkpoints /\ ckpt'.step = ckpt.step
        BY <1>0, <1>6 DEF RevisionsTypeOK, Checkpoints
    <1>9. RevisionsTypeOK'
        <2>1. head' \in Defs /\ head' # None BY <1>0, <1>6, NoneIs DEF RevisionsTypeOK
        <2> QED BY <1>0, <1>1, <1>2, <1>7, <1>8, <2>1 DEF RevisionsTypeOK
    <1>10. BatchesKept' BY <1>1 DEF RevisionsInv, BatchesKept
    <1>11. PinsKept' BY <1>1, <1>8, PinsSame DEF RevisionsInv
    <1>12. ActiveKept' BY <1>1, <1>8, ActiveSame DEF RevisionsInv, Activating
    <1>13. ExecKept' BY <1>7 DEF ExecKept
    <1>14. ShapeKept'
        <2>1. exec'.pc # "interrupted" /\ ~exec'.rebuilt BY <1>7
        <2>2. pin[ckpt.step] # None => Shape[pin[ckpt.step]] = Shape[d] BY <1>3, <1>5
        <2>3. pin[ckpt.step] = None /\ active # None => Shape[active.def] = Shape[d]
            BY <1>3, <1>5
        <2> QED BY <1>1, <1>7, <1>8, <2>1, <2>2, <2>3 DEF ShapeKept, Step
    <1> QED BY <1>9, <1>10, <1>11, <1>12, <1>13, <1>14 DEF RevisionsInv

\* Steps that only move the executor on.
LEMMA ExecMoves ==
    ASSUME RevisionsInv, UNCHANGED <<head, applied, pin, graphPin, active, boundary, doc, graphed,
                                     batches, busy, ran, moved, torn>>,
           ckpt' = ckpt, exec # None, exec' \in Execs, exec'.base = exec.base,
           exec'.rebuilt = exec.rebuilt, exec'.pc # "interrupted" \/ pin[ckpt.step] # None,
           exec.pc # "activate", exec'.pc # "activate", ExecKept',
           exec'.rebuilt => exec'.pc = "select"
    PROVE  RevisionsInv'
    <1>1. RevisionsTypeOK' BY DEF RevisionsInv, RevisionsTypeOK
    <1>2. BatchesKept' /\ PinsKept' BY PinsSame DEF RevisionsInv, BatchesKept
    <1>3. ActiveKept' BY ActiveSame DEF RevisionsInv, Activating
    <1>4. ShapeKept'
        <2> SUFFICES ASSUME ~moved, ~torn PROVE ShapeKept' BY DEF ShapeKept
        <2>1. /\ pin[ckpt.step] # None => Shape[pin[ckpt.step]] = Shape[exec.base]
              /\ pin[ckpt.step] = None /\ ~exec.rebuilt /\ active # None =>
                   Shape[active.def] = Shape[exec.base]
              /\ pin[ckpt.step] = None /\ exec.rebuilt => Adopted(exec.base)
            BY DEF RevisionsInv, ShapeKept, Step
        <2>2. pin[ckpt.step] = None /\ exec.rebuilt => Adopted(exec.base)'
            <3>1. PICK d : d = exec.base OBVIOUS
            <3>2. Adopted(d) => Adopted(d)' BY AdoptedSame
            <3> QED BY <2>1, <3>1, <3>2 DEF Adopted, HeldOff
        <2> QED BY <2>1, <2>2 DEF ShapeKept, Step
    <1> QED BY <1>1, <1>2, <1>3, <1>4 DEF RevisionsInv

LEMMA SelectPinnedStep ==
    ASSUME RevisionsInv, NEW n \in Nodes, SelectPinned(n) PROVE RevisionsInv'
    <1>0. RevisionsTypeOK /\ exec # None BY DEF RevisionsInv, SelectPinned
    <1>1. /\ UNCHANGED <<head, applied, pin, graphPin, active, boundary, doc, graphed, batches,
                         busy, ran, moved, torn>>
          /\ ckpt' = ckpt /\ exec.pc = "select" /\ pin[ckpt.step] # None
        BY DEF SelectPinned, stored, Step
    <1>2. PICK d \in Defs : d = pin[ckpt.step] BY <1>0, <1>1, ExecIs
    <1>3. exec' = [exec EXCEPT !.pc = "run", !.node = n, !.def = d]
        BY <1>2 DEF SelectPinned, Step
    <1>4. /\ exec' \in Execs /\ exec'.base = exec.base /\ exec'.rebuilt = exec.rebuilt
          /\ exec'.pc = "run" /\ exec'.def = d
        BY <1>0, <1>3, ExecIs DEF Execs
    <1>5. ~exec.rebuilt BY <1>0, <1>1 DEF RevisionsInv, ExecKept, Step
    <1>6. ExecKept' BY <1>1, <1>2, <1>4, <1>5, NoneIs DEF ExecKept, Step
    <1> QED BY <1>0, <1>1, <1>4, <1>5, <1>6, ExecMoves

LEMMA PinGraphStep ==
    ASSUME RevisionsInv, PinGraph PROVE RevisionsInv'
    <1>0. RevisionsTypeOK /\ exec # None BY DEF RevisionsInv, PinGraph
    <1>1. /\ UNCHANGED <<head, applied, pin, active, boundary, ckpt, doc, graphed, batches, busy,
                         exec, ran, moved, torn>>
          /\ exec.pc = "select" /\ pin[ckpt.step] = None /\ graphed /\ graphPin[ckpt.step] = None
        BY DEF PinGraph, Step
    <1>2. graphPin' = [graphPin EXCEPT ![ckpt.step] = head] BY DEF PinGraph, Step, LatestGraph
    <1>3. graphPin' \in [Steps -> Defs \cup {None}]
        BY <1>0, <1>2, ExecIs DEF RevisionsTypeOK
    <1>4. RevisionsTypeOK' BY <1>0, <1>1, <1>3 DEF RevisionsTypeOK
    <1>5. BatchesKept' /\ PinsKept' BY <1>1, PinsSame DEF RevisionsInv, BatchesKept
    <1>6. ActiveKept' BY <1>1, ActiveSame DEF RevisionsInv, Activating
    <1>7. ExecKept' BY <1>1 DEF RevisionsInv, ExecKept, Step
    <1>8. ShapeKept'
        <2> SUFFICES ASSUME ~moved, ~torn PROVE ShapeKept' BY <1>1 DEF ShapeKept
        <2>1. ~exec.rebuilt BY <1>0, <1>1 DEF RevisionsInv, ShapeKept, Adopted, Step
        <2> QED BY <1>0, <1>1, <2>1 DEF RevisionsInv, ShapeKept, Step
    <1> QED BY <1>4, <1>5, <1>6, <1>7, <1>8 DEF RevisionsInv

\* The candidate and the definition to fall back on.
LEMMA ChoiceIs ==
    ASSUME RevisionsInv, NEW n, Choosing(n)
    PROVE  /\ exec # None /\ exec.pc = "select" /\ n \in exec.todo
           /\ Candidate \in Defs /\ Fallback \in Defs /\ Chosen(n) \in Defs
    <1>0. RevisionsTypeOK /\ exec # None /\ exec.pc = "select" /\ n \in exec.todo
        BY DEF RevisionsInv, Choosing
    <1>1. Candidate \in Defs BY <1>0, ExecIs DEF Candidate, Choosing, Step
    <1>2. Fallback \in Defs BY <1>0, ExecIs, ActiveIs DEF Fallback
    <1>3. Chosen(n) \in Defs BY <1>1, <1>2 DEF Chosen
    <1> QED BY <1>0, <1>1, <1>2, <1>3

LEMMA SelectStep ==
    ASSUME RevisionsInv, NEW n \in Nodes, Select(n) PROVE RevisionsInv'
    <1>0. RevisionsTypeOK /\ Choosing(n) BY DEF RevisionsInv, Select
    <1>1. /\ exec # None /\ exec.pc = "select" /\ n \in exec.todo
          /\ Candidate \in Defs /\ Fallback \in Defs /\ Chosen(n) \in Defs
        BY <1>0, ChoiceIs
    <1>2. PICK d \in Defs, s \in Steps : d = Chosen(n) /\ s = ckpt.step BY <1>0, <1>1, ExecIs
    <1>3. /\ UNCHANGED <<head, applied, graphPin, active, boundary, ckpt, doc, graphed, batches,
                         busy, ran, moved, torn>>
          /\ pin[s] = None /\ pin' = [pin EXCEPT ![s] = d] /\ ~AtBoundary(n)
          /\ exec' = [exec EXCEPT !.pc = "activate", !.node = n, !.def = d, !.rebuilt = FALSE]
        BY <1>2 DEF Select, Step
    <1>4. /\ exec' \in Execs /\ exec'.base = exec.base /\ exec'.rebuilt = FALSE
          /\ exec'.pc = "activate" /\ exec'.def = d
        BY <1>0, <1>1, <1>3, ExecIs DEF Execs
    <1>5. /\ pin' \in [Steps -> Defs \cup {None}] /\ pin'[s] = d
          /\ \A t \in Steps : t # s => pin'[t] = pin[t]
        BY <1>0, <1>3 DEF RevisionsTypeOK
    <1>6. RevisionsTypeOK' BY <1>0, <1>1, <1>3, <1>4, <1>5 DEF RevisionsTypeOK
    <1>7. BatchesKept' BY <1>3 DEF RevisionsInv, BatchesKept
    <1>8. PinsKept'
        <2>1. ran[s] = {} BY <1>3 DEF RevisionsInv, PinsKept
        <2>2. \A t \in Steps : \A x \in ran[t] : x = pin'[t] /\ x # None
            BY <1>5, <2>1 DEF RevisionsInv, PinsKept
        <2>3. \A t \in Steps : t > ckpt.step => t # s BY <1>2, StepsAre
        <2>4. \A t \in Steps : t > ckpt.step => pin'[t] = None
            BY <1>5, <2>3 DEF RevisionsInv, PinsKept
        <2> QED BY <1>3, <2>2, <2>4 DEF RevisionsInv, PinsKept
    <1>9. exec' # None BY <1>4, NoneIs
    <1>10. ActiveKept' BY <1>4, <1>9 DEF ActiveKept, Activating
    <1>11. ExecKept' BY <1>2, <1>3, <1>4, <1>5, NoneIs DEF ExecKept, Step
    <1>12. ShapeKept'
        <2> SUFFICES ASSUME ~moved, ~torn PROVE ShapeKept' BY <1>3 DEF ShapeKept
        <2>1. Shape[d] = Shape[exec.base]
            <3>1. CASE exec.rebuilt
                <4>1. Candidate = exec.base /\ ~HeldOff(exec.base)
                    BY <1>1, <1>2, <1>3, <3>1 DEF RevisionsInv, ShapeKept, Adopted, Step
                <4>2. Compatibility(exec.base, Candidate) = "live" BY <4>1 DEF Compatibility
                <4>3. d = exec.base BY <1>2, <4>1, <4>2 DEF Chosen
                <4> QED BY <4>3
            <3>2. CASE ~exec.rebuilt
                <4>1. Shape[Fallback] = Shape[exec.base]
                    BY <1>1, <1>2, <1>3, <3>2 DEF RevisionsInv, ShapeKept, Fallback, Step
                <4>2. Compatibility(exec.base, Candidate) = "live" =>
                        Shape[exec.base] = Shape[Candidate]
                    BY DEF Compatibility
                <4>3. d = Fallback \/ (d = Candidate /\ Compatibility(exec.base, Candidate) = "live")
                    BY <1>2 DEF Chosen
                <4> QED BY <4>1, <4>2, <4>3
            <3> QED BY <3>1, <3>2
        <2> QED BY <1>2, <1>3, <1>4, <1>5, <2>1, NoneIs DEF ShapeKept, Step
    <1> QED BY <1>6, <1>7, <1>8, <1>10, <1>11, <1>12 DEF RevisionsInv

\* The step's definition becomes the active record: no later step is there.
LEMMA ActivateStep ==
    ASSUME RevisionsInv, Activate PROVE RevisionsInv'
    <1>0. RevisionsTypeOK /\ exec # None /\ exec.pc = "activate" BY DEF RevisionsInv, Activate
    <1>1. UNCHANGED <<head, applied, pin, graphPin, boundary, ckpt, doc, graphed, batches, busy,
                      ran, moved, torn>>
        BY DEF Activate
    <1>2. exec.def = pin[ckpt.step] /\ exec.def # None BY <1>0 DEF RevisionsInv, ExecKept, Step
    <1>3. PICK d \in Defs, s \in Steps : d = exec.def /\ s = ckpt.step BY <1>0, <1>2, ExecIs
    <1>4. active = None \/ active.step <= ckpt.step BY DEF RevisionsInv, PinsKept
    <1>5. active' = [step |-> s, def |-> d] /\ exec' = [exec EXCEPT !.pc = "run"]
        BY <1>3, <1>4 DEF Activate, Step
    <1>6. active' \in Actives /\ active'.step = s /\ active'.def = d BY <1>5 DEF Actives
    <1>7. /\ exec' \in Execs /\ exec'.base = exec.base /\ exec'.rebuilt = exec.rebuilt
          /\ exec'.pc = "run" /\ exec'.def = d
        BY <1>0, <1>3, <1>5, ExecIs DEF Execs
    <1>8. RevisionsTypeOK' BY <1>0, <1>1, <1>6, <1>7 DEF RevisionsTypeOK
    <1>9. BatchesKept' BY <1>1 DEF RevisionsInv, BatchesKept
    <1>10. PinsKept'
        <2>1. s <= ckpt.step BY <1>3, StepsAre
        <2> QED BY <1>1, <1>6, <2>1 DEF RevisionsInv, PinsKept
    <1>11. ActiveKept' BY <1>1, <1>2, <1>3, <1>6, NoneIs DEF ActiveKept
    <1>12. ~exec.rebuilt BY <1>0, <1>2 DEF RevisionsInv, ExecKept, Step
    <1>13. ExecKept' BY <1>1, <1>2, <1>3, <1>7, <1>12 DEF ExecKept, Step
    <1>14. ShapeKept' BY <1>0, <1>1, <1>2, <1>7 DEF RevisionsInv, ShapeKept, Step
    <1> QED BY <1>8, <1>9, <1>10, <1>11, <1>13, <1>14 DEF RevisionsInv

\* A boundary is asked for a candidate that nothing holds off, and never by an
\* executor just built for that candidate.
LEMMA SelectBoundaryStep ==
    ASSUME RevisionsInv, NEW n \in Nodes, SelectBoundary(n) PROVE RevisionsInv'
    <1>0. RevisionsTypeOK /\ Choosing(n) BY DEF RevisionsInv, SelectBoundary
    <1>1. /\ exec # None /\ exec.pc = "select" /\ n \in exec.todo /\ Candidate \in Defs
        BY <1>0, ChoiceIs
    <1>2. PICK c \in Defs, s \in Steps : c = Candidate /\ s = ckpt.step BY <1>0, <1>1, ExecIs
    <1>3. /\ UNCHANGED <<head, applied, pin, graphPin, active, ckpt, doc, graphed, batches, busy,
                         ran, moved, torn>>
          /\ pin[s] = None /\ AtBoundary(n)
          /\ boundary' = [boundary EXCEPT ![s] = [def |-> c, node |-> n]]
          /\ exec' = [exec EXCEPT !.pc = "interrupted", !.node = n, !.def = None]
        BY <1>2 DEF SelectBoundary, Step
    <1>4. /\ exec' \in Execs /\ exec'.base = exec.base /\ exec'.rebuilt = exec.rebuilt
          /\ exec'.pc = "interrupted" /\ exec'.def = None /\ exec'.todo = exec.todo
        BY <1>0, <1>1, <1>3, ExecIs DEF Execs
    <1>5. PICK b \in Requests : b = [def |-> c, node |-> n] /\ b.def = c
        <2>1. [def |-> c, node |-> n] \in Requests /\ [def |-> c, node |-> n].def = c
            BY DEF Requests
        <2> QED BY <2>1
    <1>6. boundary' \in [Steps -> Requests \cup {None}] /\ boundary'[s] = b
        BY <1>0, <1>3, <1>5 DEF RevisionsTypeOK
    <1>7. RevisionsTypeOK' BY <1>0, <1>1, <1>3, <1>4, <1>6 DEF RevisionsTypeOK
    <1>8. BatchesKept' /\ PinsKept' BY <1>3, PinsSame DEF RevisionsInv, BatchesKept
    <1>9. ActiveKept' BY <1>1, <1>3, ActiveSame DEF RevisionsInv, Activating
    <1>10. ExecKept' BY <1>1, <1>2, <1>3, <1>4 DEF RevisionsInv, ExecKept, Step
    <1>11. ShapeKept'
        <2> SUFFICES ASSUME ~moved, ~torn PROVE ShapeKept' BY <1>3 DEF ShapeKept
        <2>1. ~HeldOff(c) /\ Compatibility(exec.base, c) = "boundary"
            BY <1>2, <1>3 DEF AtBoundary
        <2>2. Adopted(c) BY <1>0, <1>2, <2>1 DEF Adopted, Choosing
        <2>3. Adopted(c)' BY <1>3, <1>4, <2>2, AdoptedSame
        <2>4. ~exec.rebuilt
            <3>1. Compatibility(exec.base, exec.base) # "boundary" BY DEF Compatibility
            <3>2. exec.rebuilt => Candidate = exec.base
                BY <1>1, <1>2, <1>3 DEF RevisionsInv, ShapeKept, Adopted, Step
            <3> QED BY <1>2, <2>1, <3>1, <3>2
        <2>5. boundary'[s] # None /\ boundary'[s].def = c BY <1>5, <1>6, NoneIs
        <2>6. active # None => Shape[active.def] = Shape[exec.base]
            BY <1>1, <1>2, <1>3, <2>4 DEF RevisionsInv, ShapeKept, Step
        <2>7. Adopted(boundary[Step].def)'
            <3>1. boundary'[Step'].def = c BY <1>2, <1>3, <2>5 DEF Step
            <3> QED BY <2>3, <3>1 DEF Adopted, HeldOff
        <2> QED BY <1>2, <1>3, <1>4, <2>4, <2>5, <2>6, <2>7 DEF ShapeKept, Step
    <1> QED BY <1>7, <1>8, <1>9, <1>10, <1>11 DEF RevisionsInv

\* A node runs what its step has pinned.
LEMMA RunNodeStep ==
    ASSUME RevisionsInv, RunNode PROVE RevisionsInv'
    <1>0. RevisionsTypeOK /\ exec # None /\ exec.pc = "run" BY DEF RevisionsInv, RunNode
    <1>1. UNCHANGED <<head, applied, pin, graphPin, active, boundary, ckpt, doc, graphed, batches,
                      busy, moved, torn>>
        BY DEF RunNode, stored
    <1>2. exec.def = pin[ckpt.step] /\ exec.def # None /\ ~exec.rebuilt
        BY <1>0 DEF RevisionsInv, ExecKept, Step
    <1>3. PICK d \in Defs, s \in Steps : d = exec.def /\ s = ckpt.step BY <1>0, <1>2, ExecIs
    <1>4. ran' = [ran EXCEPT ![s] = ran[s] \cup {d}] BY <1>3 DEF RunNode, Step
    <1>5. /\ DOMAIN ran' = Steps /\ ran'[s] = ran[s] \cup {d}
          /\ \A t \in Steps : t # s => ran'[t] = ran[t]
        BY <1>0, <1>4 DEF RevisionsTypeOK
    <1>6. /\ exec' \in Execs /\ exec'.base = exec.base /\ exec'.rebuilt = exec.rebuilt
          /\ exec'.pc \in {"select", "interrupted"}
        <2>1. CASE exec' = [exec EXCEPT !.pc = "interrupted"] BY <1>0, <2>1, ExecIs DEF Execs
        <2>2. CASE exec' = [exec EXCEPT !.pc = "select", !.todo = @ \ {exec.node}, !.def = None]
            <3>1. exec.todo \ {exec.node} \in SUBSET Nodes BY <1>0, ExecIs
            <3> QED BY <1>0, <2>2, <3>1, ExecIs DEF Execs
        <2> QED BY <2>1, <2>2 DEF RunNode
    <1>7. RevisionsTypeOK' BY <1>0, <1>1, <1>5, <1>6 DEF RevisionsTypeOK
    <1>8. BatchesKept' BY <1>1 DEF RevisionsInv, BatchesKept
    <1>9. PinsKept'
        <2>1. \A t \in Steps : \A x \in ran'[t] : x = pin[t] /\ x # None
            BY <1>2, <1>3, <1>5 DEF RevisionsInv, PinsKept
        <2> QED BY <1>1, <2>1 DEF RevisionsInv, PinsKept
    <1>10. ActiveKept' BY <1>0, <1>1, ActiveSame DEF RevisionsInv, Activating
    <1>11. ExecKept' BY <1>1, <1>2, <1>6 DEF ExecKept, Step
    <1>12. ShapeKept' BY <1>0, <1>1, <1>2, <1>6 DEF RevisionsInv, ShapeKept, Step
    <1> QED BY <1>7, <1>8, <1>9, <1>10, <1>11, <1>12 DEF RevisionsInv

\* The next step has no pin, and its executor has the shape of this one.
LEMMA CommitStep ==
    ASSUME RevisionsInv, Commit PROVE RevisionsInv'
    <1>0. RevisionsTypeOK /\ exec # None /\ exec.pc = "select" /\ exec.todo = {}
        BY DEF RevisionsInv, Commit
    <1>1. UNCHANGED <<head, applied, pin, graphPin, active, boundary, doc, graphed, batches, ran,
                      moved, torn>>
        BY DEF Commit
    <1>2. ~exec.rebuilt BY <1>0 DEF RevisionsInv, ExecKept
    <1>3. PICK s \in Steps, f \in SUBSET Nodes, h \in Shapes :
            s = ckpt.step /\ f = Frontier[Shape[exec.base]] /\ h = Shape[exec.base]
        BY <1>0, ExecIs DEF Nodes, Shapes
    <1>4. /\ ckpt' = [step |-> s + 1, nodes |-> f, shape |-> h, wait |-> FALSE]
          /\ exec' = IF s = MaxStep THEN None ELSE [exec EXCEPT !.todo = f]
        BY <1>3 DEF Commit, Step
    <1>5. ckpt' \in Checkpoints /\ ckpt'.step = s + 1 BY <1>3, <1>4, StepsAre DEF Checkpoints
    <1>6. exec' # None =>
            /\ exec' \in Execs /\ exec'.base = exec.base /\ exec'.rebuilt = exec.rebuilt
            /\ exec'.pc = "select" /\ s # MaxStep
        BY <1>0, <1>4, ExecIs DEF Execs
    <1>7. s # MaxStep => s + 1 \in Steps BY <1>3, RevisionsAssumption DEF Steps
    <1>8. RevisionsTypeOK'
        <2>1. exec' \in Execs \cup {None} /\ (exec' # None => ckpt'.step \in Steps)
            BY <1>5, <1>6, <1>7
        <2> QED BY <1>0, <1>1, <1>5, <2>1 DEF RevisionsTypeOK
    <1>9. BatchesKept' BY <1>1 DEF RevisionsInv, BatchesKept
    <1>10. \A t \in Steps : t >= s + 1 => pin[t] = None
        <2>1. \A t \in Steps : t >= s + 1 => t > ckpt.step BY <1>3, StepsAre
        <2> QED BY <2>1 DEF RevisionsInv, PinsKept
    <1>11. PinsKept'
        <2>1. \A t \in Steps : t > s + 1 => t >= s + 1 BY <1>3, StepsAre
        <2>2. active # None => active.step <= s + 1
            <3>1. active # None => active.step \in Nat /\ active.step <= s
                BY <1>0, <1>3, ActiveIs DEF RevisionsInv, PinsKept
            <3> QED BY <3>1, StepsAre
        <2> QED BY <1>1, <1>5, <1>10, <2>1, <2>2 DEF RevisionsInv, PinsKept
    <1>12. s + 1 \in Steps => pin[s + 1] = None
        <2>1. s + 1 \in Steps => s + 1 >= s + 1 BY StepsAre
        <2> QED BY <1>10, <2>1
    <1>13. ActiveKept' BY <1>1, <1>5, <1>12 DEF ActiveKept
    <1>14. ExecKept' BY <1>2, <1>6 DEF ExecKept
    <1>15. ShapeKept'
        <2> SUFFICES ASSUME ~moved, ~torn, exec' # None PROVE ShapeKept' BY <1>1 DEF ShapeKept
        <2>1. active # None => Shape[active.def] = Shape[exec.base]
            <3>1. CASE pin[ckpt.step] = None
                BY <1>0, <1>2, <3>1 DEF RevisionsInv, ShapeKept, Step
            <3>2. CASE pin[ckpt.step] # None
                <4>1. active.def = pin[ckpt.step]
                    BY <1>0, <1>3, <3>2 DEF RevisionsInv, ActiveKept, Activating
                <4> QED BY <1>0, <3>2, <4>1 DEF RevisionsInv, ShapeKept, Step
            <3> QED BY <3>1, <3>2
        <2>2. pin'[Step'] = None BY <1>1, <1>5, <1>6, <1>7, <1>12 DEF Step
        <2> QED BY <1>1, <1>2, <1>6, <2>1, <2>2 DEF ShapeKept
    <1> QED BY <1>8, <1>9, <1>11, <1>13, <1>14, <1>15 DEF RevisionsInv

\* The run loses its executor, and nothing that is stored moves.
LEMMA ExecEnds ==
    ASSUME RevisionsInv, UNCHANGED <<head, applied, pin, graphPin, active, boundary, doc, graphed,
                                     batches, ran>>,
           ckpt' \in Checkpoints, ckpt'.step = ckpt.step, exec' = None,
           ~torn' => ~torn /\ ~Activating
    PROVE  RevisionsInv'
    <1>1. RevisionsTypeOK' BY DEF RevisionsInv, RevisionsTypeOK
    <1>2. BatchesKept' /\ PinsKept' BY PinsSame DEF RevisionsInv, BatchesKept
    <1>3. ActiveKept' BY ActiveSame DEF RevisionsInv
    <1> QED BY <1>1, <1>2, <1>3 DEF RevisionsInv, ExecKept, ShapeKept

\* The executor built at a boundary is the one its candidate waits for.
LEMMA InterruptStep ==
    ASSUME RevisionsInv, Interrupt PROVE RevisionsInv'
    <1>0. RevisionsTypeOK /\ exec # None /\ exec.pc = "interrupted" BY DEF RevisionsInv, Interrupt
    <1>1. UNCHANGED <<applied, pin, graphPin, active, boundary, doc, graphed, batches, busy, ran,
                      moved, torn>>
        BY DEF Interrupt
    <1>2. PICK s \in Steps, b \in Requests \cup {None} : s = ckpt.step /\ b = LoadBoundary
        BY <1>0, ExecIs DEF LoadBoundary, Step
    <1>3. ckpt \in Checkpoints /\ exec.todo \in SUBSET Nodes /\ head # None
        BY <1>0, ExecIs DEF RevisionsTypeOK
    <1>4. CASE b = None \/ b.def = exec.base
        <2>1. ckpt' = [ckpt EXCEPT !.nodes = exec.todo, !.wait = TRUE] /\ exec' = None /\ head' = head
            BY <1>2, <1>4 DEF Interrupt
        <2>2. ckpt' \in Checkpoints /\ ckpt'.step = ckpt.step BY <1>3, <2>1 DEF Checkpoints
        <2> QED BY <1>0, <1>1, <2>1, <2>2, ExecEnds DEF Activating
    <1>5. CASE ~(b = None \/ b.def = exec.base)
               /\ ~(exec.todo = {b.node} /\ Compatibility(exec.base, b.def) = "boundary")
        <2>1. exec' = None /\ head' = head /\ ckpt' = ckpt BY <1>2, <1>5 DEF Interrupt
        <2> QED BY <1>0, <1>1, <1>3, <2>1, ExecEnds DEF Activating
    <1>6. CASE b # None /\ exec.todo = {b.node} /\ Compatibility(exec.base, b.def) = "boundary"
               /\ b.def # exec.base
        <2>1. PICK d \in Defs : d = b.def BY <1>2, <1>6 DEF Requests
        <2>2. /\ exec' = [base |-> d, todo |-> exec.todo, pc |-> "select", node |-> None,
                          def |-> None, rebuilt |-> TRUE]
              /\ ckpt' = [ckpt EXCEPT !.nodes = exec.todo] /\ head' = head
            BY <1>2, <1>3, <1>6, <2>1 DEF Interrupt, Claim
        <2>3. /\ exec' \in Execs /\ exec'.base = d /\ exec'.pc = "select" /\ exec'.rebuilt = TRUE
              /\ exec'.todo = exec.todo /\ exec'.def = None
            BY <1>3, <2>2 DEF Execs
        <2>4. ckpt' \in Checkpoints /\ ckpt'.step = s BY <1>2, <1>3, <2>2 DEF Checkpoints
        <2>5. pin[s] = None /\ b = boundary[s] BY <1>2, <1>6 DEF LoadBoundary, Step
        <2>6. RevisionsTypeOK' BY <1>0, <1>1, <1>2, <1>3, <2>2, <2>3, <2>4 DEF RevisionsTypeOK
        <2>7. BatchesKept' /\ PinsKept'
            BY <1>1, <1>2, <2>4, PinsSame DEF RevisionsInv, BatchesKept
        <2>8. ActiveKept' BY <1>1, <2>4, <2>5 DEF ActiveKept
        <2>9. ExecKept' BY <1>1, <1>6, <2>3, <2>4, <2>5 DEF ExecKept, Step
        <2>10. ShapeKept'
            <3> SUFFICES ASSUME ~moved, ~torn PROVE ShapeKept' BY <1>1 DEF ShapeKept
            <3>1. Adopted(boundary[s].def) BY <1>0, <1>2, <2>5 DEF RevisionsInv, ShapeKept, Step
            <3>2. Adopted(d) BY <2>1, <2>5, <3>1 DEF Adopted, HeldOff
            <3>3. Candidate' = d /\ (graphed' => graphPin'[Step'] # None)
                BY <1>1, <1>2, <2>2, <2>4, <3>2 DEF Adopted, Candidate, Step
            <3>4. ~HeldOff(d)'
                <4>1. CASE active # None
                    BY <1>1, <3>2, <4>1 DEF Adopted, HeldOff, Fallback
                <4>2. CASE active = None BY <1>1, <2>3, <4>2 DEF HeldOff, Fallback
                <4> QED BY <4>1, <4>2
            <3>5. Adopted(exec.base)' BY <2>3, <3>3, <3>4 DEF Adopted, HeldOff
            <3> QED BY <1>1, <2>3, <2>4, <2>5, <3>5 DEF ShapeKept, Step
        <2> QED BY <2>6, <2>7, <2>8, <2>9, <2>10 DEF RevisionsInv
    <1> QED BY <1>4, <1>5, <1>6

\* A death between a pin and the active record is what torn remembers.
LEMMA CrashStep ==
    ASSUME RevisionsInv, Crash PROVE RevisionsInv'
    <1>1. /\ UNCHANGED <<head, applied, pin, graphPin, active, boundary, ckpt, doc, graphed,
                         batches, ran>>
          /\ exec # None /\ exec' = None /\ torn' = (torn \/ exec.pc = "activate")
        BY DEF Crash, stored
    <1>2. ckpt \in Checkpoints BY DEF RevisionsInv, RevisionsTypeOK
    <1>3. ~torn' => ~torn /\ ~Activating BY <1>1 DEF Activating
    <1> QED BY <1>1, <1>2, <1>3, ExecEnds

-----------------------------------------------------------------------------
(***************************************************************************)
(* The results.                                                            *)
(***************************************************************************)
LEMMA RevisionsStart == RevisionsInit => RevisionsInv
    <1> SUFFICES ASSUME RevisionsInit PROVE RevisionsInv OBVIOUS
    <1>1. /\ doc \in Defs /\ graphed \in BOOLEAN /\ head = None /\ batches = << >>
          /\ applied = {} /\ pin = [s \in Steps |-> None] /\ graphPin = [s \in Steps |-> None]
          /\ active = None /\ boundary = [s \in Steps |-> None] /\ exec = None
          /\ ran = [s \in Steps |-> {}]
        BY DEF RevisionsInit
    <1>2. PICK f \in SUBSET Nodes, h \in Shapes : f = Frontier[Shape[doc]] /\ h = Shape[doc]
        BY <1>1 DEF Nodes, Shapes
    <1>3. ckpt = [step |-> 0, nodes |-> f, shape |-> h, wait |-> FALSE]
        BY <1>2 DEF RevisionsInit
    <1>4. ckpt \in Checkpoints /\ ckpt.step = 0 BY <1>3, RevisionsAssumption DEF Checkpoints
    <1>5. RevisionsTypeOK BY <1>1, <1>4 DEF RevisionsTypeOK
    <1>6. BatchesKept BY <1>1 DEF BatchesKept
    <1>7. PinsKept BY <1>1 DEF PinsKept
    <1>8. ActiveKept BY <1>1 DEF ActiveKept
    <1> QED BY <1>1, <1>5, <1>6, <1>7, <1>8 DEF RevisionsInv, ExecKept, ShapeKept

LEMMA RevisionsStep == RevisionsInv /\ [RevisionsNext]_revisions => RevisionsInv'
    <1> SUFFICES ASSUME RevisionsInv, [RevisionsNext]_revisions PROVE RevisionsInv' OBVIOUS
    <1>1. CASE UNCHANGED revisions
        <2>1. UNCHANGED <<head, applied, pin, graphPin, active, boundary, ckpt, doc, graphed,
                          batches, busy, exec, ran, moved, torn>>
            BY <1>1 DEF revisions, stored
        <2>2. RevisionsTypeOK' BY <2>1 DEF RevisionsInv, RevisionsTypeOK
        <2>3. BatchesKept' /\ PinsKept' BY <2>1, PinsSame DEF RevisionsInv, BatchesKept
        <2>4. ActiveKept' /\ ExecKept'
            BY <2>1, ActiveSame DEF RevisionsInv, Activating, ExecKept, Step
        <2>5. ShapeKept'
            BY <2>1 DEF RevisionsInv, ShapeKept, Step, Adopted, Candidate, HeldOff, Fallback
        <2> QED BY <2>2, <2>3, <2>4, <2>5 DEF RevisionsInv
    <1>2. CASE Publish BY <1>2, PublishStep
    <1>3. CASE Replay BY <1>3, ReplayStep
    <1>4. CASE Launch BY <1>4, LaunchStep
    <1>5. CASE PinGraph BY <1>5, PinGraphStep
    <1>6. CASE Activate BY <1>6, ActivateStep
    <1>7. CASE RunNode BY <1>7, RunNodeStep
    <1>8. CASE Commit BY <1>8, CommitStep
    <1>9. CASE Interrupt BY <1>9, InterruptStep
    <1>10. CASE Crash BY <1>10, CrashStep
    <1>11. ASSUME NEW n \in Nodes, SelectPinned(n) \/ Select(n) \/ SelectBoundary(n)
           PROVE  RevisionsInv'
        BY <1>11, SelectPinnedStep, SelectStep, SelectBoundaryStep
    <1> QED BY <1>1, <1>2, <1>3, <1>4, <1>5, <1>6, <1>7, <1>8, <1>9, <1>10, <1>11
            DEF RevisionsNext

\* What a step may run and what its executor is built for agree in every
\* reachable state: a batch's receipt, a step's pin, the active record and the
\* native executor of service.rs, through publications, boundaries and deaths.
THEOREM RevisionsInvariant == RevisionsSpec => []RevisionsInv
    BY RevisionsStart, RevisionsStep, PTL DEF RevisionsSpec

\* All the nodes of a super-step run one definition, those that run again after
\* a wait or a death included, and one its native executor was compiled for.
THEOREM StepsAlwaysFit == RevisionsSpec => []StepsFit
    <1>1. RevisionsInv => StepsFit
        <2> SUFFICES ASSUME RevisionsInv PROVE StepsFit OBVIOUS
        <2>1. \A s \in Steps : Cardinality(ran[s]) <= 1
            <3> SUFFICES ASSUME NEW s \in Steps PROVE Cardinality(ran[s]) <= 1 OBVIOUS
            <3>1. ran[s] \subseteq {pin[s]} BY DEF RevisionsInv, PinsKept
            <3>2. IsFiniteSet({pin[s]}) /\ Cardinality({pin[s]}) = 1 BY FS_Singleton
            <3>3. Cardinality(ran[s]) <= Cardinality({pin[s]}) BY <3>1, <3>2, FS_Subset
            <3> QED BY <3>2, <3>3
        <2>2. FitsExecutor
            <3> SUFFICES ASSUME exec # None, exec.pc = "run", ~moved, ~torn
                         PROVE  Shape[exec.def] = Shape[exec.base]
                BY DEF FitsExecutor
            <3>1. exec.def = pin[Step] /\ pin[Step] # None BY DEF RevisionsInv, ExecKept
            <3> QED BY <3>1 DEF RevisionsInv, ShapeKept
        <2> QED BY <2>1, <2>2 DEF StepsFit, StepFixed
    <1> QED BY <1>1, RevisionsInvariant, PTL

\* An interrupt of a node that ran is never taken for a boundary: its executor
\* stands still or ends in a wait, it is not built again.
THEOREM WaitsAreShown == RevisionsSpec => [][WaitShownStep]_revisions
    <1>1. RevisionsInv /\ [RevisionsNext]_revisions => [WaitShownStep]_revisions
        <2> SUFFICES ASSUME RevisionsInv, RevisionsNext, exec # None, exec.pc = "interrupted",
                            exec.def # None
                     PROVE  exec' = exec \/ exec' = None
            BY DEF WaitShownStep
        <2>1. pin[Step] # None BY DEF RevisionsInv, ExecKept
        <2>2. CASE Publish \/ Replay \/ Crash BY <2>2 DEF Publish, Replay, Crash
        <2>3. CASE Launch \/ PinGraph \/ Activate \/ RunNode \/ Commit
            BY <2>3 DEF Launch, PinGraph, Activate, RunNode, Commit
        <2>4. CASE Interrupt
            <3>1. LoadBoundary = None BY <2>1 DEF LoadBoundary
            <3> QED BY <2>4, <3>1 DEF Interrupt
        <2>5. ASSUME NEW n \in Nodes, SelectPinned(n) \/ Select(n) \/ SelectBoundary(n)
              PROVE  FALSE
            BY <2>5 DEF SelectPinned, Select, SelectBoundary, Choosing
        <2> QED BY <2>2, <2>3, <2>4, <2>5 DEF RevisionsNext
    <1> QED BY <1>1, RevisionsInvariant, PTL DEF RevisionsSpec

=============================================================================
