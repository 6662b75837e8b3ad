----------------------------- MODULE ToolsProofs -----------------------------
(***************************************************************************)
(* What one tool call may do, for every value of the constants of MCTools' *)
(* four parts.  The receipts of ToolReceipts let an ordinary effect run at *)
(* most once, answer only what is durable and implement EffectOnce; a      *)
(* command of WorkspaceTools leaves no process; a token of Codex is        *)
(* replaced once; Archives takes sessions in and out whole.                *)
(***************************************************************************)
EXTENDS ToolReceipts, WorkspaceTools, Codex, Archives, TLAPS

LEMMA IdlePosition == Idle \in Positions /\ Idle.pc = "idle"
  BY DEF Idle, Positions, Outcomes, Results

LEMMA AbsentReceipt == Absent \in Receipts /\ Absent.status = "absent"
  BY DEF Absent, Receipts, Statuses, Results

LEMMA InitReceiptInv == Init => ReceiptInv
<1> SUFFICES ASSUME Init PROVE ReceiptInv
  OBVIOUS
<1>1. \A c \in Calls : legacy[c] \in Receipts
  BY AbsentReceipt DEF Init, Receipts, Statuses, Results
<1>2. legacy \in [Calls -> Receipts]
  BY <1>1 DEF Init
<1>3. \A e \in Executors : exec[e] = Idle
  BY DEF Init
<1>4. TypeOK
  <2>1. receipt \in [Calls -> Receipts]
    BY AbsentReceipt DEF Init
  <2>2. exec \in [Executors -> Positions] /\ \A e \in Executors : exec[e].pc = "idle"
    BY <1>3, IdlePosition DEF Init
  <2>3. effects \in [Calls -> Results] /\ attempts \in [Calls -> 0..MaxAttempts]
    BY AttemptsAssumption DEF Init, Results
  <2>4. returned \in [Calls -> SUBSET Results] /\ fragments \subseteq Calls
    BY DEF Init
  <2>5. cancelled \in BOOLEAN /\ exporting \in BOOLEAN
    BY DEF Init
  <2> QED BY <1>2, <2>1, <2>2, <2>3, <2>4, <2>5 DEF TypeOK
<1>5. ActiveOwnsReceipt /\ ActiveIsAlone /\ ClaimKnowsLegacy
  BY <1>3, IdlePosition DEF ActiveOwnsReceipt, ActiveIsAlone, Active, ClaimKnowsLegacy
<1>6. EffectLeavesReceipt /\ EffectAtMostOnce /\ ReturnedResultIsDurable
  BY DEF Init, EffectLeavesReceipt, EffectAtMostOnce, ReturnedResultIsDurable, Ordinary
<1> QED BY <1>4, <1>5, <1>6 DEF ReceiptInv

\* A request may always go back to the idle position.
LEMMA LeaveType ==
  ASSUME TypeOK, NEW e \in Executors, Leave(e)
  PROVE  /\ exec' \in [Executors -> Positions]
         /\ exec'[e].pc = "idle"
         /\ \A f \in Executors \ {e} : exec'[f] = exec[f]
  BY IdlePosition DEF Leave, TypeOK

\* Requests that begin, look their receipt up or give up own no call: the
\* invariant survives because the active requests only lose members.
LEMMA QuietSteps ==
  ASSUME ReceiptInv, NEW e \in Executors,
         \/ \E c \in Calls, a \in Arguments : Begin(e, c, a)
         \/ Lookup(e)
         \/ InspectReject(e)
  PROVE  ReceiptInv'
<1> USE DEF ReceiptInv
<1>1. TypeOK'
  <2>1. ASSUME NEW c \in Calls, NEW a \in Arguments, Begin(e, c, a) PROVE TypeOK'
    <3>1. [Idle EXCEPT !.pc = "lookup", !.call = c, !.args = a] \in Positions
      BY DEF Idle, Positions, Outcomes, Results
    <3>2. exec' \in [Executors -> Positions]
      BY <2>1, <3>1 DEF Begin, TypeOK
    <3>3. attempts' \in [Calls -> 0..MaxAttempts]
      <4>1. attempts \in [Calls -> 0..MaxAttempts] /\ attempts[c] < MaxAttempts
            /\ attempts' = [attempts EXCEPT ![c] = attempts[c] + 1]
        BY <2>1 DEF Begin, TypeOK
      <4>2. attempts[c] + 1 \in 0..MaxAttempts
        BY <4>1, AttemptsAssumption
      <4> QED BY <4>1, <4>2
    <3>4. \A f \in Executors : exec'[f].pc # "idle" =>
             exec'[f].call \in Calls /\ exec'[f].args \in Arguments
      BY <2>1 DEF Begin, TypeOK, Idle
    <3>5. \A f \in Executors : exec'[f].pc = "record" => exec'[f].outcome # "none"
      BY <2>1 DEF Begin, TypeOK, Idle
    <3> QED BY <2>1, <3>2, <3>3, <3>4, <3>5 DEF Begin, TypeOK
  <2>2. CASE Lookup(e)
    <3>1. (ReadRecord(exec[e].call).status # "absent") \in BOOLEAN
      OBVIOUS
    <3>2. exec[e] \in Positions
          /\ exec' = [exec EXCEPT ![e] = [exec[e] EXCEPT !.pc = "claim",
                        !.found = ReadRecord(exec[e].call).status # "absent"]]
      BY <2>2 DEF Lookup, TypeOK
    <3>3. [exec[e] EXCEPT !.pc = "claim",
             !.found = ReadRecord(exec[e].call).status # "absent"] \in Positions
      BY <3>1, <3>2 DEF Positions
    <3>4. exec' \in [Executors -> Positions]
      BY <3>2, <3>3 DEF TypeOK
    <3>5. \A f \in Executors : exec'[f].call = exec[f].call /\ exec'[f].args = exec[f].args
                               /\ (exec'[f].pc = "idle") = (exec[f].pc = "idle")
      BY <2>2, <3>2 DEF Lookup, TypeOK, Positions
    <3> QED BY <2>2, <3>4, <3>5 DEF Lookup, TypeOK
  <2>3. CASE InspectReject(e)
    BY <2>3, LeaveType DEF InspectReject, TypeOK
  <2> QED BY <2>1, <2>2, <2>3
<1>2. UNCHANGED <<receipt, legacy, effects, returned>>
  BY DEF Begin, Lookup, InspectReject
<1>3. ~Active(e)' /\ \A f \in Executors \ {e} : exec'[f] = exec[f]
  <2>1. ASSUME NEW c \in Calls, NEW a \in Arguments, Begin(e, c, a)
        PROVE  exec'[e].pc = "lookup" /\ \A f \in Executors \ {e} : exec'[f] = exec[f]
    BY <2>1 DEF Begin, TypeOK, Idle
  <2>2. CASE Lookup(e)
    BY <2>2 DEF Lookup, Active, TypeOK, Positions
  <2>3. CASE InspectReject(e)
    BY <2>3, LeaveType DEF InspectReject, Active
  <2> QED BY <2>1, <2>2, <2>3 DEF Active
<1>4. ActiveOwnsReceipt' /\ ActiveIsAlone'
  BY <1>2, <1>3 DEF ActiveOwnsReceipt, ActiveIsAlone, Active
<1>5. ClaimKnowsLegacy'
  <2>1. ASSUME NEW c \in Calls, NEW a \in Arguments, Begin(e, c, a)
        PROVE  ClaimKnowsLegacy'
    <3>1. exec'[e].pc = "lookup" /\ \A f \in Executors \ {e} : exec'[f] = exec[f]
      BY <2>1 DEF Begin, TypeOK, Idle
    <3> QED BY <2>1, <3>1 DEF Begin, ClaimKnowsLegacy
  <2>2. CASE Lookup(e)
    <3>1. legacy[exec[e].call].status # "absent" =>
             ReadRecord(exec[e].call).status # "absent"
      BY DEF ReadRecord
    <3>2. exec'[e].call = exec[e].call /\ legacy' = legacy
          /\ exec'[e].found = (ReadRecord(exec[e].call).status # "absent")
      BY <2>2 DEF Lookup, TypeOK, Positions
    <3>3. \A f \in Executors \ {e} : exec'[f] = exec[f]
      BY <2>2 DEF Lookup, TypeOK
    <3> QED BY <3>1, <3>2, <3>3 DEF ClaimKnowsLegacy
  <2>3. CASE InspectReject(e)
    BY <2>3, LeaveType DEF InspectReject, ClaimKnowsLegacy
  <2> QED BY <2>1, <2>2, <2>3
<1> QED
  BY <1>1, <1>2, <1>4, <1>5
  DEF EffectLeavesReceipt, EffectAtMostOnce, ReturnedResultIsDurable

\* The claim gives an ordinary call to one request, and only if no receipt,
\* new or old, names it.
LEMMA ClaimStep ==
  ASSUME ReceiptInv, NEW e \in Executors, Claim(e)
  PROVE  ReceiptInv'
<1> DEFINE c == exec[e].call
           won == ~exec[e].found /\ receipt[c].status = "absent"
<1> USE DEF ReceiptInv
<1>1. c \in Calls /\ exec[e].args \in Arguments
  BY DEF Claim, TypeOK, Positions
<1>2. receipt' = [receipt EXCEPT ![c] =
                    IF receipt[c].status # "absent" THEN receipt[c]
                    ELSE IF exec[e].found THEN legacy[c]
                    ELSE [status |-> "started", args |-> exec[e].args, result |-> 0]]
  BY <1>1 DEF Claim, ClaimRecord, TypeOK, Positions
<1>3. exec' = [exec EXCEPT ![e].claimed = won,
                           ![e].pc = IF won THEN "open" ELSE "inspect"]
  BY DEF Claim
<1>4. UNCHANGED <<legacy, effects, returned>>
  BY DEF Claim
<1>5. TypeOK'
  <2>1. [status |-> "started", args |-> exec[e].args, result |-> 0] \in Receipts
    BY <1>1 DEF Receipts, Statuses, Results
  <2>2. receipt' \in [Calls -> Receipts]
    BY <1>1, <1>2, <2>1 DEF TypeOK
  <2>3. exec' \in [Executors -> Positions]
    <3>1. exec[e] \in Positions
      BY DEF TypeOK
    <3>2. PICK w \in BOOLEAN : w = won
      OBVIOUS
    <3>3. PICK q \in {"open", "inspect"} : q = IF won THEN "open" ELSE "inspect"
      OBVIOUS
    <3>4. exec' = [exec EXCEPT ![e] = [exec[e] EXCEPT !.claimed = w, !.pc = q]]
      BY <1>3, <3>2, <3>3 DEF TypeOK, Positions
    <3>5. [exec[e] EXCEPT !.claimed = w, !.pc = q] \in Positions
      BY <3>1 DEF Positions
    <3> QED BY <3>4, <3>5 DEF TypeOK
  <2>4. \A f \in Executors : exec'[f].pc # "idle" =>
          exec'[f].call \in Calls /\ exec'[f].args \in Arguments
    BY <1>1, <1>3 DEF TypeOK, Positions
  <2>5. \A f \in Executors : exec'[f].pc = "record" => exec'[f].outcome # "none"
    BY <1>3 DEF TypeOK, Positions
  <2> QED BY <1>4, <2>2, <2>3, <2>4, <2>5 DEF Claim, TypeOK
<1>6. \A d \in Calls : receipt[d].status # "absent" => receipt'[d] = receipt[d]
  BY <1>1, <1>2 DEF TypeOK, Positions
<1>7. won => /\ legacy[c].status = "absent"
             /\ receipt'[c].status = "started"
             /\ c \in Ordinary => effects[c] = 0
  BY <1>1, <1>2 DEF Claim, TypeOK, Positions, ClaimKnowsLegacy, EffectLeavesReceipt,
                    EffectAtMostOnce, Results
<1>8. \A f \in Executors \ {e} : exec'[f] = exec[f]
  BY <1>3 DEF TypeOK, Positions
<1>9. exec'[e].call = c /\ exec'[e].pc = IF won THEN "open" ELSE "inspect"
  BY <1>3 DEF TypeOK, Positions
<1>10. ActiveOwnsReceipt'
  BY <1>1, <1>4, <1>6, <1>7, <1>8, <1>9 DEF ActiveOwnsReceipt, Active, Ordinary
<1>11. ActiveIsAlone'
  <2>1. \A f \in Executors : Active(f) /\ exec[f].call = c => ~won
    BY DEF ActiveOwnsReceipt
  <2> QED BY <1>8, <1>9, <2>1 DEF ActiveIsAlone, Active
<1>12. ClaimKnowsLegacy'
  BY <1>4, <1>8, <1>9 DEF ClaimKnowsLegacy
<1>13. EffectLeavesReceipt' /\ ReturnedResultIsDurable'
  BY <1>4, <1>6 DEF EffectLeavesReceipt, ReturnedResultIsDurable, Ordinary
<1> QED
  BY <1>4, <1>5, <1>10, <1>11, <1>12, <1>13 DEF EffectAtMostOnce

\* Answering from the receipt hands back what the receipt holds.
LEMMA ReplayStep ==
  ASSUME ReceiptInv, NEW e \in Executors, InspectReplay(e)
  PROVE  ReceiptInv'
<1> USE DEF ReceiptInv, Idle
<1>1. exec[e].call \in Calls
  BY DEF InspectReplay, TypeOK, Positions
<1>2. TypeOK'
  BY <1>1 DEF InspectReplay, Leave, TypeOK, Positions, Outcomes, Results, Receipts
<1>3. ~Active(e)' /\ \A f \in Executors \ {e} : exec'[f] = exec[f]
  BY DEF InspectReplay, Leave, Active, TypeOK, Positions
<1>4. ActiveOwnsReceipt' /\ ActiveIsAlone' /\ ClaimKnowsLegacy'
  BY <1>3 DEF InspectReplay, Leave, ActiveOwnsReceipt, ActiveIsAlone, Active,
              ClaimKnowsLegacy, TypeOK, Positions
<1>5. ReturnedResultIsDurable'
  BY <1>1 DEF InspectReplay, ReturnedResultIsDurable, TypeOK, Positions, Ordinary
<1> QED
  BY <1>2, <1>4, <1>5 DEF InspectReplay, EffectLeavesReceipt, EffectAtMostOnce

\* Recovering an unfinished call concerns calls that are not ordinary.
LEMMA RecoverStep ==
  ASSUME ReceiptInv, NEW e \in Executors,
         (\E out \in Outcomes : InspectRecover(e, out)) \/ InspectRecoverFails(e)
  PROVE  ReceiptInv'
<1> DEFINE c == exec[e].call
<1> USE DEF ReceiptInv, Idle
<1>1. c \in Calls /\ c \notin Ordinary
  BY DEF InspectRecover, InspectRecoverFails, Unfinished, TypeOK, Positions
<1>2. UNCHANGED <<receipt, legacy, fragments, cancelled, exporting, returned, attempts>>
  BY DEF InspectRecover, InspectRecoverFails
<1>3. effects' = [effects EXCEPT ![c] = @ + 1]
  BY DEF InspectRecover, InspectRecoverFails
<1>4. TypeOK'
  <2>1. ASSUME NEW out \in Outcomes, InspectRecover(e, out) PROVE TypeOK'
    <3>1. effects' \in [Calls -> Results] /\ effects[c] + 1 \in Results
      /\ exec[e] \in Positions
      BY <1>1, <1>3 DEF TypeOK, Results
    <3>2. exec' = [exec EXCEPT ![e] = [exec[e] EXCEPT !.pc = "record", !.outcome = out,
                                         !.result = effects[c] + 1]]
          /\ out # "none"
      BY <2>1 DEF InspectRecover, TypeOK, Positions
    <3>3. [exec[e] EXCEPT !.pc = "record", !.outcome = out,
             !.result = effects[c] + 1] \in Positions
      BY <3>1 DEF Positions
    <3>4. exec' \in [Executors -> Positions]
      BY <3>2, <3>3 DEF TypeOK
    <3>5. exec[e].call \in Calls /\ exec[e].args \in Arguments
      BY <2>1 DEF InspectRecover, Unfinished, TypeOK
    <3> QED BY <1>2, <3>1, <3>2, <3>4, <3>5 DEF TypeOK, Positions
  <2>2. CASE InspectRecoverFails(e)
    BY <1>1, <1>2, <1>3, <2>2
    DEF InspectRecoverFails, Leave, TypeOK, Positions, Results, Outcomes
  <2> QED BY <2>1, <2>2
<1>5. \A d \in Ordinary : effects'[d] = effects[d]
  BY <1>1, <1>3 DEF TypeOK, Positions, Ordinary
<1>6. ~Active(e)' /\ exec'[e].pc # "claim"
      /\ \A f \in Executors \ {e} : exec'[f] = exec[f]
  <2>1. ASSUME NEW out \in Outcomes, InspectRecover(e, out)
        PROVE  /\ exec'[e].call = c /\ exec'[e].pc = "record"
               /\ \A f \in Executors \ {e} : exec'[f] = exec[f]
    BY ZenonT(60), <2>1 DEF InspectRecover, TypeOK, Positions
  <2>2. CASE InspectRecoverFails(e)
    BY <2>2, LeaveType DEF InspectRecoverFails, Active
  <2> QED BY <1>1, <2>1, <2>2 DEF Active
<1>7. ActiveOwnsReceipt' /\ ActiveIsAlone' /\ ClaimKnowsLegacy'
  BY <1>2, <1>5, <1>6 DEF ActiveOwnsReceipt, ActiveIsAlone, Active, ClaimKnowsLegacy
<1> QED
  BY <1>2, <1>4, <1>5, <1>7
  DEF EffectLeavesReceipt, EffectAtMostOnce, ReturnedResultIsDurable

\* Opening the captured output keeps the request the owner of its call.
LEMMA OpenStep ==
  ASSUME ReceiptInv, NEW e \in Executors, Open(e)
  PROVE  ReceiptInv'
<1> USE DEF ReceiptInv
<1>1. TypeOK'
  BY DEF Open, TypeOK, Positions
<1>2. /\ exec[e].pc = "open" /\ exec'[e].pc = "perform"
      /\ exec'[e].call = exec[e].call
      /\ \A f \in Executors \ {e} : exec'[f] = exec[f]
  BY DEF Open, TypeOK, Positions
<1>3. ActiveOwnsReceipt' /\ ActiveIsAlone' /\ ClaimKnowsLegacy'
  BY <1>2 DEF Open, ActiveOwnsReceipt, ActiveIsAlone, Active, ClaimKnowsLegacy
<1> QED
  BY <1>1, <1>3 DEF Open, EffectLeavesReceipt, EffectAtMostOnce, ReturnedResultIsDurable

\* An ordinary effect runs from zero to one, with its receipt in the store.
LEMMA PerformStep ==
  ASSUME ReceiptInv, NEW e \in Executors, NEW out \in Outcomes, Perform(e, out)
  PROVE  ReceiptInv'
<1> DEFINE c == exec[e].call
<1> USE DEF ReceiptInv
<1>1. c \in Calls /\ exec[e].pc = "perform"
  BY DEF Perform, TypeOK, Positions
<1>2. effects' = [effects EXCEPT ![c] = @ + 1]
      /\ UNCHANGED <<receipt, legacy, returned>>
  BY DEF Perform
<1>3. TypeOK'
  <2>1. effects' \in [Calls -> Results] /\ effects[c] + 1 \in Results
      /\ exec[e] \in Positions
    BY <1>1, <1>2 DEF TypeOK, Results
  <2>2. exec' = [exec EXCEPT ![e] = [exec[e] EXCEPT !.pc = "record", !.outcome = out,
                                       !.result = effects[c] + 1]]
        /\ out # "none"
    BY DEF Perform, TypeOK
  <2>3. [exec[e] EXCEPT !.pc = "record", !.outcome = out,
           !.result = effects[c] + 1] \in Positions
    BY <2>1 DEF Positions
  <2>4. exec' \in [Executors -> Positions]
    BY <2>2, <2>3 DEF TypeOK
  <2>5. exec[e].args \in Arguments
    BY <1>1 DEF TypeOK
  <2> QED BY SMTT(60), <1>1, <2>1, <2>2, <2>4, <2>5 DEF Perform, TypeOK, Positions
<1>4. /\ exec'[e].pc = "record" /\ exec'[e].call = c
      /\ \A f \in Executors \ {e} : exec'[f] = exec[f]
  BY DEF Perform, TypeOK, Positions
<1>5. c \in Ordinary => effects[c] = 0 /\ effects'[c] = 1
                        /\ receipt[c].status = "started" /\ legacy[c].status = "absent"
  BY <1>1, <1>2 DEF ActiveOwnsReceipt, Active, TypeOK, Positions
<1>6. \A d \in Calls \ {c} : effects'[d] = effects[d]
  BY <1>2 DEF TypeOK, Positions
<1>7. ActiveIsAlone' /\ ClaimKnowsLegacy'
  BY <1>1, <1>2, <1>4 DEF ActiveIsAlone, Active, ClaimKnowsLegacy
<1>8. ActiveOwnsReceipt'
  <2> SUFFICES ASSUME NEW f \in Executors, Active(f)'
               PROVE  /\ receipt'[exec'[f].call].status = "started"
                      /\ legacy'[exec'[f].call].status = "absent"
                      /\ effects'[exec'[f].call] = IF exec'[f].pc = "record" THEN 1 ELSE 0
    BY DEF ActiveOwnsReceipt
  <2>1. CASE f = e
    BY <1>2, <1>4, <1>5, <2>1 DEF Active
  <2>2. CASE f # e
    <3>1. exec'[f] = exec[f] /\ Active(f)
      BY <1>4, <2>2 DEF Active
    <3>2. exec[f].call # c
      BY <1>1, <2>2, <3>1 DEF ActiveIsAlone, Active
    <3>3. exec[f].call \in Calls
      BY <3>1 DEF Active, Ordinary
    <3> QED BY <1>2, <1>6, <3>1, <3>2, <3>3 DEF ActiveOwnsReceipt
  <2> QED BY <2>1, <2>2
<1> QED
  BY <1>2, <1>3, <1>5, <1>6, <1>7, <1>8
  DEF EffectLeavesReceipt, EffectAtMostOnce, ReturnedResultIsDurable, Ordinary

\* Recording settles a call that nothing was returned for yet.
LEMMA RecordStep ==
  ASSUME ReceiptInv, NEW e \in Executors, Record(e)
  PROVE  ReceiptInv'
<1> DEFINE c == exec[e].call
<1> USE DEF ReceiptInv, Idle
<1>1. c \in Calls /\ exec[e].pc = "record" /\ exec[e].args \in Arguments
  BY DEF Record, TypeOK, Positions
<1>2. receipt' = [receipt EXCEPT ![c] = [status |-> exec[e].outcome,
                     args |-> exec[e].args, result |-> exec[e].result]]
  BY DEF Record, PutRecord
<1>3. UNCHANGED <<legacy, effects>> /\ exec' = [exec EXCEPT ![e] = Idle]
  BY DEF Record, Leave
<1>4. returned' = [returned EXCEPT ![c] = IF exec[e].outcome = "completed"
                      THEN @ \union {exec[e].result} ELSE @]
  BY DEF Record
<1>5. exec[e].outcome \in {"completed", "failed", "waiting"}
  BY DEF Record, TypeOK, Positions, Outcomes
<1>6. TypeOK'
  BY <1>1, <1>2, <1>3, <1>4, <1>5 DEF Record, TypeOK, Positions, Receipts, Statuses, Results, Outcomes
<1>7. ~Active(e)' /\ \A f \in Executors \ {e} : exec'[f] = exec[f]
  BY <1>3 DEF Active, TypeOK, Positions
<1>8. \A f \in Executors \ {e} : Active(f) => exec[f].call # c
  BY <1>1 DEF ActiveIsAlone, Active
<1>9. \A d \in Calls \ {c} : receipt'[d] = receipt[d] /\ returned'[d] = returned[d]
  BY <1>2, <1>4 DEF TypeOK, Positions
<1>10. ActiveOwnsReceipt' /\ ActiveIsAlone' /\ ClaimKnowsLegacy'
  BY <1>3, <1>7, <1>8, <1>9
  DEF ActiveOwnsReceipt, ActiveIsAlone, Active, ClaimKnowsLegacy, TypeOK, Positions, Ordinary
<1>11. c \in Ordinary => returned[c] = {}
  BY <1>1 DEF ActiveOwnsReceipt, Active, ReturnedResultIsDurable
<1>12. ReturnedResultIsDurable'
  BY <1>1, <1>2, <1>4, <1>9, <1>11 DEF ReturnedResultIsDurable, TypeOK, Positions, Ordinary
<1>13. EffectLeavesReceipt'
  BY <1>1, <1>2, <1>3, <1>5, <1>9 DEF EffectLeavesReceipt, TypeOK, Positions, Ordinary
<1> QED
  BY <1>3, <1>6, <1>10, <1>12, <1>13 DEF EffectAtMostOnce

\* Cancellation, export and restart touch no record; a restart only forgets
\* requests.
LEMMA EnvironmentStep ==
  ASSUME ReceiptInv, Cancel \/ Restart \/ ExportBegin \/ ExportEnd
  PROVE  ReceiptInv'
<1> USE DEF ReceiptInv, Idle
<1>1. UNCHANGED <<receipt, legacy, fragments, effects, returned, attempts>>
  BY DEF Cancel, Restart, ExportBegin, ExportEnd
<1>2. CASE Restart
  <2>1. TypeOK'
    BY <1>1, <1>2 DEF Restart, TypeOK, Positions, Outcomes, Results
  <2>2. ActiveOwnsReceipt' /\ ActiveIsAlone' /\ ClaimKnowsLegacy'
    BY <1>2 DEF Restart, ActiveOwnsReceipt, ActiveIsAlone, Active, ClaimKnowsLegacy
  <2> QED
    BY <1>1, <2>1, <2>2 DEF EffectLeavesReceipt, EffectAtMostOnce, ReturnedResultIsDurable
<1>3. CASE Cancel \/ ExportBegin \/ ExportEnd
  <2>1. UNCHANGED exec /\ TypeOK'
    BY <1>1, <1>3 DEF Cancel, ExportBegin, ExportEnd, TypeOK, Positions
  <2> QED
    BY <1>1, <2>1 DEF ActiveOwnsReceipt, ActiveIsAlone, Active, ClaimKnowsLegacy,
                      EffectLeavesReceipt, EffectAtMostOnce, ReturnedResultIsDurable
<1> QED BY <1>2, <1>3

LEMMA ReceiptInvStep == ReceiptInv /\ [Next]_vars => ReceiptInv'
<1> SUFFICES ASSUME ReceiptInv, [Next]_vars PROVE ReceiptInv'
  OBVIOUS
<1>1. CASE UNCHANGED vars
  BY <1>1 DEF vars, ReceiptInv, TypeOK, ActiveOwnsReceipt, ActiveIsAlone, Active,
              ClaimKnowsLegacy, EffectLeavesReceipt, EffectAtMostOnce,
              ReturnedResultIsDurable
<1>2. ASSUME NEW e \in Executors, Step(e) PROVE ReceiptInv'
  BY <1>2, QuietSteps, ClaimStep, ReplayStep, RecoverStep, OpenStep, PerformStep,
     RecordStep DEF Step
<1>3. CASE Cancel \/ Restart \/ ExportBegin \/ ExportEnd
  BY <1>3, EnvironmentStep
<1> QED BY <1>1, <1>2, <1>3 DEF Next

\* Every reachable state satisfies the receipt invariant.
THEOREM ReceiptInvariant == Spec => []ReceiptInv
<1>1. Init => ReceiptInv
  BY InitReceiptInv
<1>2. ReceiptInv /\ [Next]_vars => ReceiptInv'
  BY ReceiptInvStep
<1> QED BY <1>1, <1>2, PTL DEF Spec

\* execute_tool performs the effect of an ordinary call identity at most once,
\* over any number of concurrent requests, cancellations and restarts.
THEOREM EffectsAtMostOnce == Spec => []EffectAtMostOnce
  BY ReceiptInvariant, PTL DEF ReceiptInv

\* What execute_tool returned for an ordinary call is what its durable receipt
\* holds, now and after any restart.
THEOREM ReturnedResultsDurable == Spec => []ReturnedResultIsDurable
  BY ReceiptInvariant, PTL DEF ReceiptInv

-----------------------------------------------------------------------------
(* The refinement: only the effect of a claimed ordinary call and the      *)
(* recording of its outcome are visible to EffectOnce.                     *)

LEMMA InitRefines == Init => Contract!Init
<1> SUFFICES ASSUME Init PROVE Contract!Init
  OBVIOUS
<1>1. \A c \in Ordinary : OutcomeOf(c) \in {"open", "unknown"} \union Contract!Settled
  BY DEF Init, OutcomeOf, Contract!Settled, Absent, Ordinary
<1>2. \A c \in Ordinary : effects[c] = 0
  BY DEF Init, Ordinary
<1> QED BY <1>1, <1>2 DEF Contract!Init

\* A step that leaves effects, legacy receipts and ordinary receipts alone is a
\* stuttering step of the contract.
LEMMA StutterRefines ==
  ASSUME \A c \in Ordinary : /\ effects'[c] = effects[c]
                             /\ OutcomeOf(c)' = OutcomeOf(c)
  PROVE  UNCHANGED Contract!ovars
  BY DEF Contract!ovars

LEMMA StepRefines == ReceiptInv /\ [Next]_vars => [Contract!Next]_Contract!ovars
<1> SUFFICES ASSUME ReceiptInv, [Next]_vars PROVE [Contract!Next]_Contract!ovars
  OBVIOUS
<1> USE DEF ReceiptInv
<1>1. CASE UNCHANGED <<receipt, legacy, effects>>
  BY <1>1, StutterRefines DEF OutcomeOf
<1>2. ASSUME NEW e \in Executors, Claim(e) PROVE UNCHANGED Contract!ovars
  <2>1. exec[e].call \in Calls
    BY <1>2 DEF Claim, TypeOK
  <2>2. /\ UNCHANGED <<legacy, effects>>
        /\ \A d \in Calls : receipt[d].status # "absent" => receipt'[d] = receipt[d]
        /\ \A d \in Calls : legacy[d].status = "absent" /\ receipt[d].status = "absent"
              => receipt'[d].status \in {"absent", "started"}
    BY <1>2, <2>1 DEF Claim, ClaimRecord, TypeOK
  <2> QED BY <2>2, StutterRefines DEF OutcomeOf, Ordinary
<1>3. ASSUME NEW e \in Executors,
             (\E out \in Outcomes : InspectRecover(e, out)) \/ InspectRecoverFails(e)
      PROVE  UNCHANGED Contract!ovars
  <2>1. /\ UNCHANGED <<receipt, legacy>>
        /\ exec[e].call \notin Ordinary
        /\ effects' = [effects EXCEPT ![exec[e].call] = @ + 1]
    BY <1>3 DEF InspectRecover, InspectRecoverFails, Unfinished
  <2> QED BY <2>1, StutterRefines DEF OutcomeOf, TypeOK, Ordinary
<1>4. ASSUME NEW e \in Executors, NEW out \in Outcomes, Perform(e, out)
      PROVE  [Contract!Next]_Contract!ovars
  <2>0. PICK c \in Calls : c = exec[e].call
    BY <1>4 DEF Perform, TypeOK
  <2>1. UNCHANGED <<receipt, legacy>> /\ effects' = [effects EXCEPT ![c] = @ + 1]
    BY <1>4, <2>0 DEF Perform
  <2>2. \A d \in Calls \ {c} : effects'[d] = effects[d] /\ OutcomeOf(d)' = OutcomeOf(d)
    BY <2>1 DEF OutcomeOf, TypeOK
  <2>3. CASE c \notin Ordinary
    BY <2>2, <2>3, StutterRefines DEF Ordinary
  <2>4. CASE c \in Ordinary
    <3>1. /\ legacy[c].status = "absent" /\ receipt[c].status = "started"
          /\ effects[c] = 0 /\ effects'[c] = 1
      BY <1>4, <2>0, <2>1, <2>4 DEF Perform, ActiveOwnsReceipt, Active, TypeOK
    <3>2. OutcomeOf(c) = "open" /\ OutcomeOf(c)' = "unknown"
      BY <2>1, <3>1 DEF OutcomeOf
    <3>3. Contract!Perform(c)
      BY <2>2, <2>4, <3>1, <3>2 DEF Contract!Perform, Ordinary
    <3> QED BY <2>4, <3>3 DEF Contract!Next
  <2> QED BY <2>3, <2>4
<1>5. ASSUME NEW e \in Executors, Record(e) PROVE [Contract!Next]_Contract!ovars
  <2>0. PICK c \in Calls : c = exec[e].call
    BY <1>5 DEF Record, TypeOK
  <2>1. UNCHANGED <<legacy, effects>>
        /\ exec[e].outcome \in {"completed", "failed", "waiting"}
        /\ receipt' = [receipt EXCEPT ![c] = [status |-> exec[e].outcome,
                         args |-> exec[e].args, result |-> exec[e].result]]
    BY <1>5, <2>0 DEF Record, PutRecord, TypeOK, Positions, Outcomes
  <2>2. \A d \in Calls \ {c} : effects'[d] = effects[d] /\ OutcomeOf(d)' = OutcomeOf(d)
    BY <2>1 DEF OutcomeOf, TypeOK
  <2>3. CASE c \notin Ordinary
    BY <2>2, <2>3, StutterRefines DEF Ordinary
  <2>4. CASE c \in Ordinary
    <3>1. /\ legacy[c].status = "absent" /\ receipt[c].status = "started" /\ effects[c] = 1
      BY <1>5, <2>0, <2>4 DEF Record, ActiveOwnsReceipt, Active
    <3>2. OutcomeOf(c) = "unknown" /\ receipt'[c].status = exec[e].outcome
      BY <2>1, <3>1 DEF OutcomeOf, TypeOK
    <3>3. CASE exec[e].outcome = "waiting"
      <4>1. OutcomeOf(c)' = OutcomeOf(c)
        BY <2>1, <3>1, <3>2, <3>3 DEF OutcomeOf
      <4> QED BY <2>1, <2>2, <4>1, StutterRefines DEF Ordinary
    <3>4. CASE exec[e].outcome # "waiting"
      <4>1. exec[e].outcome \in Contract!Settled
        BY <2>1, <3>4 DEF Contract!Settled
      <4>2. OutcomeOf(c)' = exec[e].outcome
        BY <2>1, <3>1, <3>2, <3>4 DEF OutcomeOf
      <4>3. Contract!Settle(c, exec[e].outcome)
        BY <2>1, <2>2, <2>4, <3>1, <3>2, <4>2 DEF Contract!Settle, Ordinary
      <4> QED BY <2>4, <4>1, <4>3 DEF Contract!Next
    <3> QED BY <3>3, <3>4
  <2> QED BY <2>3, <2>4
<1>6. ASSUME NEW e \in Executors, Step(e) PROVE [Contract!Next]_Contract!ovars
  BY <1>1, <1>2, <1>3, <1>4, <1>5, <1>6
  DEF Step, Begin, Lookup, InspectReplay, InspectReject, Open
<1> QED
  BY <1>1, <1>6 DEF Next, vars, Cancel, Restart, ExportBegin, ExportEnd

\* The receipts of execute_tool implement EffectOnce for every set of calls,
\* concurrent requests and arguments.
THEOREM ReceiptsImplementEffectOnce == Spec => ImplementsEffectOnce
<1>1. Init => Contract!Init
  BY InitRefines
<1>2. ReceiptInv /\ [Next]_vars => [Contract!Next]_Contract!ovars
  BY StepRefines
<1> QED BY <1>1, <1>2, ReceiptInvariant, PTL DEF Spec, ImplementsEffectOnce, Contract!Spec

-----------------------------------------------------------------------------
(* Output identities and exports.                                            *)

\* A request that may change an ordinary receipt or an output identity holds
\* the journal's read guard.
LEMMA WritersHoldJournal ==
  ASSUME TypeOK, NEW e \in Executors, exec[e].pc # "idle",
         exec[e].pc \in {"lookup", "claim"} \/ Kind[exec[e].call] # "route"
  PROVE  HoldsJournal(e)
  BY DEF HoldsJournal

LEMMA OutputKindOrdinary ==
  ASSUME NEW c \in Calls, Kind[c] = "exec"
  PROVE  c \in Ordinary
  BY DEF Ordinary

\* No step of a request meets an export, and the identity a command opens is
\* unused.
LEMMA RequestStable ==
  ASSUME ReceiptInv, StableInv, NEW e \in Executors, Step(e)
  PROVE  StableInv'
<1> USE DEF ReceiptInv, StableInv
<1>t. /\ \A f \in Executors : exec[f] \in Positions
      /\ \A f \in Executors : exec[f].pc # "idle" => exec[f].call \in Calls
      /\ \A c \in Calls : receipt[c] \in Receipts
      /\ fragments \subseteq Calls
  BY DEF TypeOK
<1>1. ASSUME NEW c \in Calls, NEW a \in Arguments, Begin(e, c, a) PROVE StableInv'
  <2>1. /\ ~exporting' /\ UNCHANGED <<receipt, fragments>>
        /\ exec' = [exec EXCEPT ![e] = [Idle EXCEPT !.pc = "lookup", !.call = c, !.args = a]]
    BY <1>1 DEF Begin
  <2>2. exec'[e].pc = "lookup" /\ \A f \in Executors \ {e} : exec'[f] = exec[f]
    BY <2>1 DEF TypeOK, Idle
  <2> QED BY <2>1, <2>2 DEF FragmentsClaimed, OutputIdentityFresh, ExportExcludes
<1>2. ASSUME Lookup(e) PROVE StableInv'
  <2>1. UNCHANGED <<receipt, fragments, exporting>> /\ exec[e].pc = "lookup"
    BY <1>2 DEF Lookup
  <2>2. exec'[e].pc = "claim" /\ \A f \in Executors \ {e} : exec'[f] = exec[f]
    BY <1>2 DEF Lookup, TypeOK, Positions
  <2>3. ~exporting
    BY <2>1, WritersHoldJournal DEF ExportExcludes
  <2> QED BY <2>1, <2>2, <2>3 DEF FragmentsClaimed, OutputIdentityFresh, ExportExcludes
<1>3. ASSUME Claim(e) PROVE StableInv'
  <2>1. /\ UNCHANGED <<fragments, exporting>> /\ exec[e].pc = "claim" /\ exec[e].call \in Calls
    BY <1>3, <1>t DEF Claim
  <2>2. /\ exec'[e].call = exec[e].call /\ \A f \in Executors \ {e} : exec'[f] = exec[f]
        /\ exec'[e].pc = "open" => receipt[exec[e].call].status = "absent"
        /\ \A c \in Calls : receipt[c].status # "absent" => receipt'[c] = receipt[c]
    BY <1>3, <2>1 DEF Claim, ClaimRecord, TypeOK, Positions
  <2>3. ~exporting
    BY <2>1, WritersHoldJournal DEF ExportExcludes
  <2>4. FragmentsClaimed'
    BY <1>t, <2>1, <2>2 DEF FragmentsClaimed
  <2>5. OutputIdentityFresh'
    BY <2>1, <2>2 DEF OutputIdentityFresh, FragmentsClaimed
  <2> QED BY <2>1, <2>3, <2>4, <2>5 DEF ExportExcludes
<1>4. ASSUME InspectReplay(e) \/ InspectReject(e) \/ InspectRecoverFails(e) PROVE StableInv'
  <2>1. UNCHANGED <<receipt, fragments, exporting>> /\ exec' = [exec EXCEPT ![e] = Idle]
    BY <1>4 DEF InspectReplay, InspectReject, InspectRecoverFails, Leave
  <2>2. exec'[e].pc = "idle" /\ \A f \in Executors \ {e} : exec'[f] = exec[f]
    BY <2>1 DEF TypeOK, Idle
  <2>3. \A f \in Executors : HoldsJournal(f)' => HoldsJournal(f)
    BY <2>2 DEF HoldsJournal
  <2> QED BY <2>1, <2>2, <2>3 DEF FragmentsClaimed, OutputIdentityFresh, ExportExcludes
<1>5. ASSUME NEW out \in Outcomes, InspectRecover(e, out) \/ Perform(e, out)
      PROVE  StableInv'
  <2>1. /\ UNCHANGED <<receipt, fragments, exporting>>
        /\ exec[e].pc \in {"inspect", "perform"}
    BY <1>5 DEF InspectRecover, Unfinished, Perform
  <2>2. /\ exec'[e].pc = "record" /\ exec'[e].call = exec[e].call
        /\ \A f \in Executors \ {e} : exec'[f] = exec[f]
    BY <1>5 DEF InspectRecover, Perform, TypeOK, Positions
  <2>3. \A f \in Executors : HoldsJournal(f)' => HoldsJournal(f)
    BY <2>1, <2>2 DEF HoldsJournal
  <2> QED BY <2>1, <2>2, <2>3 DEF FragmentsClaimed, OutputIdentityFresh, ExportExcludes
<1>6. ASSUME Open(e) PROVE StableInv'
  <2>1. /\ UNCHANGED <<receipt, exporting>>
        /\ exec[e].pc = "open" /\ exec[e].call \in Calls
        /\ fragments' = IF Kind[exec[e].call] = "exec" THEN fragments \union {exec[e].call}
                                                       ELSE fragments
    BY <1>6, <1>t DEF Open
  <2>2. /\ exec'[e].pc = "perform" /\ exec'[e].call = exec[e].call
        /\ \A f \in Executors \ {e} : exec'[f] = exec[f]
    BY <1>6 DEF Open, TypeOK, Positions
  <2>3. \A f \in Executors : HoldsJournal(f)' => HoldsJournal(f)
    BY <2>1, <2>2 DEF HoldsJournal
  <2>4. FragmentsClaimed'
    <3>1. Kind[exec[e].call] = "exec" => receipt[exec[e].call].status = "started"
      BY <2>1, OutputKindOrdinary DEF ActiveOwnsReceipt, Active
    <3> QED BY <2>1, <3>1 DEF FragmentsClaimed
  <2>5. OutputIdentityFresh'
    <3> SUFFICES ASSUME NEW f \in Executors, exec'[f].pc = "open", Kind[exec'[f].call] = "exec"
                 PROVE  exec'[f].call \notin fragments'
      BY DEF OutputIdentityFresh
    <3>1. f # e /\ exec'[f] = exec[f] /\ exec[f].call \in Calls
      BY <1>t, <2>2
    <3>2. exec[f].call \notin fragments
      BY <3>1 DEF OutputIdentityFresh
    <3>3. Active(f)
      BY <3>1, OutputKindOrdinary DEF Active
    <3>4. Kind[exec[e].call] = "exec" => exec[e].call # exec[f].call
      BY <2>1, <3>1, <3>3, OutputKindOrdinary DEF ActiveIsAlone, Active
    <3> QED BY <2>1, <3>1, <3>2, <3>4
  <2> QED BY <2>1, <2>3, <2>4, <2>5 DEF ExportExcludes
<1>7. ASSUME Record(e) PROVE StableInv'
  <2>1. /\ UNCHANGED <<fragments, exporting>> /\ exec[e].pc = "record"
        /\ exec[e].outcome \in Outcomes \ {"none"} /\ exec[e].call \in Calls
        /\ exec' = [exec EXCEPT ![e] = Idle]
        /\ receipt' = [receipt EXCEPT ![exec[e].call] =
              [status |-> exec[e].outcome, args |-> exec[e].args, result |-> exec[e].result]]
    BY <1>7 DEF Record, Leave, PutRecord, TypeOK, Positions
  <2>2. exec'[e].pc = "idle" /\ \A f \in Executors \ {e} : exec'[f] = exec[f]
    BY <2>1 DEF TypeOK, Idle
  <2>3. \A f \in Executors : HoldsJournal(f)' => HoldsJournal(f)
    BY <2>2 DEF HoldsJournal
  <2>4. FragmentsClaimed'
    BY <2>1 DEF FragmentsClaimed, TypeOK, Outcomes
  <2> QED BY <2>1, <2>2, <2>3, <2>4 DEF OutputIdentityFresh, ExportExcludes
<1> QED BY <1>1, <1>2, <1>3, <1>4, <1>5, <1>6, <1>7 DEF Step

LEMMA StableStep == ReceiptInv /\ StableInv /\ [Next]_vars => StableInv'
<1> SUFFICES ASSUME ReceiptInv, StableInv, [Next]_vars PROVE StableInv'
  OBVIOUS
<1>1. CASE UNCHANGED vars
  BY <1>1 DEF vars, StableInv, FragmentsClaimed, OutputIdentityFresh, ExportExcludes,
              HoldsJournal
<1>2. ASSUME NEW e \in Executors, Step(e) PROVE StableInv'
  BY <1>2, RequestStable
<1>3. CASE Restart
  <2>1. /\ UNCHANGED <<receipt, fragments>> /\ exporting' = FALSE
        /\ \A e \in Executors : exec'[e].pc = "idle"
    BY <1>3 DEF Restart, Idle
  <2> QED BY <2>1 DEF StableInv, FragmentsClaimed, OutputIdentityFresh, ExportExcludes
<1>4. CASE Cancel \/ ExportBegin \/ ExportEnd
  BY <1>4 DEF Cancel, ExportBegin, ExportEnd, StableInv, FragmentsClaimed,
              OutputIdentityFresh, ExportExcludes, HoldsJournal
<1> QED BY <1>1, <1>2, <1>3, <1>4 DEF Next

\* What an export reads, no step changes while it holds the journal.
LEMMA ExportStep ==
  ASSUME ReceiptInv, StableInv, [Next]_vars, exporting, exporting'
  PROVE  /\ \A c \in Ordinary : receipt'[c] = receipt[c]
         /\ fragments' = fragments
<1> USE DEF ReceiptInv, StableInv
<1>1. CASE UNCHANGED vars
  BY <1>1 DEF vars
<1>2. CASE Cancel \/ Restart \/ ExportBegin \/ ExportEnd
  BY <1>2 DEF Cancel, Restart, ExportBegin, ExportEnd
<1>3. ASSUME NEW e \in Executors, Step(e)
      PROVE  (\A c \in Ordinary : receipt'[c] = receipt[c]) /\ fragments' = fragments
  <2>1. ~HoldsJournal(e)
    BY DEF ExportExcludes
  <2>2. exec[e].pc # "idle" => exec[e].pc \notin {"lookup", "claim"} /\ Kind[exec[e].call] = "route"
    BY <2>1 DEF HoldsJournal
  <2>3. CASE Record(e)
    <3>1. /\ fragments' = fragments
          /\ \A c \in Calls : c # exec[e].call => receipt'[c] = receipt[c]
      BY <2>3 DEF Record, PutRecord, TypeOK
    <3>2. exec[e].call \notin Ordinary
      BY <2>2, <2>3 DEF Record, Ordinary
    <3> QED BY <3>1, <3>2 DEF Ordinary
  <2>4. CASE ~Record(e)
    BY <1>3, <2>2, <2>4 DEF Step, Begin, Lookup, Claim, InspectReplay, InspectReject,
       InspectRecover, InspectRecoverFails, Unfinished, Open, Perform
  <2> QED BY <2>3, <2>4
<1> QED BY <1>1, <1>2, <1>3 DEF Next

\* Every reachable state keeps output identities fresh and exports apart.
THEOREM StableInvariant == Spec => []StableInv
<1>1. Init => StableInv
  <2> SUFFICES ASSUME Init PROVE StableInv
    OBVIOUS
  <2>1. fragments = {} /\ ~exporting /\ \A e \in Executors : exec[e].pc = "idle"
    BY DEF Init, Idle
  <2> QED BY <2>1 DEF StableInv, FragmentsClaimed, OutputIdentityFresh, ExportExcludes
<1>2. ReceiptInv /\ StableInv /\ [Next]_vars => StableInv'
  BY StableStep
<1> QED BY <1>1, <1>2, ReceiptInvariant, PTL DEF Spec

\* Of RunServices::execute_tool and the export barrier: a command whose receipt is
\* claimed always finds its output identity unused, and while an export holds the
\* journal no ordinary receipt and no captured output changes.
THEOREM RecordsAreStable == Spec => RecordsStable
<1>1. StableInv => OutputIdentityFresh
  BY DEF StableInv
<1>2. ReceiptInv /\ StableInv /\ [Next]_vars =>
        [exporting /\ exporting' =>
           /\ \A c \in Ordinary : receipt'[c] = receipt[c]
           /\ fragments' = fragments]_vars
  BY ExportStep
<1> QED
  BY <1>1, <1>2, ReceiptInvariant, StableInvariant, PTL
  DEF Spec, RecordsStable, ExportSeesStableRecords

-----------------------------------------------------------------------------
(* The processes of a command and the calls that write.                        *)

LEMMA GroupEnds == \A p : ~InGroup(Terminated(p)) /\ (p = "none" => Terminated(p) = "none")
                          /\ (p # "none" => Terminated(p) # "none")
  BY DEF InGroup, Terminated

LEMMA CommandUnmoved ==
  ASSUME CommandKept, call' = call, shell' = shell, child' = child
  PROVE  CommandKept'
  BY DEF CommandKept, NoGroup

LEMMA WritersUnmoved ==
  ASSUME WritersKept, writer' = writer, begun' = begun
  PROVE  WritersKept'
  BY DEF WritersKept

\* A call that ends takes its group along.
LEMMA CallEnds ==
  ASSUME CommandKept, NEW pc \in {"failed", "dropped"}, Ends(pc)
  PROVE  CommandKept'
<1>1. call' = [pc |-> pc, done |-> call.done, status |-> call.status,
               failure |-> call.failure, limit |-> call.limit, drain |-> call.drain,
               cut |-> call.cut]
  BY DEF Ends, CommandKept
<1>2. NoGroup'
  BY GroupEnds DEF Ends, NoGroup
<1> QED BY <1>1, <1>2 DEF CommandKept

LEMMA ExecKeeps ==
  ASSUME CommandKept, Exec
  PROVE  CommandKept'
<1>1. CASE OpenLog
  <2>1. call' = [pc |-> IF cancel THEN "refused" ELSE "opened", done |-> call.done,
                 status |-> call.status, failure |-> call.failure, limit |-> call.limit,
                 drain |-> call.drain, cut |-> call.cut]
    BY <1>1 DEF OpenLog, CommandKept
  <2>2. call.status = "none" /\ shell = "none" /\ child = "none" /\ shell' = shell /\ child' = child /\ NoGroup'
    BY <1>1 DEF OpenLog, CommandKept, NoGroup, InGroup
  <2> QED BY <2>1, <2>2 DEF CommandKept
<1>2. CASE Spawn
  <2>1. call' = [pc |-> IF cancel THEN "refused" ELSE "loop", done |-> call.done,
                 status |-> call.status, failure |-> call.failure, limit |-> call.limit,
                 drain |-> call.drain, cut |-> call.cut]
    BY <1>2 DEF Spawn, CommandKept
  <2>2. child = "none" /\ child' = "none" /\ shell = "none"
        /\ shell' = IF cancel THEN "none" ELSE "running"
    BY <1>2 DEF Spawn, CommandKept
  <2>3. call.status = "none" /\ ~call.drain
    BY <1>2 DEF Spawn, CommandKept
  <2>4. CASE cancel
    BY <2>1, <2>2, <2>3, <2>4 DEF CommandKept, NoGroup, InGroup
  <2>5. CASE ~cancel
    BY <2>1, <2>2, <2>3, <2>5 DEF CommandKept, NoGroup, InGroup
  <2> QED BY <2>4, <2>5
<1>3. CASE ProcessWrites
  BY <1>3, CommandUnmoved DEF ProcessWrites
<1>4. CASE ProcessChanges
  <2>1. call' = call
    BY <1>4 DEF ProcessChanges
  <2>2. NoGroup => NoGroup'
    BY <1>4 DEF ProcessChanges, NoGroup, InGroup
  <2>3. (shell = "none" /\ child = "none" => shell' = "none" /\ child' = "none")
        /\ (shell # "none" => shell' # "none")
    BY <1>4 DEF ProcessChanges
  <2> QED BY <2>1, <2>2, <2>3 DEF CommandKept
<1>5. ASSUME NEW s \in Streams, ReadPipe(s) PROVE CommandKept'
  <2>1. \/ UNCHANGED <<shell, child, call>>
        \/ Ends("failed")
    BY <1>5 DEF ReadPipe
  <2> QED BY <2>1, CommandUnmoved, CallEnds
<1>6. ASSUME NEW s \in Streams, PipeEnds(s) PROVE CommandKept'
  <2>1. call' = [pc |-> call.pc, done |-> call.done \cup {s}, status |-> call.status,
                 failure |-> call.failure, limit |-> call.limit, drain |-> call.drain,
                 cut |-> call.cut] /\ shell' = shell /\ child' = child
    BY <1>6 DEF PipeEnds, CommandKept
  <2> QED BY <2>1 DEF CommandKept, NoGroup
<1>7. CASE ShellEnds
  <2>1. call' = [pc |-> "loop", done |-> call.done, status |-> shell,
                 failure |-> call.failure, limit |-> call.limit, drain |-> TRUE,
                 cut |-> call.cut] /\ shell' = shell
    BY <1>7 DEF ShellEnds, CommandKept
  <2>2. shell # "none" /\ NoGroup'
    BY <1>7, GroupEnds DEF ShellEnds, NoGroup, InGroup
  <2> QED BY <2>1, <2>2 DEF CommandKept
<1>8. ASSUME NEW reason, Interrupted(reason) PROVE CommandKept'
  <2>1. call' = [pc |-> "loop", done |-> call.done, status |-> shell',
                 failure |-> reason, limit |-> call.limit, drain |-> TRUE,
                 cut |-> call.cut]
    BY <1>8 DEF Interrupted, CommandKept
  <2>2. shell' # "none" /\ NoGroup'
    BY <1>8, GroupEnds DEF Interrupted, CommandKept, NoGroup
  <2> QED BY <2>1, <2>2 DEF CommandKept
<1>9. ASSUME NEW cut, Finished(cut), call.status # "none" PROVE CommandKept'
  <2>1. PICK pc \in {"completed", "error"} :
          call' = [pc |-> pc, done |-> call.done, status |-> call.status,
                   failure |-> call.failure, limit |-> call.limit, drain |-> call.drain,
                   cut |-> cut]
    BY <1>9 DEF Finished, CommandKept
  <2>2. NoGroup /\ NoGroup'
    BY <1>9 DEF Finished, CommandKept, NoGroup
  <2> QED BY <2>1, <2>2 DEF CommandKept
<1>10. CASE CallDropped
  BY <1>10, CallEnds DEF CallDropped
<1>11. CASE Finish \/ DrainEnds
  BY <1>9, <1>11 DEF Finish, DrainEnds, CommandKept
<1>12. CASE CommandCancelled \/ CommandTimesOut
  BY <1>8, <1>12 DEF CommandCancelled, CommandTimesOut
<1> QED
  BY <1>1, <1>2, <1>3, <1>4, <1>5, <1>6, <1>7, <1>10, <1>11, <1>12 DEF Exec

LEMMA ExecSparesWriters ==
  ASSUME WritersKept, Exec \/ ReadPage
  PROVE  WritersKept'
  BY WritersUnmoved
     DEF Exec, ReadPage, OpenLog, Spawn, ProcessWrites, ProcessChanges, ReadPipe, PipeEnds,
         ShellEnds, CommandCancelled, CommandTimesOut, Interrupted, Finish, DrainEnds, Finished,
         CallDropped, Kept

LEMMA WriterKeeps ==
  ASSUME WritersKept, NEW w \in Writers,
         WriterAsks(w) \/ WriterLocks(w) \/ WriterEnds(w) \/ WriterDropped(w)
  PROVE  WritersKept' /\ UNCHANGED <<call, shell, child>>
<1>1. PICK pc : /\ WriterGoes(w, pc)
                /\ \/ pc \in {"writing", "completed", "failed", "abandoned"}
                   \/ pc \in {"waiting", "refused"} /\ writer[w] \in {"called", "waiting"}
  BY DEF WriterAsks, WriterLocks, WriterEnds, WriterDropped
<1>2. /\ writer' = [writer EXCEPT ![w] = pc]
      /\ begun' = IF pc = "writing" THEN begun \cup {w} ELSE begun
      /\ UNCHANGED <<call, shell, child>>
  BY <1>1 DEF WriterGoes, command
<1>3. writer'[w] = pc /\ \A v \in Writers \ {w} : writer'[v] = writer[v]
  BY <1>2 DEF WritersKept
<1>4. \A v \in Writers : writer'[v] \in {"called", "waiting", "refused"} => v \notin begun'
  BY <1>1, <1>2, <1>3 DEF WritersKept
<1>5. writer' = [v \in Writers |-> writer'[v]]
  BY <1>2 DEF WritersKept
<1> QED BY <1>2, <1>4, <1>5 DEF WritersKept

(* The strengthening holds for any number of writers, any limits and outputs.  *)
THEOREM WorkspaceInvariant == WorkspaceSpec => []WorkspaceInv
<1>1. WorkspaceInit => WorkspaceInv
  BY DEF WorkspaceInit, WorkspaceInv, CommandKept, WritersKept, NoGroup, InGroup
<1>2. WorkspaceInv /\ [WorkspaceNext]_workspace => WorkspaceInv'
  <2> SUFFICES ASSUME WorkspaceInv, [WorkspaceNext]_workspace PROVE WorkspaceInv'
    OBVIOUS
  <2>1. CASE Exec
    BY <2>1, ExecKeeps, ExecSparesWriters DEF WorkspaceInv
  <2>2. CASE CancelRun
    BY <2>2, CommandUnmoved, WritersUnmoved DEF WorkspaceInv, CancelRun, command
  <2>3. CASE ReadPage
    BY <2>3, CommandUnmoved, ExecSparesWriters DEF WorkspaceInv, ReadPage, command
  <2>4. ASSUME NEW w \in Writers,
               WriterAsks(w) \/ WriterLocks(w) \/ WriterEnds(w) \/ WriterDropped(w)
        PROVE  WorkspaceInv'
    BY <2>4, CommandUnmoved, WriterKeeps DEF WorkspaceInv
  <2>5. CASE UNCHANGED workspace
    BY <2>5, CommandUnmoved, WritersUnmoved DEF WorkspaceInv, workspace
  <2> QED BY <2>1, <2>2, <2>3, <2>4, <2>5 DEF WorkspaceNext
<1> QED BY <1>1, <1>2, PTL DEF WorkspaceSpec

(* Whatever ends a command's call first (workspace_tools.rs, exec), no process  *)
(* of its group is left, and what was refused has never begun.                 *)
THEOREM NothingIsLeft == WorkspaceSpec => []NothingLeft
<1>1. WorkspaceInv => NothingLeft
  BY DEF WorkspaceInv, CommandKept, WritersKept, NoGroup, NothingLeft
<1> QED BY <1>1, WorkspaceInvariant, PTL

-----------------------------------------------------------------------------
(* The credentials of model calls.                                             *)

Fields(r) == [pc |-> r.pc, auth |-> r.auth, style |-> r.style, sent |-> r.sent,
              items |-> r.items, out |-> r.out]

\* A step of call c leaves the others where they are, and brings c to the file's
\* token, or leaves it with its own, or gives it up.
Brings(c) ==
  /\ answer' = [d \in ModelCalls |-> Fields(answer'[d])]
  /\ \A d \in ModelCalls \ {c} : answer'[d] = answer[d]
  /\ answer'[c].auth \in {0, answer[c].auth, stored}

LEMMA AnswerShape ==
  ASSUME TokensKept, NEW c \in ModelCalls, NEW r, r = Fields(r),
         answer' = [answer EXCEPT ![c] = r]
  PROVE  /\ answer'[c] = r /\ \A d \in ModelCalls \ {c} : answer'[d] = answer[d]
         /\ answer' = [d \in ModelCalls |-> Fields(answer'[d])]
<1>1. answer = [d \in ModelCalls |-> Fields(answer[d])]
  BY DEF TokensKept, Fields
<1>2. DOMAIN answer = ModelCalls
  BY <1>1
<1>3. answer'[c] = r /\ \A d \in ModelCalls \ {c} : answer'[d] = answer[d]
  BY <1>2
<1>4. \A d \in ModelCalls : answer'[d] = Fields(answer'[d])
  BY <1>1, <1>3
<1>5. answer' = [d \in ModelCalls |-> answer'[d]]
  BY <1>2
<1> QED BY <1>3, <1>4, <1>5

LEMMA Going ==
  ASSUME TokensKept, NEW c \in ModelCalls, NEW pc, Go(c, pc)
  PROVE  Brings(c) /\ answer'[c].pc = pc /\ answer'[c].auth = answer[c].auth
<1>1. answer' = [answer EXCEPT ![c] = [answer[c] EXCEPT !.pc = pc]]
  BY DEF Go
<1>2. PICK r : r = [answer[c] EXCEPT !.pc = pc]
  OBVIOUS
<1>3. answer[c] = Fields(answer[c])
  BY DEF TokensKept, Fields
<1>4. r = Fields(r) /\ r.pc = pc /\ r.auth = answer[c].auth
  BY <1>2, <1>3 DEF Fields
<1> QED BY <1>1, <1>2, <1>4, AnswerShape DEF Brings

LEMMA Failing ==
  ASSUME TokensKept, NEW c \in ModelCalls, Fails(c)
  PROVE  Brings(c) /\ answer'[c].pc = "failed" /\ answer'[c].auth = 0
<1>1. PICK r : r = [Waiting EXCEPT !.pc = "failed"]
  OBVIOUS
<1>2. r = Fields(r) /\ r.pc = "failed" /\ r.auth = 0
  BY <1>1 DEF Fields, Waiting
<1> QED BY <1>1, <1>2, AnswerShape DEF Brings, Fails

\* Nothing replaces a token: a call that is not about to may go anywhere else.
LEMMA QuietStep ==
  ASSUME RefreshInv, NEW c \in ModelCalls, Brings(c), UNCHANGED <<stored, rotated>>,
         answer'[c].pc = "refresh" =>
           answer'[c].auth = answer[c].auth
           /\ \A i \in DOMAIN rotated : rotated[i].token # answer[c].auth,
         LockKept'
  PROVE  RefreshInv'
<1>1. /\ \A d \in ModelCalls : answer'[d].auth \in 0..stored
      /\ answer' = [d \in ModelCalls |-> Fields(answer'[d])]
  BY DEF RefreshInv, TokensKept, Brings
<1>2. \A d \in ModelCalls, i \in DOMAIN rotated :
        answer'[d].pc = "refresh" => rotated[i].token # answer'[d].auth
  BY DEF RefreshInv, TokensKept, Brings
<1> QED BY <1>1, <1>2 DEF RefreshInv, TokensKept, Fields, RefreshedOnce

\* The call that replaces its token is the only one about to.
LEMMA RotateStep ==
  ASSUME RefreshInv, NEW c \in ModelCalls, Brings(c), Refreshing(c),
         Rotate(c), ~Refreshing(c)', LockKept'
  PROVE  RefreshInv'
<1>1. /\ stored \in Nat /\ rotated \in Seq(Replacements) /\ answer[c].auth \in Nat
      /\ answer[c].auth <= stored
      /\ answer[c].pc = "refresh" => \A i \in DOMAIN rotated : rotated[i].token # answer[c].auth
      /\ \A i \in DOMAIN rotated : rotated[i].token < stored
  BY DEF RefreshInv, TokensKept
<1>2. PICK t \in Replacements : t = [token |-> answer[c].auth, blind |-> answer[c].pc = "blind"]
  <2>1. (answer[c].pc = "blind") \in BOOLEAN
    OBVIOUS
  <2> QED BY <1>1, <2>1 DEF Replacements
<1>3. stored' = stored + 1 /\ rotated' = Append(rotated, t)
  BY <1>2 DEF Rotate
<1>4. /\ rotated' \in Seq(Replacements) /\ Len(rotated') = Len(rotated) + 1
      /\ \A i \in 1..Len(rotated) : rotated'[i] = rotated[i]
      /\ rotated'[Len(rotated) + 1] = t
  BY <1>1, <1>3
<1>5. DOMAIN rotated = 1..Len(rotated) /\ DOMAIN rotated' = 1..(Len(rotated) + 1)
      /\ Len(rotated) \in Nat
  BY <1>1, <1>4
<1>6. \A i \in DOMAIN rotated' : i \in DOMAIN rotated \/ i = Len(rotated) + 1
  BY <1>5
<1>12. t.token = answer[c].auth /\ (t.blind <=> answer[c].pc = "blind")
  BY <1>2
<1>7. \A i \in DOMAIN rotated' : rotated'[i].token < stored'
  <2> SUFFICES ASSUME NEW i \in DOMAIN rotated' PROVE rotated'[i].token < stored'
    OBVIOUS
  <2>1. CASE i \in DOMAIN rotated
    <3>1. rotated'[i] = rotated[i] /\ rotated[i] \in Replacements
      BY <1>1, <1>4, <1>5, <2>1
    <3>2. rotated[i].token \in Nat /\ rotated[i].token < stored
      BY <1>1, <2>1, <3>1 DEF Replacements
    <3> QED BY <1>1, <1>3, <3>1, <3>2
  <2>2. CASE i = Len(rotated) + 1
    BY <1>1, <1>3, <1>4, <1>12, <2>2
  <2> QED BY <1>6, <2>1, <2>2
<1>8. RefreshedOnce'
  <2>1. ASSUME NEW i \in DOMAIN rotated', NEW j \in DOMAIN rotated', i < j,
               rotated'[i].token = rotated'[j].token
        PROVE  rotated'[j].blind
    <3>1. i \in DOMAIN rotated /\ rotated'[i] = rotated[i]
      BY <1>4, <1>5, <2>1
    <3>2. CASE j \in DOMAIN rotated
      <4>1. rotated'[j] = rotated[j]
        BY <1>4, <1>5, <3>2
      <4> QED BY <2>1, <3>1, <3>2, <4>1 DEF RefreshInv, RefreshedOnce
    <3>3. CASE j = Len(rotated) + 1
      <4>1. rotated'[j] = t /\ rotated[i].token = answer[c].auth
        BY <1>4, <1>12, <2>1, <3>1, <3>3
      <4>2. answer[c].pc = "blind"
        BY <1>1, <3>1, <4>1 DEF Refreshing
      <4> QED BY <1>12, <4>1, <4>2
    <3> QED BY <1>6, <3>2, <3>3
  <2> QED BY <2>1 DEF RefreshedOnce
<1>9. \A d \in ModelCalls : answer'[d].pc # "refresh"
  BY DEF RefreshInv, LockKept, AtLock, Brings, Refreshing
<1>10. \A d \in ModelCalls : answer'[d].auth \in 0..stored'
  <2>1. \A d \in ModelCalls : answer'[d].auth \in 0..stored
    BY <1>1 DEF RefreshInv, TokensKept, Brings
  <2> QED BY <1>1, <1>3, <2>1
<1>11. stored' \in Nat /\ answer' = [d \in ModelCalls |-> Fields(answer'[d])]
  BY <1>1, <1>3 DEF Brings
<1> QED BY <1>4, <1>7, <1>8, <1>9, <1>10, <1>11 DEF RefreshInv, TokensKept, Fields

\* Where the lock stays, a call neither comes to it nor leaves it.
LEMMA LockSame ==
  ASSUME RefreshInv, NEW c \in ModelCalls, Brings(c), lock' = lock,
         AtLock(c)' => AtLock(c)
  PROVE  LockKept'
  BY DEF RefreshInv, LockKept, AtLock, Refreshing, Brings

LEMMA LockFreed ==
  ASSUME RefreshInv, NEW c \in ModelCalls, Brings(c), ~AtLock(c)',
         lock' = IF lock = c THEN Nobody ELSE lock
  PROVE  LockKept'
  BY DEF RefreshInv, LockKept, AtLock, Refreshing, Brings

LEMMA StreamStep ==
  ASSUME RefreshInv, NEW c \in ModelCalls, ParseEvent(c) \/ Terminal(c) \/ Send(c)
         \/ ReadCredentials(c) \/ CredentialsFail(c)
  PROVE  RefreshInv'
<1>1. TokensKept /\ answer[c] = Fields(answer[c]) /\ lock' = lock /\ UNCHANGED <<stored, rotated>>
  BY DEF RefreshInv, TokensKept, Fields, ParseEvent, Terminal, Send, ReadCredentials,
         CredentialsFail, OnlyCall
<1>2. PICK r : answer' = [answer EXCEPT ![c] = r] /\ r = Fields(r)
               /\ r.auth \in {0, answer[c].auth, stored} /\ r.pc \notin {"check", "refresh", "blind"}
  <2>1. CASE ParseEvent(c)
    <3>1. PICK i \in DOMAIN Items :
            LET told == Events(i, answer[c].style[i])
                n == answer[c].sent[i] + 1
            IN  answer' = [answer EXCEPT ![c].sent[i] = n,
                             ![c].items = Accumulated(answer[c].items, i, told[n])]
      BY <2>1, Zenon DEF ParseEvent
    <3> DEFINE n == answer[c].sent[i] + 1
               items == Accumulated(answer[c].items, i, Events(i, answer[c].style[i])[n])
    <3>5. answer[c].pc = "stream"
      BY <2>1 DEF ParseEvent
    <3>2. PICK r : r = [answer[c] EXCEPT !.sent[i] = n, !.items = items]
      OBVIOUS
    <3>3. answer' = [answer EXCEPT ![c] = r]
      BY <1>1, <3>1, <3>2 DEF TokensKept
    <3>4. r = Fields(r) /\ r.auth = answer[c].auth /\ r.pc = "stream"
      BY <1>1, <3>2, <3>5 DEF Fields
    <3> QED BY <3>3, <3>4
  <2>2. CASE Terminal(c)
    <3>1. PICK r : /\ answer' = [answer EXCEPT ![c] = r]
                   /\ \/ \E out : r = [Waiting EXCEPT !.pc = "answered", !.out = out]
                      \/ r = [Waiting EXCEPT !.pc = "failed"]
      BY <2>2 DEF Terminal
    <3>2. r = Fields(r) /\ r.auth = 0 /\ r.pc \in {"answered", "failed"}
      BY <3>1 DEF Fields, Waiting
    <3> QED BY <3>1, <3>2
  <2>3. CASE Send(c)
    <3>1. CASE answer[c].auth > expired
      <4>1. PICK style, sent, items :
              answer' = [answer EXCEPT ![c].pc = "stream", ![c].style = style,
                                       ![c].sent = sent, ![c].items = items]
        BY <2>3, <3>1 DEF Send
      <4>2. PICK r : r = [answer[c] EXCEPT !.pc = "stream", !.style = style,
                                           !.sent = sent, !.items = items]
        OBVIOUS
      <4>3. answer' = [answer EXCEPT ![c] = r]
        BY <1>1, <4>1, <4>2 DEF TokensKept
      <4>4. r = Fields(r) /\ r.auth = answer[c].auth /\ r.pc = "stream"
        BY <1>1, <4>2 DEF Fields
      <4> QED BY <4>3, <4>4
    <3>2. CASE ~(answer[c].auth > expired) /\ answer[c].pc = "send"
      <4>1. answer' = [answer EXCEPT ![c] = [answer[c] EXCEPT !.pc = "lock"]]
        BY <2>3, <3>2 DEF Send, Go
      <4>2. PICK r : r = [answer[c] EXCEPT !.pc = "lock"]
        OBVIOUS
      <4>3. r = Fields(r) /\ r.auth = answer[c].auth /\ r.pc = "lock"
        BY <1>1, <4>2 DEF Fields
      <4> QED BY <4>1, <4>2, <4>3
    <3>3. CASE ~(answer[c].auth > expired) /\ answer[c].pc # "send"
      <4>1. PICK r : r = [Waiting EXCEPT !.pc = "failed"]
        OBVIOUS
      <4>2. r = Fields(r) /\ r.auth = 0 /\ r.pc = "failed"
        BY <4>1 DEF Fields, Waiting
      <4> QED BY <2>3, <3>3, <4>1, <4>2 DEF Send, Fails
    <3> QED BY <3>1, <3>2, <3>3
  <2>4. CASE ReadCredentials(c)
    <3>1. PICK pc \in {"resend", "send"} :
            answer' = [answer EXCEPT ![c].auth = stored, ![c].pc = pc]
      BY <2>4 DEF ReadCredentials
    <3>2. PICK r : r = [answer[c] EXCEPT !.auth = stored, !.pc = pc]
      OBVIOUS
    <3>3. answer' = [answer EXCEPT ![c] = r]
      BY <1>1, <3>1, <3>2 DEF TokensKept
    <3>4. r = Fields(r) /\ r.auth = stored /\ r.pc = pc
      BY <1>1, <3>2 DEF Fields
    <3> QED BY <3>1, <3>3, <3>4
  <2>5. CASE CredentialsFail(c)
    <3>1. PICK r : r = [Waiting EXCEPT !.pc = "failed"]
      OBVIOUS
    <3>2. r = Fields(r) /\ r.auth = 0 /\ r.pc = "failed"
      BY <3>1 DEF Fields, Waiting
    <3> QED BY <2>5, <3>1, <3>2 DEF CredentialsFail, Fails
  <2> QED BY <2>1, <2>2, <2>3, <2>4, <2>5
<1>3. Brings(c) /\ answer'[c] = r
  BY <1>1, <1>2, AnswerShape DEF Brings
<1>4. LockKept'
  BY <1>1, <1>2, <1>3, LockSame DEF AtLock, Refreshing
<1> QED BY <1>1, <1>2, <1>3, <1>4, QuietStep

LEMMA LockStep ==
  ASSUME RefreshInv, NEW c \in ModelCalls,
         TakeLock(c) \/ CheckCredentials(c) \/ CheckFails(c)
  PROVE  RefreshInv'
<1>1. TokensKept /\ UNCHANGED <<stored, rotated>>
  BY DEF RefreshInv, TakeLock, CheckCredentials, CheckFails
<1>2. CASE TakeLock(c)
  <2>1. Brings(c) /\ answer'[c].pc = "check" /\ lock = Nobody /\ lock' = c
    BY <1>1, <1>2, Going DEF TakeLock
  <2>2. LockKept'
    BY <2>1, CodexAssumption DEF RefreshInv, LockKept, AtLock, Refreshing, Brings
  <2> QED BY <1>1, <2>1, <2>2, QuietStep
<1>3. CASE CheckCredentials(c) /\ Replaced(c)
  <2>1. Brings(c) /\ answer'[c].pc = "again" /\ lock = c /\ lock' = Nobody
    BY <1>1, <1>3, Going DEF CheckCredentials, RefreshInv, LockKept, AtLock
  <2>2. LockKept'
    BY <2>1, LockFreed DEF AtLock, Refreshing
  <2> QED BY <1>1, <2>1, <2>2, QuietStep
<1>4. CASE CheckCredentials(c) /\ ~Replaced(c)
  <2>1. /\ Brings(c) /\ answer'[c].pc = "refresh" /\ answer[c].pc = "check" /\ lock' = lock
        /\ answer'[c].auth = answer[c].auth /\ answer[c].auth = stored
    BY <1>1, <1>4, Going DEF CheckCredentials, Replaced
  <2>2. \A i \in DOMAIN rotated : rotated[i].token # stored
    BY <1>1 DEF TokensKept
  <2>3. LockKept'
    BY <2>1, LockSame DEF AtLock
  <2> QED BY <1>1, <2>1, <2>2, <2>3, QuietStep
<1>5. CASE CheckFails(c)
  <2>1. Brings(c) /\ answer'[c].pc = "blind" /\ answer[c].pc = "check" /\ lock' = lock
    BY <1>1, <1>5, Going DEF CheckFails
  <2>2. LockKept'
    BY <2>1, LockSame DEF AtLock
  <2> QED BY <1>1, <2>1, <2>2, QuietStep
<1> QED BY <1>2, <1>3, <1>4, <1>5

LEMMA RefreshStep ==
  ASSUME RefreshInv, NEW c \in ModelCalls, Refresh(c) \/ Drop(c)
  PROVE  RefreshInv'
<1>1. TokensKept
  BY DEF RefreshInv
<1>2. Brings(c) /\ ~AtLock(c)' /\ ~Refreshing(c)' /\ answer'[c].pc # "refresh"
  <2>1. Go(c, "again") \/ Fails(c)
    BY DEF Refresh, Drop
  <2> QED BY <1>1, <2>1, Going, Failing DEF AtLock, Refreshing
<1>3. lock' = IF lock = c THEN Nobody ELSE lock
  BY DEF Refresh, Drop, RefreshInv, LockKept, AtLock
<1>4. LockKept'
  BY <1>2, <1>3, LockFreed
<1>5. (Refreshing(c) /\ Rotate(c)) \/ UNCHANGED <<stored, rotated>>
  BY DEF Refresh, Drop
<1> QED BY <1>2, <1>4, <1>5, RotateStep, QuietStep

LEMMA TokenStep ==
  ASSUME RefreshInv, Expire \/ Login \/ UNCHANGED codex
  PROVE  RefreshInv'
<1>1. answer' = answer /\ lock' = lock /\ rotated' = rotated /\ stored' \in {stored, stored + 1}
  BY DEF Expire, Login, codex
<1>2. LockKept'
  BY <1>1 DEF RefreshInv, LockKept, AtLock, Refreshing
<1>3. stored \in Nat /\ stored' \in Nat /\ stored <= stored'
  BY <1>1 DEF RefreshInv, TokensKept
<1>4. \A c \in ModelCalls : answer'[c].auth \in 0..stored'
  BY <1>1, <1>3 DEF RefreshInv, TokensKept
<1>5. \A i \in DOMAIN rotated : rotated[i].token < stored'
  <2>1. \A i \in DOMAIN rotated : rotated[i].token \in Nat /\ rotated[i].token < stored
    <3>1. \A i \in DOMAIN rotated : rotated[i] \in Replacements
      BY DEF RefreshInv, TokensKept
    <3> QED BY <3>1 DEF RefreshInv, TokensKept, Replacements
  <2> QED BY <1>3, <2>1
<1> QED BY <1>1, <1>2, <1>3, <1>4, <1>5 DEF RefreshInv, TokensKept, RefreshedOnce

(* The strengthening holds for any number of calls, logins and failures.       *)
THEOREM RefreshInvariant == CodexSpec => []RefreshInv
<1>1. CodexInit => RefreshInv
  <2> SUFFICES ASSUME CodexInit PROVE RefreshInv
    OBVIOUS
  <2>1. /\ \A c \in ModelCalls : answer[c] = Waiting
        /\ stored = 1 /\ rotated = <<>> /\ lock = Nobody
    BY DEF CodexInit
  <2>2. Waiting = Fields(Waiting) /\ Waiting.pc = "credentials" /\ Waiting.auth = 0
    BY DEF Waiting, Fields
  <2>3. rotated \in Seq(Replacements) /\ DOMAIN rotated = {}
    BY <2>1
  <2>4. answer = [c \in ModelCalls |-> Fields(answer[c])]
    BY <2>1, <2>2 DEF CodexInit
  <2>5. LockKept
    BY <2>1, <2>2 DEF LockKept, AtLock, Refreshing
  <2>6. stored \in Nat /\ \A c \in ModelCalls : answer[c].auth \in 0..stored
    BY <2>1, <2>2
  <2> QED BY <2>3, <2>4, <2>5, <2>6 DEF RefreshInv, TokensKept, RefreshedOnce, Fields
<1>2. RefreshInv /\ [CodexNext]_codex => RefreshInv'
  BY StreamStep, LockStep, RefreshStep, TokenStep DEF CodexNext
<1> QED BY <1>1, <1>2, PTL DEF CodexSpec

(* Calls that meet at the refresh lock (codex.rs, refresh_credentials) replace  *)
(* a rejected token once, unless the look a later one takes at the file fails   *)
(* (codex.rs:178-183): that one has replaced whatever the file holds.          *)
THEOREM TokensReplacedOnce == CodexSpec => []RefreshedOnce
<1>1. RefreshInv => RefreshedOnce
  BY DEF RefreshInv
<1> QED BY <1>1, RefreshInvariant, PTL

-----------------------------------------------------------------------------
(* Imports.                                                                    *)

ImportKept == RunsKept /\ MarkersKept /\ TaskKept /\ PartsKept /\ ImportWhole

LEMMA NoRecord == \A b : None # Capture(b) /\ None # NewRun(b) /\ None # Edited
  BY DEF None, Capture, NewRun, Edited

LEMMA NotResumable == \A r : ResumableReceipt(r) <=> r \notin {"external", "moved"}
  BY DEF ResumableReceipt, SealedCall, PatchSettled

\* Every session of a marked import is in Marked.
LEMMA MarkedMembers ==
  ASSUME NEW s
  PROVE  (\A b \in Marked : b.id # s) <=>
           \A m \in markers : m.phase = "marked" => \A b \in m.bundles : b.id # s
  BY DEF Marked

LEMMA ImportUnmoved ==
  ASSUME ImportKept, UNCHANGED <<runs, parts, markers>>, tasks' \in {tasks, tasks + 1},
         \/ UNCHANGED <<svc, task>>
         \/ task' = NoTask
  PROVE  ImportKept'
<1>1. tasks \in Nat /\ tasks' \in Nat /\ tasks <= tasks'
  BY DEF ImportKept, MarkersKept
<1>2. MarkersKept'
  <2>1. \A m \in markers : m.name \in Nat /\ m.name < tasks'
    <3>1. \A m \in markers : m.name \in Nat /\ m.name < tasks
      BY DEF ImportKept, MarkersKept
    <3> QED BY <1>1, <3>1
  <2> QED BY <1>1, <2>1 DEF ImportKept, MarkersKept
<1>3. TaskKept'
  BY DEF ImportKept, TaskKept, Marks, NoTask
<1>4. RunsKept' /\ PartsKept' /\ ImportWhole'
  BY DEF ImportKept, RunsKept, RunShaped, PartsKept, ImportWhole, Marked
<1> QED BY <1>2, <1>3, <1>4 DEF ImportKept

LEMMA BeginImportKeeps ==
  ASSUME ImportKept, TargetsKept, NEW bundles \in Archives, BeginImport(bundles)
  PROVE  ImportKept'
<1> DEFINE pending == bundles \ Existing(bundles)
<1>1. \A b \in bundles : b.id \in Sessions
  BY ArchivesAssumption DEF Archives, BeginImport, ValidateBundle, TargetsKept, Exported
<1>2. \A s \in Sessions : \/ runs'[s] = runs[s]
                          \/ /\ runs[s] # None
                             /\ runs'[s] = [runs[s] EXCEPT !.blocked = Refreshed(@)]
  BY DEF BeginImport, Existing
<1>3. RunsKept'
  <2>1. ASSUME NEW s \in Sessions, runs[s] # None,
               runs'[s] = [runs[s] EXCEPT !.blocked = Refreshed(@)]
        PROVE  /\ runs'[s] # None /\ runs'[s].origin = runs[s].origin
               /\ runs'[s] = [rev |-> runs'[s].rev, receipt |-> runs'[s].receipt,
                              origin |-> runs'[s].origin, blocked |-> runs'[s].blocked]
               /\ "effect" \in runs[s].blocked => "effect" \in runs'[s].blocked
    <3>1. PICK rev, effect, origin, blocked :
            runs[s] = [rev |-> rev, receipt |-> effect, origin |-> origin, blocked |-> blocked]
      BY <2>1 DEF ImportKept, RunsKept, RunShaped
    <3>2. runs'[s] = [rev |-> rev, receipt |-> effect, origin |-> origin,
                      blocked |-> Refreshed(blocked)]
      BY <2>1, <3>1
    <3>3. "effect" \in blocked => "effect" \in Refreshed(blocked)
      BY DEF Refreshed
    <3> QED BY <3>1, <3>2, <3>3 DEF None
  <2>2. runs' = [s \in Sessions |-> runs'[s]]
    BY DEF BeginImport
  <2>3. ASSUME NEW s \in Sessions, runs'[s] # None
        PROVE  /\ runs'[s] = [rev |-> runs'[s].rev, receipt |-> runs'[s].receipt,
                              origin |-> runs'[s].origin, blocked |-> runs'[s].blocked]
               /\ runs'[s].origin # None /\ ~ResumableReceipt(runs'[s].origin.receipt) =>
                    "effect" \in runs'[s].blocked
    BY <1>2, <2>1, <2>3 DEF ImportKept, RunsKept, RunShaped
  <2> QED BY <2>2, <2>3 DEF RunsKept, RunShaped, ResumableReceipt, SealedCall, PatchSettled
<1>4. \A s \in Sessions : runs'[s] = None <=> runs[s] = None
  <2>1. ASSUME NEW s \in Sessions, runs[s] # None,
               runs'[s] = [runs[s] EXCEPT !.blocked = Refreshed(@)]
        PROVE  runs'[s] # None
    <3>1. PICK rev, effect, origin, blocked :
            runs[s] = [rev |-> rev, receipt |-> effect, origin |-> origin, blocked |-> blocked]
      BY <2>1 DEF ImportKept, RunsKept, RunShaped
    <3> QED BY <2>1, <3>1 DEF None
  <2> QED BY <1>2, <2>1
<1>5. task.pc = "none" /\ svc = "serving" /\ svc' = svc /\ parts' = parts /\ tasks' = tasks + 1
  BY DEF BeginImport, NoTask
<1>6. tasks \in Nat /\ tasks' \in Nat /\ tasks < tasks'
  BY <1>5 DEF ImportKept, MarkersKept
<1>7. CASE markers' = markers /\ task' = task
  <2>1. MarkersKept'
    <3>1. \A m \in markers : m.name \in Nat /\ m.name < tasks
      BY DEF ImportKept, MarkersKept
    <3>2. \A m \in markers : m.name \in Nat /\ m.name < tasks'
      BY <1>6, <3>1
    <3> QED BY <1>6, <1>7, <3>2 DEF ImportKept, MarkersKept
  <2>2. TaskKept'
    BY <1>5, <1>7 DEF TaskKept
  <2>3. ImportWhole' /\ PartsKept'
    BY <1>4, <1>5, <1>7 DEF ImportKept, ImportWhole, Marked, PartsKept
  <2> QED BY <1>3, <2>1, <2>2, <2>3 DEF ImportKept
<1>8. CASE ~(markers' = markers /\ task' = task)
  <2>1. PICK n : n = [name |-> tasks, phase |-> "pending", bundles |-> pending]
    OBVIOUS
  <2>2. /\ markers' = markers \cup {n}
        /\ task' = [pc |-> "mark", name |-> tasks, bundles |-> pending]
    BY <1>8, <2>1 DEF BeginImport
  <2>3. n.name = tasks /\ n.phase = "pending" /\ n.bundles = pending
        /\ n = [name |-> n.name, phase |-> n.phase, bundles |-> n.bundles]
    BY <2>1
  <2>4. \A m \in markers : m.name \in Nat /\ m.name < tasks /\ m.name < tasks'
    <3>1. \A m \in markers : m.name \in Nat /\ m.name < tasks
      BY DEF ImportKept, MarkersKept
    <3> QED BY <1>6, <3>1
  <2>5. \A m \in markers : m.name # n.name
    BY <1>6, <2>3, <2>4
  <2>6. MarkersKept'
    <3>1. \A m \in markers' :
            /\ m = [name |-> m.name, phase |-> m.phase, bundles |-> m.bundles]
            /\ m.name \in Nat /\ m.name < tasks'
            /\ \A b \in m.bundles : b.id \in Sessions
      BY <1>1, <1>6, <2>2, <2>3, <2>4 DEF ImportKept, MarkersKept
    <3>2. \A m, k \in markers' : m.name = k.name => m = k
      BY <2>2, <2>5 DEF ImportKept, MarkersKept
    <3> QED BY <1>6, <3>1, <3>2 DEF MarkersKept
  <2>7. TaskKept'
    <3>1. task' = [pc |-> task'.pc, name |-> task'.name, bundles |-> task'.bundles]
          /\ task'.pc = "mark" /\ n \in markers' /\ n.name = task'.name /\ n.bundles = task'.bundles
      BY <2>2, <2>3
    <3> QED BY <1>5, <3>1 DEF TaskKept, Marks
  <2>8. \A s : (\A b \in Marked' : b.id # s) => (\A b \in Marked : b.id # s)
    BY <2>2 DEF Marked
  <2>9. ImportWhole' /\ PartsKept'
    BY <1>4, <1>5, <2>8 DEF ImportKept, ImportWhole, PartsKept
  <2> QED BY <1>3, <2>6, <2>7, <2>9 DEF ImportKept
<1> QED BY <1>7, <1>8

LEMMA MarkKeeps ==
  ASSUME ImportKept, Mark
  PROVE  ImportKept'
<1> DEFINE Signed(m) == IF m.name = task.name THEN [m EXCEPT !.phase = "marked"] ELSE m
<1>1. /\ UNCHANGED <<runs, parts, svc, tasks>> /\ task.pc = "mark"
      /\ task' = [task EXCEPT !.pc = "install"]
      /\ markers' = {Signed(m) : m \in markers}
  BY DEF Mark
<1>2. \A m \in markers :
        /\ Signed(m) = [name |-> m.name, phase |-> Signed(m).phase, bundles |-> m.bundles]
        /\ m.name = task.name => Signed(m).phase = "marked"
        /\ m.phase = "marked" => Signed(m).phase = "marked"
  <2>1. ASSUME NEW m \in markers
        PROVE  /\ Signed(m) = [name |-> m.name, phase |-> Signed(m).phase, bundles |-> m.bundles]
               /\ m.name = task.name => Signed(m).phase = "marked"
               /\ m.phase = "marked" => Signed(m).phase = "marked"
    <3>1. PICK name, phase, bundles : m = [name |-> name, phase |-> phase, bundles |-> bundles]
      BY DEF ImportKept, MarkersKept
    <3>2. CASE m.name = task.name
      <4>1. Signed(m) = [name |-> name, phase |-> "marked", bundles |-> bundles]
        BY <3>1, <3>2
      <4> QED BY <3>1, <4>1
    <3>3. CASE m.name # task.name
      BY <3>1, <3>3
    <3> QED BY <3>2, <3>3
  <2> QED BY <2>1
<1>3. \A m \in markers : Signed(m).name = m.name /\ Signed(m).bundles = m.bundles
  BY <1>2
<1> HIDE DEF Signed
<1>4. MarkersKept'
  <2>1. \A m \in markers' :
          /\ m = [name |-> m.name, phase |-> m.phase, bundles |-> m.bundles]
          /\ m.name \in Nat /\ m.name < tasks'
          /\ \A b \in m.bundles : b.id \in Sessions
    BY <1>1, <1>2, <1>3 DEF ImportKept, MarkersKept
  <2>2. \A m, n \in markers' : m.name = n.name => m = n
    BY <1>1, <1>3 DEF ImportKept, MarkersKept
  <2> QED BY <1>1, <2>1, <2>2 DEF ImportKept, MarkersKept
<1>5. TaskKept'
  <2>1. PICK pc, name, bundles : task = [pc |-> pc, name |-> name, bundles |-> bundles]
    BY <1>1 DEF ImportKept, TaskKept
  <2>2. task' = [pc |-> "install", name |-> name, bundles |-> bundles]
    BY <1>1, <2>1
  <2>3. PICK m \in markers : m.name = name /\ m.bundles = bundles
    BY <1>1, <2>1 DEF ImportKept, TaskKept, Marks
  <2>4. /\ Signed(m) \in markers' /\ Signed(m).phase = "marked"
        /\ Signed(m).name = task'.name /\ Signed(m).bundles = task'.bundles
    BY <1>1, <1>2, <1>3, <2>1, <2>2, <2>3
  <2>5. svc # "recovering"
    BY <1>1 DEF ImportKept, TaskKept
  <2> QED BY <1>1, <2>2, <2>4, <2>5 DEF TaskKept, Marks
<1>6. \A s : (\A b \in Marked' : b.id # s) => (\A b \in Marked : b.id # s)
  BY <1>1, <1>2, <1>3 DEF Marked
<1>7. RunsKept' /\ PartsKept' /\ ImportWhole'
  BY <1>1, <1>6 DEF ImportKept, RunsKept, RunShaped, PartsKept, ImportWhole
<1> QED BY <1>4, <1>5, <1>7 DEF ImportKept

\* Parts are written for a marked import only.
LEMMA InstallKeeps ==
  ASSUME ImportKept, Install
  PROVE  ImportKept'
<1>1. PICK b \in task.bundles : \E p \in AllParts : parts' = [parts EXCEPT ![b.id] = @ \cup {p}]
  BY DEF Install
<1>2. UNCHANGED <<runs, markers, svc, task, tasks>> /\ task.pc = "install"
  BY DEF Install
<1>3. PICK m \in markers : m.bundles = task.bundles /\ m.phase = "marked"
  BY <1>2 DEF ImportKept, TaskKept, Marks
<1>4. b.id \in Sessions
  BY <1>3 DEF ImportKept, MarkersKept
<1>5. PartsKept' /\ \A s \in Sessions : parts[s] \subseteq parts'[s] /\ parts[s] \subseteq AllParts
  BY <1>1, <1>4 DEF ImportKept, PartsKept
<1>6. \A s \in Sessions \ {b.id} : parts'[s] = parts[s]
  BY <1>1, <1>4 DEF ImportKept, PartsKept
<1>7. b \in Marked
  BY <1>3 DEF Marked
<1>8. ImportWhole'
  <2>1. ASSUME NEW s \in Sessions, runs[s] # None PROVE parts'[s] = AllParts
    <3>1. parts[s] = AllParts
      BY <2>1 DEF ImportKept, ImportWhole
    <3> QED BY <1>5, <3>1 DEF PartsKept
  <2>2. Marked' = Marked
    BY <1>2 DEF Marked
  <2>3. ASSUME NEW s \in Sessions, runs[s] = None, \A c \in Marked : c.id # s
        PROVE  parts'[s] = {}
    BY <1>6, <1>7, <2>3 DEF ImportKept, ImportWhole
  <2> QED BY <1>2, <2>1, <2>2, <2>3 DEF ImportWhole
<1>9. RunsKept' /\ MarkersKept' /\ TaskKept'
  BY <1>2 DEF ImportKept, RunsKept, RunShaped, MarkersKept, TaskKept, Marks
<1> QED BY <1>5, <1>8, <1>9 DEF ImportKept

LEMMA CommitKeeps ==
  ASSUME ImportKept, Commit
  PROVE  ImportKept'
<1>1. /\ UNCHANGED <<parts, markers, svc, tasks>> /\ task.pc = "install"
      /\ task' = [task EXCEPT !.pc = "unmark"]
      /\ \A b \in task.bundles : parts[b.id] = AllParts
  BY DEF Commit
<1>2. PICK pc, name, bundles : task = [pc |-> pc, name |-> name, bundles |-> bundles]
  BY <1>1 DEF ImportKept, TaskKept
<1>3. task' = [pc |-> "unmark", name |-> name, bundles |-> bundles]
  BY <1>1, <1>2
<1>4. PICK m \in markers : m.name = name /\ m.bundles = bundles /\ m.phase = "marked"
  BY <1>1, <1>2 DEF ImportKept, TaskKept, Marks
<1>5. \A b \in bundles : b.id \in Sessions /\ parts[b.id] = AllParts
  BY <1>1, <1>2, <1>4 DEF ImportKept, MarkersKept
<1>6. runs' = [s \in Sessions |-> IF \E b \in bundles : b.id = s
                 THEN NewRun(CHOOSE b \in bundles : b.id = s) ELSE runs[s]]
  BY <1>2 DEF Commit
<1>7. \A b \in bundles : runs'[b.id] # None
  BY <1>5, <1>6, NoRecord
<1>8. ASSUME NEW b
      PROVE  /\ NewRun(b) = [rev |-> NewRun(b).rev, receipt |-> NewRun(b).receipt,
                             origin |-> NewRun(b).origin, blocked |-> NewRun(b).blocked]
             /\ ~ResumableReceipt(NewRun(b).origin.receipt) => "effect" \in NewRun(b).blocked
  <2>1. PICK rev, blocked :
          /\ NewRun(b) = [rev |-> rev, receipt |-> b.receipt, origin |-> b, blocked |-> blocked]
          /\ blocked = Refreshed(ResumeDiagnostics(b))
    BY DEF NewRun
  <2>2. ~ResumableReceipt(b.receipt) => "effect" \in blocked
    BY <2>1 DEF Refreshed, ResumeDiagnostics, EffectDiagnostics
  <2> QED BY <2>1, <2>2
<1>9. RunsKept'
  <2>1. ASSUME NEW s \in Sessions, runs'[s] # None
        PROVE  /\ runs'[s] = [rev |-> runs'[s].rev, receipt |-> runs'[s].receipt,
                              origin |-> runs'[s].origin, blocked |-> runs'[s].blocked]
               /\ runs'[s].origin # None /\ ~ResumableReceipt(runs'[s].origin.receipt) =>
                    "effect" \in runs'[s].blocked
    <3>1. runs'[s] = runs[s] \/ \E b : runs'[s] = NewRun(b)
      BY <1>6
    <3>2. CASE runs'[s] = runs[s]
      BY <2>1, <3>2 DEF ImportKept, RunsKept, RunShaped
    <3>3. CASE \E b : runs'[s] = NewRun(b)
      <4>1. PICK b : runs'[s] = NewRun(b)
        BY <3>3
      <4> QED BY <1>8, <4>1
    <3> QED BY <3>1, <3>2, <3>3
  <2>2. runs' = [s \in Sessions |-> runs'[s]]
    BY <1>6
  <2> QED BY <2>1, <2>2 DEF RunsKept, RunShaped, ResumableReceipt, SealedCall, PatchSettled
<1>10. TaskKept'
  <2>1. svc # "recovering"
    BY <1>1 DEF ImportKept, TaskKept
  <2>2. /\ task'.pc = "unmark" /\ m.name = task'.name /\ m.bundles = task'.bundles
        /\ task' = [pc |-> task'.pc, name |-> task'.name, bundles |-> task'.bundles]
        /\ \A b \in task'.bundles : runs'[b.id] # None
    BY <1>3, <1>4, <1>7
  <2> QED BY <1>1, <1>4, <2>1, <2>2 DEF TaskKept, Marks
<1>11. ImportWhole'
  <2>1. \A s \in Sessions : runs'[s] # None => parts[s] = AllParts
    BY <1>5, <1>6 DEF ImportKept, ImportWhole
  <2>2. \A s \in Sessions : runs'[s] = None => runs[s] = None
    BY <1>6, NoRecord
  <2> QED BY <1>1, <2>1, <2>2 DEF ImportKept, ImportWhole, Marked
<1>12. MarkersKept' /\ PartsKept'
  BY <1>1 DEF ImportKept, MarkersKept, PartsKept
<1> QED BY <1>9, <1>10, <1>11, <1>12 DEF ImportKept

\* A marker goes when none of its sessions needs it.
LEMMA MarkersGo ==
  ASSUME ImportKept, UNCHANGED <<runs, parts, svc, tasks>>, markers' \subseteq markers,
         \A m \in markers \ markers' : m.phase = "marked" =>
           \A b \in m.bundles : runs[b.id] # None \/ parts[b.id] = {},
         (task'.pc = "none" \/ (task' = task /\ Recovering))
  PROVE  ImportKept'
<1>1. MarkersKept'
  BY DEF ImportKept, MarkersKept
<1>2. TaskKept'
  BY DEF ImportKept, TaskKept, Recovering
<1>3. ASSUME NEW s \in Sessions, runs[s] = None, \A b \in Marked' : b.id # s
      PROVE  parts[s] = {}
  <2>1. CASE \A b \in Marked : b.id # s
    BY <1>3, <2>1 DEF ImportKept, ImportWhole
  <2>2. CASE ~(\A b \in Marked : b.id # s)
    <3>1. PICK m \in markers : m.phase = "marked" /\ \E b \in m.bundles : b.id = s
      BY <2>2 DEF Marked
    <3>2. m \notin markers'
      BY <1>3, <3>1 DEF Marked
    <3> QED BY <1>3, <3>1, <3>2
  <2> QED BY <2>1, <2>2
<1>4. ImportWhole'
  BY <1>3 DEF ImportKept, ImportWhole
<1>5. RunsKept' /\ PartsKept'
  BY DEF ImportKept, RunsKept, RunShaped, PartsKept
<1> QED BY <1>1, <1>2, <1>4, <1>5 DEF ImportKept

LEMMA UnmarkKeeps ==
  ASSUME ImportKept, Unmark
  PROVE  ImportKept'
<1>1. UNCHANGED <<runs, parts, svc, tasks>> /\ task' = NoTask /\ task.pc = "unmark"
      /\ markers' \in {markers, {m \in markers : m.name # task.name}}
  BY DEF Unmark
<1>2. PICK n \in markers : n.name = task.name /\ n.bundles = task.bundles
  BY <1>1 DEF ImportKept, TaskKept, Marks
<1>3. \A b \in n.bundles : runs[b.id] # None
  BY <1>1, <1>2 DEF ImportKept, TaskKept
<1>4. \A m \in markers : m.name = task.name => m = n
  BY <1>2 DEF ImportKept, MarkersKept
<1>5. \A m \in markers \ markers' : m = n
  BY <1>1, <1>4
<1> QED BY <1>1, <1>3, <1>5, MarkersGo DEF NoTask

\* Recovery erases what is of no session.
LEMMA EraseKeeps ==
  ASSUME ImportKept, NEW n \in markers, Erase(n)
  PROVE  ImportKept'
<1>1. PICK b \in n.bundles : \E p : parts' = [parts EXCEPT ![b.id] = @ \ {p}]
  BY DEF Erase
<1>2. UNCHANGED <<runs, markers, svc, task, tasks>> /\ runs[b.id] = None
  BY DEF Erase, Committed
<1>3. b.id \in Sessions
  BY DEF ImportKept, MarkersKept
<1>4. PartsKept' /\ parts'[b.id] \subseteq parts[b.id]
      /\ \A s \in Sessions \ {b.id} : parts'[s] = parts[s]
  BY <1>1, <1>3 DEF ImportKept, PartsKept
<1>5. ImportWhole'
  <2>1. ASSUME NEW s \in Sessions, runs[s] # None PROVE parts'[s] = AllParts
    BY <1>2, <1>4, <2>1 DEF ImportKept, ImportWhole
  <2>2. ASSUME NEW s \in Sessions, runs[s] = None, parts[s] = {} PROVE parts'[s] = {}
    BY <1>4, <2>2
  <2>3. Marked' = Marked
    BY <1>2 DEF Marked
  <2> QED BY <1>2, <2>1, <2>2, <2>3 DEF ImportKept, ImportWhole
<1>6. RunsKept' /\ MarkersKept' /\ TaskKept'
  BY <1>2 DEF ImportKept, RunsKept, RunShaped, MarkersKept, TaskKept, Marks
<1> QED BY <1>4, <1>5, <1>6 DEF ImportKept

LEMMA RecoveryKeeps ==
  ASSUME ImportKept, DropPending \/ EndRecovery \/ Serve \/ Fail
                     \/ \E m \in markers : DropMarker(m)
  PROVE  ImportKept'
<1>1. CASE DropPending
  BY <1>1, MarkersGo DEF DropPending
<1>2. CASE \E m \in markers : DropMarker(m)
  <2>1. PICK n \in markers : DropMarker(n)
    BY <1>2
  <2>2. \A b \in n.bundles : runs[b.id] # None \/ parts[b.id] = {}
    BY <2>1 DEF DropMarker, MarkerDone, Committed
  <2>3. /\ UNCHANGED <<runs, parts, svc, tasks, task>> /\ Recovering /\ markers' \subseteq markers
        /\ \A m \in markers \ markers' : m = n
    BY <2>1 DEF DropMarker
  <2> QED BY <2>2, <2>3, MarkersGo
<1>3. CASE EndRecovery
  BY <1>3, ImportUnmoved DEF EndRecovery, db
<1>4. CASE Serve \/ Fail
  <2>1. UNCHANGED <<runs, parts, markers, tasks>>
    BY <1>4 DEF Serve, Fail, db
  <2>2. TaskKept'
    BY <1>4 DEF Serve, Fail, ImportKept, TaskKept, db, Marks
  <2>3. RunsKept' /\ PartsKept' /\ ImportWhole' /\ MarkersKept'
    BY <2>1 DEF ImportKept, RunsKept, RunShaped, PartsKept, ImportWhole, Marked, MarkersKept
  <2> QED BY <2>2, <2>3 DEF ImportKept
<1> QED BY <1>1, <1>2, <1>3, <1>4

\* A session that goes on was not blocked, and stays as free to go on.
LEMMA AppendKeeps ==
  ASSUME ImportKept, UncertainNotResumed, NEW s \in Sessions, AppendEvent(s)
  PROVE  ImportKept' /\ UncertainNotResumed'
<1>1. /\ UNCHANGED <<parts, markers, svc, task, tasks>> /\ runs[s] # None
      /\ runs[s].blocked = {}
  BY DEF AppendEvent, ResumeAllowed
<1>2. runs[s].origin = None \/ runs[s].origin.receipt \notin {"external", "moved"}
  BY <1>1, NotResumable DEF ImportKept, RunsKept
<1>3. UncertainNotResumed'
  BY <1>2 DEF AppendEvent, UncertainNotResumed
<1>4. PICK rev, effect, origin, blocked :
        runs[s] = [rev |-> rev, receipt |-> effect, origin |-> origin, blocked |-> blocked]
  BY <1>1 DEF ImportKept, RunsKept, RunShaped
<1>5. runs' = runs \/ \E n, r : runs' = [runs EXCEPT ![s].rev = n, ![s].receipt = r]
  BY DEF AppendEvent
<1>6. CASE runs' = runs
  BY <1>1, <1>3, <1>6, ImportUnmoved
<1>7. CASE runs' # runs
  <2>1. PICK n, r : runs' = [runs EXCEPT ![s].rev = n, ![s].receipt = r]
    BY <1>5, <1>7
  <2>2. /\ runs'[s] = [rev |-> n, receipt |-> r, origin |-> origin, blocked |-> blocked]
        /\ \A v \in Sessions \ {s} : runs'[v] = runs[v]
        /\ runs' = [v \in Sessions |-> runs'[v]]
    <3>1. runs = [v \in Sessions |-> runs[v]]
      BY DEF ImportKept, RunsKept
    <3>2. DOMAIN runs = Sessions
      BY <3>1
    <3>3. runs' = [v \in Sessions |-> runs'[v]]
      BY <2>1, <3>2
    <3>4. runs' = [runs EXCEPT ![s] = [runs[s] EXCEPT !.rev = n, !.receipt = r]]
      BY <2>1, <3>2
    <3>5. \A v \in Sessions \ {s} : runs'[v] = runs[v]
      BY <3>2, <3>4
    <3>6. runs'[s] = [runs[s] EXCEPT !.rev = n, !.receipt = r]
      BY <3>2, <3>4
    <3>7. runs'[s] = [rev |-> n, receipt |-> r, origin |-> origin, blocked |-> blocked]
      <4>1. PICK q, p : q = runs[s] /\ p = runs'[s]
        OBVIOUS
      <4>2. p = [q EXCEPT !.rev = n, !.receipt = r]
        BY <3>6, <4>1
      <4>3. q = [rev |-> rev, receipt |-> effect, origin |-> origin, blocked |-> blocked]
        BY <1>4, <4>1
      <4>4. p = [rev |-> n, receipt |-> r, origin |-> origin, blocked |-> blocked]
        BY ONLY <4>2, <4>3
      <4> QED BY <4>1, <4>4
    <3> QED BY <3>3, <3>5, <3>7
  <2>3. \A v \in Sessions : runs'[v] = None <=> runs[v] = None
    BY <1>1, <2>2 DEF None
  <2>4. RunsKept'
    <3>1. ASSUME NEW v \in Sessions, runs'[v] # None
          PROVE  /\ runs'[v] = [rev |-> runs'[v].rev, receipt |-> runs'[v].receipt,
                                origin |-> runs'[v].origin, blocked |-> runs'[v].blocked]
                 /\ runs'[v].origin # None /\ ~ResumableReceipt(runs'[v].origin.receipt) =>
                      "effect" \in runs'[v].blocked
      <4>1. CASE v = s
        BY <1>1, <1>2, <1>4, <2>2, <4>1, NotResumable
      <4>2. CASE v # s
        BY <2>2, <2>3, <3>1, <4>2 DEF ImportKept, RunsKept, RunShaped
      <4> QED BY <4>1, <4>2
    <3> QED BY <2>2, <3>1 DEF RunsKept, RunShaped, ResumableReceipt, SealedCall, PatchSettled
  <2>5. MarkersKept' /\ PartsKept'
    BY <1>1 DEF ImportKept, MarkersKept, PartsKept
  <2>6. ImportWhole'
    BY <1>1, <2>3 DEF ImportKept, ImportWhole, Marked
  <2>7. TaskKept'
    <3>1. task.pc = "none"
      BY DEF AppendEvent, NoTask
    <3> QED BY <1>1, <3>1 DEF TaskKept
  <2> QED BY <1>3, <2>4, <2>5, <2>6, <2>7 DEF ImportKept
<1> QED BY <1>6, <1>7

-----------------------------------------------------------------------------
(* Exports.                                                                    *)

ExportsKept == TargetsKept /\ ExportKept

LEMMA ExportUnmoved ==
  ASSUME ExportsKept, UNCHANGED disk, export' = export \/ export' = NoTask
  PROVE  ExportsKept'
  BY DEF ExportsKept, TargetsKept, ExportKept, ExportShaped, Exported, Replacing, NoTask, disk

LEMMA ExportSteps ==
  ASSUME ExportsKept, NEW pc,
         export.pc # "none", export' = [export EXCEPT !.pc = pc]
  PROVE  /\ export'.pc = pc /\ export'.id = export.id /\ export'.bundle = export.bundle
         /\ export'.old = export.old /\ ExportShaped'
<1>1. export = [pc |-> export.pc, id |-> export.id, bundle |-> export.bundle,
                old |-> export.old]
  BY DEF ExportsKept, TargetsKept, ExportShaped
<1>2. export' = [pc |-> pc, id |-> export.id, bundle |-> export.bundle, old |-> export.old]
  BY <1>1
<1> QED BY <1>2 DEF ExportsKept, TargetsKept, ExportShaped, Exported

LEMMA BeginExportKeeps ==
  ASSUME ExportsKept, NEW s \in Sessions, BeginExport(s)
  PROVE  ExportsKept'
<1>1. PICK b : b = Capture(s)
  OBVIOUS
<1>2. /\ export' = [pc |-> "check", id |-> s, bundle |-> b, old |-> None] /\ UNCHANGED disk
      /\ b # None /\ b.id = s
  BY <1>1, NoRecord DEF BeginExport, Capture
<1>3. ExportShaped' /\ export'.pc = "check"
  BY <1>2 DEF ExportShaped, Exported
<1> QED BY <1>2, <1>3 DEF ExportsKept, TargetsKept, ExportKept, Exported, disk

LEMMA CheckTargetKeeps ==
  ASSUME ExportsKept, CheckTarget
  PROVE  ExportsKept'
<1>1. UNCHANGED disk /\ export.pc = "check" /\ ExportShaped
  BY DEF CheckTarget, ExportsKept, TargetsKept
<1>2. PICK s \in Sessions : s = export.id
  BY <1>1 DEF ExportShaped
<1>3. CASE target[s] = None
  <2>1. export' = [export EXCEPT !.pc = "place"]
    BY <1>2, <1>3 DEF CheckTarget
  <2>2. export'.pc = "place" /\ ExportShaped'
    BY <1>1, <2>1, ExportSteps
  <2> QED BY <1>1, <2>2 DEF ExportsKept, TargetsKept, ExportKept, Exported, disk
<1>4. CASE target[s] # None /\ target[s] # Edited
  <2>1. export' = [export EXCEPT !.pc = "move"]
    BY <1>2, <1>4 DEF CheckTarget, ValidateBundle
  <2>2. export'.pc = "move" /\ ExportShaped' /\ export'.id = s
    BY <1>1, <1>2, <2>1, ExportSteps
  <2>3. Exported(target[s])
    BY <1>4 DEF ExportsKept, TargetsKept
  <2>4. Replacing(target[export.id])'
    BY <1>1, <1>4, <2>2, <2>3 DEF Replacing, Exported, disk
  <2> QED BY <1>1, <2>2, <2>4 DEF ExportsKept, TargetsKept, ExportKept, Exported, disk
<1>5. CASE target[s] = Edited
  <2>1. export' = NoTask
    BY <1>2, <1>5, NoRecord DEF CheckTarget, ValidateBundle
  <2> QED BY <1>1, <2>1, ExportUnmoved
<1> QED BY <1>3, <1>4, <1>5

LEMMA MoveTargetKeeps ==
  ASSUME ExportsKept, MoveTarget
  PROVE  ExportsKept'
<1>1. /\ UNCHANGED <<late, lost, exported>> /\ export.pc = "move" /\ ExportShaped
      /\ Replacing(target[export.id])
  BY DEF MoveTarget, ExportsKept, TargetsKept
<1>2. PICK s \in Sessions : s = export.id
  BY <1>1 DEF ExportShaped
<1>3. PICK old : old = target[s]
  OBVIOUS
<1>4. /\ backup' = [backup EXCEPT ![s] = @ \cup {old}] /\ target' = [target EXCEPT ![s] = None]
      /\ export' = [export EXCEPT !.pc = "replace", !.old = old]
  BY <1>2, <1>3 DEF MoveTarget
<1>5. export' = [pc |-> "replace", id |-> s, bundle |-> export.bundle, old |-> old]
  <2>1. export = [pc |-> export.pc, id |-> s, bundle |-> export.bundle, old |-> export.old]
    BY <1>1, <1>2 DEF ExportShaped
  <2>2. PICK pc, bundle, was : export = [pc |-> pc, id |-> s, bundle |-> bundle, old |-> was]
                               /\ bundle = export.bundle
    BY <2>1
  <2>3. PICK q, p : q = export /\ p = export'
    OBVIOUS
  <2>4. p = [q EXCEPT !.pc = "replace", !.old = old]
    BY <1>4, <2>3
  <2>5. q = [pc |-> pc, id |-> s, bundle |-> bundle, old |-> was]
    BY <2>2, <2>3
  <2>6. p = [pc |-> "replace", id |-> s, bundle |-> bundle, old |-> old]
    BY ONLY <2>4, <2>5
  <2> QED BY <2>2, <2>3, <2>6
<1>6. /\ target'[s] = None /\ \A v \in Sessions \ {s} : target'[v] = target[v]
      /\ old \in backup'[s] /\ \A v \in Sessions \ {s} : backup'[v] = backup[v]
      /\ target' = [v \in Sessions |-> target'[v]] /\ backup' = [v \in Sessions |-> backup'[v]]
  BY <1>4 DEF ExportsKept, TargetsKept
<1>7. ExportShaped' /\ export'.pc = "replace" /\ export'.id = s /\ export'.old = old
  BY <1>1, <1>5 DEF ExportShaped, Exported
<1>8. Replacing(export.old)'
  BY <1>1, <1>2, <1>3, <1>7 DEF Replacing, Exported
<1>9. TargetsKept'
  BY <1>6, <1>7, <1>8 DEF ExportsKept, TargetsKept, Exported
<1>10. ExportKept'
  BY <1>1, <1>6 DEF ExportsKept, ExportKept
<1> QED BY <1>9, <1>10 DEF ExportsKept

LEMMA PlaceTargetKeeps ==
  ASSUME ExportsKept, PlaceTarget
  PROVE  ExportsKept'
<1>1. /\ UNCHANGED <<late, lost>> /\ export.pc \in {"place", "replace"} /\ ExportShaped
      /\ export.pc = "replace" => Replacing(export.old) /\ export.old \in backup[export.id]
  BY DEF PlaceTarget, ExportsKept, TargetsKept
<1>2. PICK s \in Sessions : s = export.id
  BY <1>1 DEF ExportShaped
<1>3. /\ target = [v \in Sessions |-> target[v]] /\ backup = [v \in Sessions |-> backup[v]]
      /\ \A v \in Sessions : target[v] # None => Exported(target[v])
  BY DEF ExportsKept, TargetsKept
<1>4. CASE /\ target' = [target EXCEPT ![s] = export.bundle] /\ backup' = backup
           /\ exported' = exported \cup {s}
           /\ export' = IF export.pc = "place" THEN NoTask ELSE [export EXCEPT !.pc = "clean"]
  <2>1. /\ target'[s] = export.bundle /\ \A v \in Sessions \ {s} : target'[v] = target[v]
        /\ target' = [v \in Sessions |-> target'[v]]
    BY <1>3, <1>4
  <2>2. export.bundle # None /\ Exported(export.bundle)
    BY <1>1 DEF ExportShaped
  <2>3. \A v \in Sessions : target'[v] # None => Exported(target'[v])
    BY <1>3, <2>1, <2>2
  <2>4. ExportKept'
    BY <1>1, <1>4, <2>1, <2>2 DEF ExportsKept, ExportKept
  <2>5. CASE export.pc = "place"
    BY <1>3, <1>4, <2>1, <2>3, <2>4, <2>5 DEF ExportsKept, TargetsKept, NoTask, Exported
  <2>6. CASE export.pc = "replace"
    <3>1. export' = [export EXCEPT !.pc = "clean"]
      BY <1>4, <2>6
    <3>2. export'.pc = "clean" /\ export'.id = s /\ export'.old = export.old /\ ExportShaped'
      BY <1>2, <2>6, <3>1, ExportSteps
    <3>3. Replacing(export.old)' /\ (export.old \in backup[export.id])'
      BY <1>1, <1>2, <1>4, <2>6, <3>2 DEF Replacing, Exported
    <3>4. (target[export.id])' # None
      BY <2>1, <2>2, <3>2
    <3> QED BY <1>3, <1>4, <2>1, <2>3, <2>4, <3>2, <3>3, <3>4 DEF ExportsKept, TargetsKept, Exported
  <2> QED BY <1>1, <2>5, <2>6
<1>5. CASE exported' = exported /\ export' = NoTask /\ UNCHANGED <<target, backup>>
  BY <1>1, <1>5, ExportUnmoved DEF disk
<1>6. CASE /\ export.pc = "replace" /\ exported' = exported /\ export' = NoTask
           /\ target' = [target EXCEPT ![s] = export.old]
           /\ backup' = [backup EXCEPT ![s] = @ \ {export.old}]
  <2>1. /\ target'[s] = export.old /\ \A v \in Sessions \ {s} : target'[v] = target[v]
        /\ \A v \in Sessions \ {s} : backup'[v] = backup[v]
        /\ target' = [v \in Sessions |-> target'[v]] /\ backup' = [v \in Sessions |-> backup'[v]]
    BY <1>3, <1>6
  <2>2. export.old # None /\ Exported(export.old)
    BY <1>1, <1>6 DEF Replacing
  <2>3. \A v \in Sessions : target'[v] # None => Exported(target'[v])
    BY <1>3, <2>1, <2>2
  <2>4. ExportKept'
    BY <1>1, <1>6, <2>1, <2>2 DEF ExportsKept, ExportKept
  <2> QED BY <1>6, <2>1, <2>3, <2>4 DEF ExportsKept, TargetsKept, NoTask, Exported
<1> QED BY <1>1, <1>2, <1>4, <1>5, <1>6 DEF PlaceTarget

LEMMA RemoveBackupKeeps ==
  ASSUME ExportsKept, RemoveBackup
  PROVE  ExportsKept'
<1>1. /\ export.pc = "clean" /\ ExportShaped /\ Replacing(export.old)
      /\ target[export.id] # None
      /\ UNCHANGED <<target, late, exported>> /\ export' = NoTask
  BY DEF RemoveBackup, ExportsKept, TargetsKept
<1>2. PICK s \in Sessions : s = export.id
  BY <1>1 DEF ExportShaped
<1>3. /\ backup' = [backup EXCEPT ![s] = @ \ {export.old}]
      /\ lost' = IF export.old = Edited THEN lost \cup {s} ELSE lost
  BY <1>2 DEF RemoveBackup
<1>4. /\ \A v \in Sessions \ {s} : backup'[v] = backup[v]
      /\ backup' = [v \in Sessions |-> backup'[v]]
  BY <1>3 DEF ExportsKept, TargetsKept
<1>5. lost' \subseteq late
  BY <1>1, <1>2, <1>3 DEF Replacing, ExportsKept, ExportKept
<1>6. ExportKept'
  BY <1>1, <1>2, <1>4, <1>5 DEF ExportsKept, ExportKept
<1> QED BY <1>1, <1>4, <1>6 DEF ExportsKept, TargetsKept, NoTask, Exported

LEMMA EditKeeps ==
  ASSUME ExportsKept, NEW s \in Sessions, Edit(s)
  PROVE  ExportsKept'
<1>1. /\ target' = [target EXCEPT ![s] = Edited] /\ UNCHANGED <<export, backup, lost, exported>>
      /\ late' = IF export.pc \in {"move"} /\ export.id = s THEN late \cup {s} ELSE late
  BY DEF Edit
<1>2. /\ target'[s] = Edited /\ \A v \in Sessions \ {s} : target'[v] = target[v]
      /\ target' = [v \in Sessions |-> target'[v]]
  BY <1>1 DEF ExportsKept, TargetsKept
<1>3. Edited # None /\ Exported(Edited)
  BY NoRecord DEF Exported
<1>4. \A v \in Sessions : target[v] # None => target'[v] # None
  BY <1>2, <1>3
<1>5. late \subseteq late'
  BY <1>1
<1>6. ExportKept'
  BY <1>1, <1>4, <1>5 DEF ExportsKept, ExportKept
<1>7. \A v \in Sessions : target'[v] # None => Exported(target'[v])
  BY <1>2, <1>3 DEF ExportsKept, TargetsKept
<1>8. export.pc # "none" => ExportShaped /\ ExportShaped'
  BY <1>1 DEF ExportsKept, TargetsKept, ExportShaped, Exported
<1>9. export.pc = "move" => Replacing(target[export.id])'
  <2> SUFFICES ASSUME export.pc = "move" PROVE Replacing(target[export.id])'
    OBVIOUS
  <2>1. export.id \in Sessions /\ Replacing(target[export.id])
    BY <1>8 DEF ExportsKept, TargetsKept, ExportShaped
  <2>2. CASE export.id = s
    BY <1>1, <1>2, <1>3, <2>2 DEF Replacing, Exported
  <2>3. CASE export.id # s
    BY <1>1, <1>2, <1>5, <2>1, <2>3 DEF Replacing, Exported
  <2> QED BY <2>2, <2>3
<1>10. export.pc \in {"replace", "clean"} =>
         Replacing(export.old)' /\ (export.old \in backup[export.id])'
  BY <1>1, <1>5 DEF ExportsKept, TargetsKept, Replacing, Exported
<1>11. export.pc = "clean" => (target[export.id])' # None
  BY <1>1, <1>4, <1>8 DEF ExportsKept, TargetsKept, ExportShaped
<1>12. backup' = [v \in Sessions |-> backup'[v]]
  BY <1>1 DEF ExportsKept, TargetsKept
<1>13. TargetsKept'
  BY <1>1, <1>2, <1>7, <1>8, <1>9, <1>10, <1>11, <1>12 DEF TargetsKept, Exported
<1> QED BY <1>6, <1>13 DEF ExportsKept

-----------------------------------------------------------------------------
(* The system.                                                                 *)

LEMMA ArchivesInitSound == ArchivesInit => ArchivesInv
<1> SUFFICES ASSUME ArchivesInit PROVE ArchivesInv
  OBVIOUS
<1>1. PICK run : run = [rev |-> 1, receipt |-> "none", origin |-> None, blocked |-> {}]
  OBVIOUS
<1>2. runs = [s \in Sessions |-> IF s = Home THEN run ELSE None]
  BY <1>1 DEF ArchivesInit
<1>3. run = [rev |-> run.rev, receipt |-> run.receipt, origin |-> run.origin,
             blocked |-> run.blocked] /\ run.origin = None
  BY <1>1
<1>4. RunsKept
  <2>1. \A s \in Sessions : runs[s] # None => runs[s] = run
    BY <1>2
  <2>2. runs = [s \in Sessions |-> runs[s]]
    BY <1>2
  <2> QED BY <1>3, <2>1, <2>2 DEF RunsKept, RunShaped
<1>5. MarkersKept /\ TaskKept /\ TargetsKept
  BY DEF ArchivesInit, MarkersKept, TaskKept, TargetsKept, NoTask
<1>6. PartsKept
  BY DEF ArchivesInit, PartsKept
<1>7. ImportWhole
  <2>1. run # None /\ parts = [s \in Sessions |-> IF s = Home THEN AllParts ELSE {}]
    BY <1>1 DEF ArchivesInit, None
  <2>2. \A s \in Sessions : s = Home \/ (runs[s] = None /\ parts[s] = {})
    BY <1>2, <2>1
  <2>3. runs[Home] = run /\ parts[Home] = AllParts
    BY <1>2, <2>1, ArchivesAssumption
  <2> QED BY <2>1, <2>2, <2>3 DEF ImportWhole
<1>8. ArchivesWhole
  BY <1>7 DEF ArchivesInit, ArchivesWhole, UncertainNotResumed, ExportKept
<1> QED BY <1>4, <1>5, <1>6, <1>8 DEF ArchivesInv

LEMMA ArchivesUnmoved ==
  ASSUME ArchivesInv, UNCHANGED archives
  PROVE  ArchivesInv'
<1>1. UNCHANGED <<runs, parts, markers, svc, task, tasks, disk, export, repeated>>
  BY DEF archives, db
<1>2. ImportKept' /\ ExportsKept'
  BY <1>1, ImportUnmoved, ExportUnmoved
     DEF ArchivesInv, ArchivesWhole, ImportKept, ExportsKept
<1> QED BY <1>1, <1>2
        DEF ArchivesInv, ArchivesWhole, ImportKept, ExportsKept, UncertainNotResumed

\* What an import does leaves exports alone, and the other way round.
LEMMA ImportSteps ==
  ASSUME ArchivesInv,
         \/ \E bundles \in Archives : BeginImport(bundles)
         \/ Mark \/ Install \/ Commit \/ Unmark \/ Fail \/ DropPending \/ EndRecovery \/ Serve
         \/ \E m \in markers : (Erase(m) \/ DropMarker(m))
  PROVE  ArchivesInv'
<1>1. ImportKept /\ ExportsKept /\ TargetsKept /\ UncertainNotResumed
  BY DEF ArchivesInv, ArchivesWhole, ImportKept, ExportsKept
<1>2. UNCHANGED <<disk, export, repeated>>
  BY DEF BeginImport, Mark, Install, Commit, Unmark, Fail, DropPending, EndRecovery, Serve,
         Erase, DropMarker
<1>3. ImportKept'
  BY <1>1, BeginImportKeeps, MarkKeeps, InstallKeeps, CommitKeeps, UnmarkKeeps, EraseKeeps,
     RecoveryKeeps
<1>4. ExportsKept' /\ UncertainNotResumed'
  BY <1>1, <1>2, ExportUnmoved DEF UncertainNotResumed
<1> QED BY <1>3, <1>4 DEF ArchivesInv, ArchivesWhole, ImportKept, ExportsKept

LEMMA ExportActions ==
  ASSUME ArchivesInv,
         \/ \E s \in Sessions : (BeginExport(s) \/ Edit(s))
         \/ CheckTarget \/ MoveTarget \/ PlaceTarget \/ RemoveBackup \/ Pieces \/ Crash
  PROVE  ArchivesInv'
<1>1. ImportKept /\ ExportsKept /\ UncertainNotResumed
  BY DEF ArchivesInv, ArchivesWhole, ImportKept, ExportsKept
<1>2. UNCHANGED <<runs, parts, markers, repeated>> /\ tasks' \in {tasks, tasks + 1}
  BY DEF BeginExport, Edit, CheckTarget, MoveTarget, PlaceTarget, RemoveBackup, Pieces, Crash, db
<1>3. UNCHANGED <<svc, task>> \/ task' = NoTask
  BY DEF BeginExport, Edit, CheckTarget, MoveTarget, PlaceTarget, RemoveBackup, Pieces, Crash
<1>4. ImportKept' /\ UncertainNotResumed'
  BY <1>1, <1>2, <1>3, ImportUnmoved DEF UncertainNotResumed
<1>5. ASSUME Pieces \/ Crash PROVE ExportsKept'
  BY <1>1, <1>5, ExportUnmoved DEF Pieces, Crash
<1>6. ExportsKept'
  BY <1>1, <1>5, BeginExportKeeps, EditKeeps, CheckTargetKeeps, MoveTargetKeeps,
     PlaceTargetKeeps, RemoveBackupKeeps
<1> QED BY <1>4, <1>6 DEF ArchivesInv, ArchivesWhole, ImportKept, ExportsKept

LEMMA AppendSteps ==
  ASSUME ArchivesInv, NEW s \in Sessions, AppendEvent(s)
  PROVE  ArchivesInv'
<1>1. ImportKept /\ ExportsKept /\ UncertainNotResumed
  BY DEF ArchivesInv, ArchivesWhole, ImportKept, ExportsKept
<1>2. UNCHANGED <<disk, export>>
  BY DEF AppendEvent
<1>3. ImportKept' /\ UncertainNotResumed'
  BY <1>1, AppendKeeps
<1>4. ExportsKept'
  BY <1>1, <1>2, ExportUnmoved
<1> QED BY <1>3, <1>4 DEF ArchivesInv, ArchivesWhole, ImportKept, ExportsKept

LEMMA ArchivesStepSound == ArchivesInv /\ [ArchivesNext]_archives => ArchivesInv'
<1> SUFFICES ASSUME ArchivesInv, [ArchivesNext]_archives PROVE ArchivesInv'
  OBVIOUS
<1>1. CASE \/ \E bundles \in Archives : BeginImport(bundles)
           \/ Mark \/ Install \/ Commit \/ Unmark \/ Fail \/ DropPending \/ EndRecovery \/ Serve
           \/ \E m \in markers : (Erase(m) \/ DropMarker(m))
  BY <1>1, ImportSteps
<1>2. CASE \/ \E s \in Sessions : (BeginExport(s) \/ Edit(s))
           \/ CheckTarget \/ MoveTarget \/ PlaceTarget \/ RemoveBackup \/ Pieces \/ Crash
  BY <1>2, ExportActions
<1>3. CASE \E s \in Sessions : AppendEvent(s)
  BY <1>3, AppendSteps
<1>4. CASE UNCHANGED archives
  BY <1>4, ArchivesUnmoved
<1> QED BY <1>1, <1>2, <1>3, <1>4 DEF ArchivesNext

\* Under every identity there is a session with all its parts, an import whose
\* marker will finish or undo it, or nothing (session_archive.rs, import_sessions
\* and recover_imports): ArchivesWhole with the invariant it needs.
THEOREM ArchivesInvariant == ArchivesSpec => []ArchivesInv
  BY ArchivesInitSound, ArchivesStepSound, PTL DEF ArchivesSpec

\* Sessions leave and enter a data directory whole, in every interleaving of
\* imports, exports, failed writes, crashes and recoveries, for all sessions and
\* archives: no part without its session or its marker, no blocked session that
\* goes on with an uncertain effect, no edited or last archive that an export
\* removes (session_archive.rs, administration.rs).
THEOREM ArchivesAlwaysWhole == ArchivesSpec => []ArchivesWhole
<1>1. ArchivesInv => ArchivesWhole
  BY DEF ArchivesInv
<1> QED BY <1>1, ArchivesInvariant, PTL
=============================================================================
