---------------------------- MODULE ToolReceipts ----------------------------
(***************************************************************************)
(* Durable tool receipts: RunServices::execute_tool claims a receipt for   *)
(* the call identity before the effect, records the outcome after it and   *)
(* answers every later request of the identity from the receipt.           *)
(*                                                                         *)
(* Executors are concurrent requests (an agent's retry of a node after a   *)
(* restart, or two RunServices sharing one store); a crash forgets them    *)
(* and keeps the content store.  A call is a (run, node path, call id)     *)
(* triple, the text hashed into the receipt key.                           *)
(***************************************************************************)
EXTENDS Naturals, FiniteSets

CONSTANTS
    Calls,          \* call identities (receipt keys)
    Executors,      \* concurrent requests
    Arguments,      \* argument documents of a call
    Kind,           \* call -> its adapter, see Kinds
    MaxAttempts     \* bound: requests made of one call identity

Kinds == {"workspace", "exec", "window", "route"}

ASSUME KindAssumption == Kind \in [Calls -> Kinds]
ASSUME AttemptsAssumption == MaxAttempts \in Nat

\* A workspace tool or a command has no replay protocol; context windows are
\* patched under a unique publication key and routed flows keep a visit.
Ordinary == {c \in Calls : Kind[c] \in {"workspace", "exec"}}

VARIABLES
    receipt,        \* zf_records "receipts": call -> receipt
    legacy,         \* receipt files of a run that predates the content store
    fragments,      \* zf_records "tool-output-fragments": claimed call keys
    exec,           \* executor -> its position in execute_tool
    cancelled,      \* RunServices.cancel
    exporting,      \* the export holds the journal write guard
    effects,        \* history: call -> how often its adapter was invoked
    returned,       \* history: call -> results handed back as Ok
    attempts        \* history: call -> requests made

vars == <<receipt, legacy, fragments, exec, cancelled, exporting,
          effects, returned, attempts>>

NoArgs == "none"
Absent == [status |-> "absent", args |-> NoArgs, result |-> 0]
Statuses == {"absent", "started", "waiting", "completed", "failed"}
Results == Nat               \* a result is the ordinal of the effect behind it
Receipts == [status : Statuses, args : Arguments \union {NoArgs}, result : Results]

Idle == [pc |-> "idle", call |-> NoArgs, args |-> NoArgs,
         found |-> FALSE, claimed |-> FALSE, outcome |-> "none", result |-> 0]
Outcomes == {"none", "completed", "failed", "waiting"}
Positions == [pc : {"idle", "lookup", "claim", "inspect", "open", "perform", "record"},
              call : Calls \union {NoArgs}, args : Arguments \union {NoArgs},
              found : BOOLEAN, claimed : BOOLEAN,
              outcome : Outcomes, result : Results]

Init ==
    /\ receipt = [c \in Calls |-> Absent]
    /\ \E S \in SUBSET Calls, a \in Arguments, s \in {"started", "completed", "failed"} :
          legacy = [c \in Calls |->
                      IF c \in S THEN [status |-> s, args |-> a, result |-> 0]
                                 ELSE Absent]
    /\ fragments = {}
    /\ exec = [e \in Executors |-> Idle]
    /\ cancelled = FALSE
    /\ exporting = FALSE
    /\ effects = [c \in Calls |-> 0]
    /\ returned = [c \in Calls |-> {}]
    /\ attempts = [c \in Calls |-> 0]

-----------------------------------------------------------------------------
(* The content store. *)

\* INSERT OR IGNORE: the receipt after claiming key c with value r.
ClaimRecord(c, r) ==
    receipt' = [receipt EXCEPT ![c] = IF @.status = "absent" THEN r ELSE @]

\* Fault: the settled receipt is inserted like a claim, so "started" stays.
PutRecordIgnored(c, r) == ClaimRecord(c, r)

\* The upsert that follows an effect.
PutRecord(c, r) == receipt' = [receipt EXCEPT ![c] = r]

\* Fault: receipt files of an unmigrated run are not consulted.
ReadStoreOnly(c) == receipt[c]

\* read_record: the store first, the legacy file of an unmigrated run second.
ReadRecord(c) == IF receipt[c].status = "absent" THEN legacy[c] ELSE receipt[c]

-----------------------------------------------------------------------------
(* execute_tool, one action per await that another task can observe. *)

\* Fault: every call drops the guard once its receipt is claimed.
DropsJournal(e) == exec[e].pc \in {"lookup", "claim"}

\* Executors that hold the journal read guard: a routed call drops it once
\* its receipt is claimed, so that its child can execute tools itself.
HoldsJournal(e) ==
    \/ exec[e].pc \in {"lookup", "claim"}
    \/ exec[e].pc # "idle" /\ Kind[exec[e].call] # "route"

\* Entry: the cancellation checks and the journal read guard.
Begin(e, c, a) ==
    /\ exec[e].pc = "idle"
    /\ ~cancelled
    /\ ~exporting
    /\ attempts[c] < MaxAttempts
    /\ attempts' = [attempts EXCEPT ![c] = @ + 1]
    /\ exec' = [exec EXCEPT ![e] = [Idle EXCEPT !.pc = "lookup", !.call = c, !.args = a]]
    /\ UNCHANGED <<receipt, legacy, fragments, cancelled, exporting, effects, returned>>

\* A legacy receipt must be imported before the claim is attempted.
Lookup(e) ==
    LET c == exec[e].call IN
    /\ exec[e].pc = "lookup"
    /\ exec' = [exec EXCEPT ![e].pc = "claim",
                            ![e].found = ReadRecord(c).status # "absent"]
    /\ UNCHANGED <<receipt, legacy, fragments, cancelled, exporting,
                   effects, returned, attempts>>

\* The durable compare-and-insert: a receipt found before is claimed as it was
\* read and belongs to an earlier request; otherwise the row count decides.
Claim(e) ==
    LET c == exec[e].call
        fresh == [status |-> "started", args |-> exec[e].args, result |-> 0]
        won == ~exec[e].found /\ receipt[c].status = "absent"
    IN
    /\ exec[e].pc = "claim"
    /\ ClaimRecord(c, IF exec[e].found THEN legacy[c] ELSE fresh)
    /\ exec' = [exec EXCEPT ![e].claimed = won,
                            ![e].pc = IF won THEN "open" ELSE "inspect"]
    /\ UNCHANGED <<legacy, fragments, cancelled, exporting, effects, returned, attempts>>

Leave(e) == exec' = [exec EXCEPT ![e] = Idle]

\* The saved receipt answers the request.
InspectReplay(e) ==
    LET c == exec[e].call IN
    /\ exec[e].pc = "inspect"
    /\ receipt[c].args = exec[e].args
    /\ receipt[c].status = "completed"
    /\ returned' = [returned EXCEPT ![c] = @ \union {receipt[c].result}]
    /\ Leave(e)
    /\ UNCHANGED <<receipt, legacy, fragments, cancelled, exporting, effects, attempts>>

\* Identity reused with other arguments, a saved failure, or an interrupted
\* call whose effect is unknown: the request fails, nothing is replayed.
InspectReject(e) ==
    LET c == exec[e].call IN
    /\ exec[e].pc = "inspect"
    /\ \/ receipt[c].args # exec[e].args
       \/ receipt[c].status = "failed"
       \/ receipt[c].status \in {"started", "waiting"} /\ c \in Ordinary
    /\ Leave(e)
    /\ UNCHANGED <<receipt, legacy, fragments, cancelled, exporting,
                   effects, returned, attempts>>

\* Fault: every interrupted call is recovered, the ordinary ones by rerunning.
UnfinishedAny(e) ==
    /\ exec[e].pc = "inspect"
    /\ receipt[exec[e].call].args = exec[e].args
    /\ receipt[exec[e].call].status \in {"started", "waiting"}

Unfinished(e) ==
    /\ exec[e].pc = "inspect"
    /\ receipt[exec[e].call].args = exec[e].args
    /\ receipt[exec[e].call].status \in {"started", "waiting"}
    /\ exec[e].call \notin Ordinary

\* Context windows and routed flows recover an unfinished call through their
\* own idempotent records; the recovered result is then recorded like any other.
InspectRecover(e, out) ==
    LET c == exec[e].call IN
    /\ Unfinished(e)
    /\ out \in {"completed"} \union (IF Kind[c] = "route" THEN {"waiting"} ELSE {})
    /\ effects' = [effects EXCEPT ![c] = @ + 1]
    /\ exec' = [exec EXCEPT ![e].pc = "record", ![e].outcome = out,
                            ![e].result = effects[c] + 1]
    /\ UNCHANGED <<receipt, legacy, fragments, cancelled, exporting, returned, attempts>>

\* An error of the recovery itself leaves the receipt as it was.
InspectRecoverFails(e) ==
    /\ Unfinished(e)
    /\ effects' = [effects EXCEPT ![exec[e].call] = @ + 1]
    /\ Leave(e)
    /\ UNCHANGED <<receipt, legacy, fragments, cancelled, exporting, returned, attempts>>

\* A command claims the identity of its captured output; the others have none.
Open(e) ==
    LET c == exec[e].call IN
    /\ exec[e].pc = "open"
    /\ Kind[c] = "exec" => c \notin fragments
    /\ fragments' = IF Kind[c] = "exec" THEN fragments \union {c} ELSE fragments
    /\ exec' = [exec EXCEPT ![e].pc = "perform"]
    /\ UNCHANGED <<receipt, legacy, cancelled, exporting, effects, returned, attempts>>

\* The adapter runs: the only point of an ordinary call with an outside effect.
Perform(e, out) ==
    LET c == exec[e].call IN
    /\ exec[e].pc = "perform"
    /\ out \in {"completed", "failed"} \union (IF Kind[c] = "route" THEN {"waiting"} ELSE {})
    /\ effects' = [effects EXCEPT ![c] = @ + 1]
    /\ exec' = [exec EXCEPT ![e].pc = "record", ![e].outcome = out,
                            ![e].result = effects[c] + 1]
    /\ UNCHANGED <<receipt, legacy, fragments, cancelled, exporting, returned, attempts>>

\* The outcome is durable before the caller sees it.
Record(e) ==
    LET c == exec[e].call IN
    /\ exec[e].pc = "record"
    /\ PutRecord(c, [status |-> exec[e].outcome, args |-> exec[e].args,
                     result |-> exec[e].result])
    /\ returned' = [returned EXCEPT ![c] =
                      IF exec[e].outcome = "completed"
                      THEN @ \union {exec[e].result} ELSE @]
    /\ Leave(e)
    /\ UNCHANGED <<legacy, fragments, cancelled, exporting, effects, attempts>>

-----------------------------------------------------------------------------
(* The environment of a run. *)

Cancel ==
    /\ ~cancelled
    /\ cancelled' = TRUE
    /\ UNCHANGED <<receipt, legacy, fragments, exec, exporting, effects, returned, attempts>>

\* The process stops and a later one resumes the run with new RunServices.
Restart ==
    /\ cancelled' = FALSE
    /\ exporting' = FALSE
    /\ exec' = [e \in Executors |-> Idle]
    /\ UNCHANGED <<receipt, legacy, fragments, effects, returned, attempts>>

ExportBegin ==
    /\ ~exporting
    /\ \A e \in Executors : ~HoldsJournal(e)
    /\ exporting' = TRUE
    /\ UNCHANGED <<receipt, legacy, fragments, exec, cancelled, effects, returned, attempts>>

ExportEnd ==
    /\ exporting
    /\ exporting' = FALSE
    /\ UNCHANGED <<receipt, legacy, fragments, exec, cancelled, effects, returned, attempts>>

Step(e) ==
    \/ \E c \in Calls, a \in Arguments : Begin(e, c, a)
    \/ Lookup(e)
    \/ Claim(e)
    \/ InspectReplay(e)
    \/ InspectReject(e)
    \/ \E out \in Outcomes : InspectRecover(e, out)
    \/ InspectRecoverFails(e)
    \/ Open(e)
    \/ \E out \in Outcomes : Perform(e, out)
    \/ Record(e)

Next ==
    \/ \E e \in Executors : Step(e)
    \/ Cancel
    \/ Restart
    \/ ExportBegin
    \/ ExportEnd

Spec == Init /\ [][Next]_vars
-----------------------------------------------------------------------------
(* Properties. *)

TypeOK ==
    /\ receipt \in [Calls -> Receipts]
    /\ legacy \in [Calls -> Receipts]
    /\ fragments \subseteq Calls
    /\ exec \in [Executors -> Positions]
    /\ \A e \in Executors : exec[e].pc # "idle" =>
          exec[e].call \in Calls /\ exec[e].args \in Arguments
    /\ \A e \in Executors : exec[e].pc = "record" => exec[e].outcome # "none"
    /\ cancelled \in BOOLEAN
    /\ exporting \in BOOLEAN
    /\ effects \in [Calls -> Results]
    /\ returned \in [Calls -> SUBSET Results]
    /\ attempts \in [Calls -> 0..MaxAttempts]

\* However requests, restarts and cancellations interleave, the effect of a
\* workspace tool or command runs at most once per call identity, and never
\* for an identity that an older receipt file already names.
EffectAtMostOnce ==
    \A c \in Ordinary :
        /\ effects[c] <= 1
        /\ legacy[c].status # "absent" => effects[c] = 0

\* A result was handed to the graph only if the receipt that would answer the
\* request after a restart is durable and holds that very result.
ReturnedResultIsDurable ==
    \A c \in Ordinary : \A r \in returned[c] :
        receipt[c].status = "completed" /\ receipt[c].result = r

\* While an export holds the journal, neither an ordinary receipt nor a
\* captured output changes under it, unless the process restarts.
ExportSeesStableRecords ==
    [][exporting /\ exporting' =>
         /\ \A c \in Ordinary : receipt'[c] = receipt[c]
         /\ fragments' = fragments]_vars

\* The receipts implement the at-most-once contract of EffectOnce.
OutcomeOf(c) ==
    IF legacy[c].status # "absent"
    THEN IF legacy[c].status = "started" THEN "unknown" ELSE legacy[c].status
    ELSE IF receipt[c].status \in {"completed", "failed"} THEN receipt[c].status
    ELSE IF effects[c] = 0 THEN "open" ELSE "unknown"

Contract == INSTANCE EffectOnce WITH
    performed <- [c \in Ordinary |-> effects[c]],
    outcome <- [c \in Ordinary |-> OutcomeOf(c)]

ImplementsEffectOnce == Contract!Spec

\* The identity of a command's captured output is unused whenever a request
\* reaches the point of claiming it: the check there never refuses a command
\* after its receipt was claimed (which would leave the call unknown forever).
OutputIdentityFresh ==
    \A e \in Executors :
        exec[e].pc = "open" /\ Kind[exec[e].call] = "exec" => exec[e].call \notin fragments

\* Records are written where no other request and no export meets them.
RecordsStable == []OutputIdentityFresh /\ ExportSeesStableRecords

\* The strengthening under which EffectAtMostOnce and ReturnedResultIsDurable
\* are inductive.  A request between its claim and its recorded outcome is the
\* only one for that ordinary call, and finds it "started" in the store.
Active(e) == exec[e].pc \in {"open", "perform", "record"} /\ exec[e].call \in Ordinary

ActiveOwnsReceipt ==
    \A e \in Executors : Active(e) =>
        /\ receipt[exec[e].call].status = "started"
        /\ legacy[exec[e].call].status = "absent"
        /\ effects[exec[e].call] = IF exec[e].pc = "record" THEN 1 ELSE 0

ActiveIsAlone ==
    \A e, f \in Executors :
        Active(e) /\ Active(f) /\ exec[e].call = exec[f].call => e = f

ClaimKnowsLegacy ==
    \A e \in Executors :
        exec[e].pc = "claim" /\ legacy[exec[e].call].status # "absent" => exec[e].found

EffectLeavesReceipt ==
    \A c \in Ordinary : effects[c] = 1 => receipt[c].status # "absent"

ReceiptInv ==
    /\ TypeOK
    /\ ActiveOwnsReceipt
    /\ ActiveIsAlone
    /\ ClaimKnowsLegacy
    /\ EffectLeavesReceipt
    /\ EffectAtMostOnce
    /\ ReturnedResultIsDurable

\* The strengthening behind RecordsStable: an output identity belongs to a
\* claimed call, and the export's write guard excludes the read guards.
FragmentsClaimed == \A c \in fragments : receipt[c].status # "absent"

ExportExcludes == exporting => \A e \in Executors : ~HoldsJournal(e)

StableInv == FragmentsClaimed /\ OutputIdentityFresh /\ ExportExcludes
=============================================================================
