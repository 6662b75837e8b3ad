-------------------------------- MODULE Codex --------------------------------
(***************************************************************************)
(* The Codex transport (zf-runtime/src/codex.rs): model calls that share   *)
(* the credentials another program keeps in a file, ask that program to    *)
(* refresh them when the provider rejects them, and rebuild the answer     *)
(* from a stream of events that may or may not repeat what they have sent. *)
(*                                                                         *)
(* A text is the sequence of its fragments, a token a number.              *)
(***************************************************************************)
EXTENDS Integers, SequencesExt, FiniteSets

CONSTANTS
    ModelCalls,     \* model calls
    Items,          \* the answer: <<[kind, parts], ...>>, a part a sequence of fragments
    Styles,         \* which events the provider sends of an item
    MaxChanges,     \* bound: tokens that expire or are replaced by a login
    MaxFaults       \* bound: failures, timeouts, dropped calls

VARIABLES
    stored,         \* the token in auth.json
    expired,        \* tokens up to this one are rejected
    lock,           \* REFRESH_LOCK
    answer,         \* the model calls
    changes, faults,
    rotated         \* history: the rejected tokens a call had replaced, and whether it
                    \* could not read, under the lock, the token it had replaced

codex == <<stored, expired, lock, answer, changes, faults, rotated>>

Nobody == "nobody"

ASSUME CodexAssumption == Nobody \notin ModelCalls

Waiting == [pc |-> "credentials", auth |-> 0, style |-> <<>>, sent |-> <<>>,
            items |-> <<>>, out |-> <<>>]

CodexInit ==
    /\ stored = 1 /\ expired \in {0, 1} /\ lock = Nobody
    /\ answer = [c \in ModelCalls |-> Waiting]
    /\ changes = 0 /\ faults = 0 /\ rotated = <<>>

Go(c, pc) == answer' = [answer EXCEPT ![c].pc = pc]
Fails(c) == answer' = [answer EXCEPT ![c] = [Waiting EXCEPT !.pc = "failed"]]
OnlyCall == UNCHANGED <<stored, expired, lock, changes, faults, rotated>>

-----------------------------------------------------------------------------
(***************************************************************************)
(* Credentials.                                                            *)
(***************************************************************************)
ReadCredentials(c) ==
    /\ answer[c].pc \in {"credentials", "again"}
    /\ answer' = [answer EXCEPT ![c].auth = stored,
                            ![c].pc = IF @ = "again" THEN "resend" ELSE "send"]
    /\ OnlyCall

Faulty == faults < MaxFaults /\ faults' = faults + 1

\* The file cannot be read, or holds no token.
CredentialsFail(c) ==
    /\ answer[c].pc \in {"credentials", "again"}
    /\ Faulty /\ Fails(c)
    /\ UNCHANGED <<stored, expired, lock, changes, rotated>>

\* The second rejection is an answer like any other that is not a success.  Streams
\* share nothing and are taken one after the other.
Send(c) ==
    /\ answer[c].pc \in {"send", "resend"}
    /\ \A d \in ModelCalls : answer[d].pc # "stream"
    /\ IF answer[c].auth > expired
         THEN \E style \in [DOMAIN Items -> Styles] :
                answer' = [answer EXCEPT ![c].pc = "stream", ![c].style = style,
                                     ![c].sent = [i \in DOMAIN Items |-> 0],
                                     ![c].items = [i \in {} |-> <<>>]]
         ELSE IF answer[c].pc = "send" THEN Go(c, "lock") ELSE Fails(c)
    /\ OnlyCall

TakeLock(c) ==
    /\ answer[c].pc = "lock" /\ lock = Nobody
    /\ lock' = c /\ Go(c, "check")
    /\ UNCHANGED <<stored, expired, changes, faults, rotated>>

\* Fault: the token is not read again under the lock.
NeverReplaced(c) == FALSE

\* Another call, or the user, has replaced the rejected token meanwhile.
Replaced(c) == stored # answer[c].auth

CheckCredentials(c) ==
    /\ answer[c].pc = "check"
    /\ IF Replaced(c) THEN lock' = Nobody /\ Go(c, "again")
                      ELSE lock' = lock /\ Go(c, "refresh")
    /\ UNCHANGED <<stored, expired, changes, faults, rotated>>

\* A failed look decides nothing: the call has the token at hand replaced, whoever
\* may have replaced it before.
CheckFails(c) ==
    /\ answer[c].pc = "check"
    /\ Faulty /\ Go(c, "blind")
    /\ UNCHANGED <<stored, expired, lock, changes, rotated>>

Refreshing(c) == answer[c].pc \in {"refresh", "blind"}

\* The other program replaces the token; it may also refuse, or take too long,
\* in which case it is killed before or after it did.
Rotate(c) ==
    /\ stored' = stored + 1
    /\ rotated' = Append(rotated, [token |-> answer[c].auth, blind |-> answer[c].pc = "blind"])
Refresh(c) ==
    /\ Refreshing(c)
    /\ lock' = Nobody
    /\ \/ Rotate(c) /\ Go(c, "again") /\ faults' = faults
       \/ /\ Faulty
          /\ Rotate(c) \/ UNCHANGED <<stored, rotated>>
          /\ Fails(c)
    /\ UNCHANGED <<expired, changes>>

Expire ==
    /\ changes < MaxChanges /\ changes' = changes + 1
    /\ expired' = stored
    /\ UNCHANGED <<stored, lock, answer, faults, rotated>>

Login ==
    /\ changes < MaxChanges /\ changes' = changes + 1
    /\ stored' = stored + 1
    /\ UNCHANGED <<expired, lock, answer, faults, rotated>>

-----------------------------------------------------------------------------
(***************************************************************************)
(* The stream.                                                             *)
(***************************************************************************)

\* What the provider sends of an item: it begins, its fragments, each whole part,
\* the whole item.
Fragments(i) == LET parts == Items[i].parts IN
    FlattenSeq([n \in DOMAIN parts |->
        [j \in DOMAIN parts[n] |-> [type |-> "delta", part |-> n, text |-> <<parts[n][j]>>]]])
Events(i, style) ==
    (IF style.added THEN <<[type |-> "added"]>> ELSE <<>>)
    \o (IF style.delta THEN Fragments(i) ELSE <<>>)
    \o (IF style.text THEN [n \in DOMAIN Items[i].parts |->
                              [type |-> "text", part |-> n, text |-> Items[i].parts[n]]]
                      ELSE <<>>)
    \o (IF style.item THEN <<[type |-> "done"]>> ELSE <<>>)

Begun(i) == [kind |-> Items[i].kind, named |-> TRUE,
             parts |-> IF Items[i].kind = "call" THEN <<<<>>>> ELSE <<>>]
Whole(i) == [kind |-> Items[i].kind, named |-> TRUE, parts |-> Items[i].parts]

\* An item that was not announced has a type and nothing else.
Item(items, i) ==
    IF i \in DOMAIN items THEN items[i]
    ELSE [kind |-> Items[i].kind, named |-> FALSE, parts |-> <<>>]

\* Fault: a complete text is added to what has come of it.
StreamTextAppends(old, text, append) == old \o text

StreamText(old, text, append) == IF append THEN old \o text ELSE text

\* The parts up to the one of the event exist.
StreamPart(item, e) ==
    LET padded == [n \in 1..(IF e.part > Len(item.parts) THEN e.part ELSE Len(item.parts)) |->
                     IF n \in DOMAIN item.parts THEN item.parts[n] ELSE <<>>]
    IN [item EXCEPT !.parts =
          [padded EXCEPT ![e.part] = StreamText(@, e.text, e.type = "delta")]]

Accumulated(items, i, e) ==
    LET new == CASE e.type = "added" -> Begun(i)
                 [] e.type = "done" -> Whole(i)
                 [] OTHER -> StreamPart(Item(items, i), e)
    IN [k \in DOMAIN items \cup {i} |-> IF k = i THEN new ELSE items[k]]

ParseEvent(c) ==
    /\ answer[c].pc = "stream"
    /\ \E i \in DOMAIN Items :
          LET events == Events(i, answer[c].style[i])
              n == answer[c].sent[i] + 1
          IN /\ n \in DOMAIN events
             /\ answer' = [answer EXCEPT ![c].sent[i] = n,
                           ![c].items = Accumulated(answer[c].items, i, events[n])]
    /\ OnlyCall

\* completed_response, and for an answer cut by its token limit the Model node:
\* a call needs its name and arguments that parse; something has to be visible.
Usable(status, items) ==
    /\ \A k \in DOMAIN items : items[k].kind = "call" =>
          /\ status = "completed"
          /\ items[k].named /\ items[k].parts = Items[k].parts
    /\ \E k \in DOMAIN items :
          \/ items[k].kind = "call"
          \/ items[k].kind = "message" /\ \E n \in DOMAIN items[k].parts : items[k].parts[n] # <<>>

Exhausted(c) == \A i \in DOMAIN Items : answer[c].sent[i] = Len(Events(i, answer[c].style[i]))

\* The terminal event: its output is authoritative unless it is empty.
Terminal(c) ==
    /\ answer[c].pc = "stream"
    /\ \E status \in {"completed", "incomplete"}, output \in {"full", "empty"} :
          /\ status = "completed" => Exhausted(c)
          /\ status = "incomplete" => output = "empty"
          /\ LET items == IF output = "full" THEN [i \in DOMAIN Items |-> Whole(i)]
                                             ELSE answer[c].items
             IN answer' = [answer EXCEPT ![c] =
                  IF Usable(status, items)
                    THEN [Waiting EXCEPT !.pc = "answered", !.out = [status |-> status,
                            items |-> [k \in DOMAIN items |->
                               [kind |-> items[k].kind, parts |-> items[k].parts]]]]
                    ELSE [Waiting EXCEPT !.pc = "failed"]]
    /\ OnlyCall

\* The stream breaks, the provider reports an error, or the call is dropped: with
\* its guard, and with the program it started.
Drop(c) ==
    /\ answer[c].pc \notin {"answered", "failed"}
    /\ Faulty
    /\ lock' = IF lock = c THEN Nobody ELSE lock
    /\ (Refreshing(c) /\ Rotate(c)) \/ UNCHANGED <<stored, rotated>>
    /\ Fails(c)
    /\ UNCHANGED <<expired, changes>>

CodexNext ==
    \/ \E c \in ModelCalls :
          \/ ReadCredentials(c) \/ CredentialsFail(c) \/ Send(c)
          \/ TakeLock(c) \/ CheckCredentials(c) \/ CheckFails(c) \/ Refresh(c)
          \/ ParseEvent(c) \/ Terminal(c) \/ Drop(c)
    \/ Expire \/ Login

CodexSpec == CodexInit /\ [][CodexNext]_codex

-----------------------------------------------------------------------------
\* Calls that were rejected with the same token, in whatever order they meet at
\* the lock, have it replaced once: only a call that could not read the file there
\* has a token replaced that an earlier call already had replaced.
RefreshedOnce ==
    \A i, j \in DOMAIN rotated :
        i < j /\ rotated[i].token = rotated[j].token => rotated[j].blind

\* A completed answer is the provider's, item by item, whichever events announced,
\* repeated or closed its items; an answer that was cut has no call in it.
AnswerExact ==
    \A c \in ModelCalls : answer[c].pc = "answered" =>
        IF answer[c].out.status = "completed"
          THEN answer[c].out.items = Items
          ELSE \A k \in DOMAIN answer[c].out.items : answer[c].out.items[k].kind # "call"

-----------------------------------------------------------------------------
(* The strengthening under which RefreshedOnce is inductive.                   *)

\* The lock is that of the one call that looks at the credentials or replaces them.
AtLock(c) == answer[c].pc = "check" \/ Refreshing(c)
LockKept ==
    /\ lock \in ModelCalls \cup {Nobody}
    /\ \A c \in ModelCalls : AtLock(c) => lock = c

Replacements == [token : Nat, blind : BOOLEAN]

\* Tokens are numbered as they are stored; who is about to replace one, and was not
\* blind, has seen it in the file, after every earlier replacement.
TokensKept ==
    /\ stored \in Nat /\ rotated \in Seq(Replacements)
    /\ \A i \in DOMAIN rotated : rotated[i].token < stored
    /\ answer = [c \in ModelCalls |->
         [pc |-> answer[c].pc, auth |-> answer[c].auth, style |-> answer[c].style,
          sent |-> answer[c].sent, items |-> answer[c].items, out |-> answer[c].out]]
    /\ \A c \in ModelCalls : answer[c].auth \in 0..stored
    /\ \A c \in ModelCalls, i \in DOMAIN rotated :
         answer[c].pc = "refresh" => rotated[i].token # answer[c].auth

RefreshInv == LockKept /\ TokensKept /\ RefreshedOnce
=============================================================================
