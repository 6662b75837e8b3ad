---------------------------- MODULE SessionSync ----------------------------
(***************************************************************************)
(* The projection of one run, from the writer that commits it to a browser *)
(* that follows it.                                                        *)
(*                                                                         *)
(*   zf-execution/src/sessions.rs      persist_command and persist_batch   *)
(*   zf-storage/src/session_sync.rs    the cache of committed projections  *)
(*                                     and the payloads of every transport *)
(*   zf-serve/src/{server,rtc}.rs      the snapshot request and the stream *)
(*   web/packages/sdk/src/runs/        followRun and RunProjection         *)
(*                                                                         *)
(* A document is the set of updates it holds, in two parts because the     *)
(* code stores it so: `meta`, one row that each write replaces, and `ents`,*)
(* the entity rows that a write inserts or updates and never deletes.  An  *)
(* update is named by the sequence number of its event.                    *)
(*                                                                         *)
(* The writer (under the service's writer lock), the snapshot request and  *)
(* the stream are three tasks.  Each of them, finding no cached projection,*)
(* seeds the cache from the database in three queries, without the lock.   *)
(***************************************************************************)
EXTENDS Integers, Sequences, FiniteSetsExt

CONSTANTS
    Page,        \* rows of one delta page (64 in the code)
    History,     \* updates committed before the modelled process started
    Cold,        \* TRUE: a restarted process, nothing cached; FALSE: the run
                 \* was created by this process, which seeded it
    Updates,     \* bound: sequence numbers
    Mishaps      \* bound: restarts, lost answers, broken streams and commands
                 \* whose HTTP connection closes midway, together

ASSUME SyncAssumption ==
    /\ Page \in Nat \ {0}
    /\ Updates \in Nat /\ Mishaps \in Nat /\ History \in 0..Updates
    /\ Cold \in BOOLEAN

VARIABLES
    db,        \* the SQLite file: change rows, run row and entity rows
    cache,     \* SessionSync.runs for this run; rev = None: absent
    sequence,  \* ExecutionState.sequence
    writer,    \* the holder of the writer lock
    req,       \* the payload being computed for the request and the stream
    seeding,   \* per task, its progress through SessionSync::seed
    stream,    \* the server's end of the stream, and the frames on the way
    reply,     \* the answer to the snapshot request, on the way
    client,    \* followRun: its projection and what it still needs
    mishaps,   \* how many of them have happened
    stale      \* history: an outdated projection was left in the cache

vars == <<db, cache, sequence, writer, req, seeding, stream, reply, client,
          mishaps, stale>>

None == -1          \* an absent revision or cursor
Tasks == {"writer", "http", "stream"}
Requests == {"http", "stream"}
Empty == [meta |-> {}, ents |-> {}]
Absent == [doc |-> Empty, rev |-> None]
Merge(d, e) == [meta |-> d.meta \cup e.meta, ents |-> d.ents \cup e.ents]

Newest == IF db.rows = <<>> THEN 0 ELSE db.rows[Len(db.rows)].seq
Stored == [doc |-> [meta |-> db.meta, ents |-> db.ents], rev |-> Newest]

\* The document after the committed changes up to a revision.
Replay(r) ==
    LET rows == {i \in DOMAIN db.rows : db.rows[i].seq <= r} IN
    [meta |-> UNION {db.rows[i].ops.meta : i \in rows},
     ents |-> UNION {db.rows[i].ops.ents : i \in rows}]

IdleWriter == [pc |-> "idle", batch |-> FALSE, loaded |-> Empty,
               base |-> Absent, seqs |-> <<>>]
IdleRequest == [pc |-> "idle", after |-> None]
NotSeeding == [pc |-> "none", doc |-> Empty, rev |-> None]
ClosedStream == [on |-> FALSE, after |-> None, ready |-> FALSE, frames |-> <<>>]
NoFrame == [kind |-> "none", base |-> None, rev |-> None, doc |-> Empty]

\* ExecutionService::open, and start::start for a run of this process.
Init ==
    /\ db = [rows |-> [i \in 1..History |->
                         [seq |-> i, base |-> i - 1,
                          ops |-> [meta |-> {i}, ents |-> {i}]]],
             meta |-> 1..History, ents |-> 1..History]
    /\ cache = IF Cold THEN Absent ELSE Stored
    /\ sequence = History
    /\ writer = IdleWriter
    /\ req = [p \in Requests |-> IdleRequest]
    /\ seeding = [p \in Tasks |-> NotSeeding]
    /\ stream = ClosedStream
    /\ reply = NoFrame
    /\ client = [view |-> Absent, boot |-> TRUE, catchup |-> FALSE, target |-> 0]
    /\ mishaps = 0
    /\ stale = FALSE

-----------------------------------------------------------------------------
(***************************************************************************)
(* SessionSync::seed, run by whichever task finds the cache empty: the run *)
(* row, the entity rows and the newest sequence number are read by three   *)
(* queries of the reading pool; `committed` then stores the result over    *)
(* whatever the cache holds by that time.                                  *)
(***************************************************************************)

\* latest and head read the cache and seed it first when it is empty.
ReadsCache(p) ==
    /\ seeding[p].pc = "none"
    /\ IF p = "writer" THEN writer.pc \in {"load", "base"}
                       ELSE req[p].pc \in {"head", "latest"}

Cached(p) == ReadsCache(p) /\ cache.rev # None

SeedRow(p) ==
    /\ ReadsCache(p) /\ cache.rev = None
    /\ seeding' = [seeding EXCEPT ![p] =
                     [pc |-> "entities", doc |-> [meta |-> db.meta, ents |-> {}],
                      rev |-> None]]
    /\ UNCHANGED <<db, cache, sequence, writer, req, stream, reply, client, mishaps, stale>>

SeedEntities(p) ==
    /\ seeding[p].pc = "entities"
    /\ seeding' = [seeding EXCEPT ![p].pc = "revision", ![p].doc.ents = db.ents]
    /\ UNCHANGED <<db, cache, sequence, writer, req, stream, reply, client, mishaps, stale>>

SeedRevision(p) ==
    /\ seeding[p].pc = "revision"
    /\ seeding' = [seeding EXCEPT ![p].pc = "publish", ![p].rev = Newest]
    /\ UNCHANGED <<db, cache, sequence, writer, req, stream, reply, client, mishaps, stale>>

\* What a seed stores is outdated when it is no committed projection, or when
\* the database has moved on and no writer is about to publish over it.
Outdated(c) == c.doc # Replay(c.rev) \/ (c # Stored /\ writer.pc # "publish")

SeedPublish(p) ==
    /\ seeding[p].pc = "publish"
    /\ LET c == [doc |-> seeding[p].doc, rev |-> seeding[p].rev] IN
       /\ cache' = c
       /\ stale' = (stale \/ Outdated(c))
    /\ stream' = [stream EXCEPT !.ready = @ \/ stream.on]
    /\ seeding' = [seeding EXCEPT ![p] = NotSeeding]
    /\ UNCHANGED <<db, sequence, writer, req, reply, client, mishaps>>

-----------------------------------------------------------------------------
(***************************************************************************)
(* The writer.  A command loads the projection, edits it, and              *)
(* persist_command reads the cache a second time for the base revision and *)
(* the entities; persist_batch reads it once and commits two events.       *)
(***************************************************************************)

BeginCommand ==
    /\ writer.pc = "idle" /\ sequence < Updates
    /\ writer' = [IdleWriter EXCEPT !.pc = "load"]
    /\ UNCHANGED <<db, cache, sequence, req, seeding, stream, reply, client, mishaps, stale>>

BeginBatch ==
    /\ writer.pc = "idle" /\ sequence + 1 < Updates
    /\ writer' = [IdleWriter EXCEPT !.pc = "base", !.batch = TRUE]
    /\ UNCHANGED <<db, cache, sequence, req, seeding, stream, reply, client, mishaps, stale>>

Load ==
    /\ writer.pc = "load" /\ Cached("writer")
    /\ writer' = [writer EXCEPT !.pc = "base", !.loaded = cache.doc]
    /\ UNCHANGED <<db, cache, sequence, req, seeding, stream, reply, client, mishaps, stale>>

Base ==
    /\ writer.pc = "base" /\ Cached("writer")
    /\ LET n == IF writer.batch THEN 2 ELSE 1 IN
       /\ sequence' = sequence + n
       /\ writer' = [writer EXCEPT !.pc = "commit", !.base = cache,
                       !.loaded = IF writer.batch THEN cache.doc ELSE @,
                       !.seqs = [i \in 1..n |-> sequence + i]]
    /\ UNCHANGED <<db, cache, req, seeding, stream, reply, client, mishaps, stale>>

New(w) == {w.seqs[i] : i \in DOMAIN w.seqs}

\* The document that is written: the command's fields, the stored timeline.
Document(w) == [meta |-> w.loaded.meta \cup New(w), ents |-> w.base.doc.ents \cup New(w)]

\* The run_changes rows: each names the revision it applies to.
Changes(w) ==
    [i \in DOMAIN w.seqs |->
       [seq |-> w.seqs[i],
        base |-> IF i = 1 THEN w.base.rev ELSE w.seqs[i - 1],
        ops |-> [meta |-> {w.seqs[i]}, ents |-> {w.seqs[i]}]]]

\* One transaction: events, run_changes, the run row, the changed entities.
Commit ==
    /\ writer.pc = "commit"
    /\ db' = [rows |-> db.rows \o Changes(writer),
              meta |-> Document(writer).meta,
              ents |-> db.ents \cup (Document(writer).ents \ writer.base.doc.ents)]
    /\ writer' = [writer EXCEPT !.pc = "publish"]
    /\ UNCHANGED <<cache, sequence, req, seeding, stream, reply, client, mishaps, stale>>

\* The transaction fails: its sequence numbers are spent.
CommitFails ==
    /\ writer.pc = "commit"
    /\ writer' = IdleWriter
    /\ UNCHANGED <<db, cache, sequence, req, seeding, stream, reply, client, mishaps, stale>>

\* SessionSync::committed: the cache, then the watch channel.
Publish ==
    /\ writer.pc = "publish"
    /\ cache' = [doc |-> Document(writer), rev |-> writer.seqs[Len(writer.seqs)]]
    /\ stream' = [stream EXCEPT !.ready = @ \/ stream.on]
    /\ writer' = IdleWriter
    /\ UNCHANGED <<db, sequence, req, seeding, reply, client, mishaps, stale>>

\* A command runs in its HTTP handler: when the connection closes the handler
\* is dropped at an await.  Batches run in a task of their own.
Abandon ==
    /\ writer.pc # "idle" /\ ~writer.batch
    /\ mishaps < Mishaps
    /\ mishaps' = mishaps + 1
    /\ stale' = (stale \/ (writer.pc = "publish" /\ cache # Stored))
    /\ writer' = IdleWriter
    /\ seeding' = [seeding EXCEPT !["writer"] = NotSeeding]
    /\ UNCHANGED <<db, cache, sequence, req, stream, reply, client>>

-----------------------------------------------------------------------------
(***************************************************************************)
(* SessionSync::payload: a heartbeat, a page of deltas or a bootstrap.     *)
(***************************************************************************)

Heartbeat(r) == [kind |-> "heartbeat", base |-> None, rev |-> r, doc |-> Empty]
Bootstrap(c) == [kind |-> "bootstrap", base |-> None, rev |-> c.rev, doc |-> c.doc]

\* The rows after a cursor, one page of them, cut where the chain breaks.
PageAfter(after) ==
    LET first == Cardinality({i \in DOMAIN db.rows : db.rows[i].seq <= after})
        ends == {j \in first..Min({first + Page, Len(db.rows)}) :
                   \A i \in (first + 1)..j :
                     db.rows[i].base = IF i = first + 1 THEN after
                                       ELSE db.rows[i - 1].seq}
    IN  SubSeq(db.rows, first + 1, Max(ends))

\* Fault: a page moves the cursor to the newest revision, not to its last row.
DeltaToNewest(after, rows) ==
    [kind |-> "delta", base |-> after, rev |-> Newest,
     doc |-> [meta |-> UNION {rows[i].ops.meta : i \in DOMAIN rows},
              ents |-> UNION {rows[i].ops.ents : i \in DOMAIN rows}]]

Delta(after, rows) ==
    [kind |-> "delta", base |-> after, rev |-> rows[Len(rows)].seq,
     doc |-> [meta |-> UNION {rows[i].ops.meta : i \in DOMAIN rows},
              ents |-> UNION {rows[i].ops.ents : i \in DOMAIN rows}]]

\* The frame leaves: as the snapshot's body, or on the stream, whose cursor
\* moves to it and which goes round at once while it is behind the head.
Send(p, frame) ==
    /\ req' = [req EXCEPT ![p] = IdleRequest]
    /\ IF p = "http"
       THEN reply' = frame /\ UNCHANGED stream
       ELSE /\ stream' = [stream EXCEPT !.after = frame.rev,
                            !.ready = @ \/ frame.rev < cache.rev,
                            !.frames = Append(@, frame)]
            /\ UNCHANGED reply

PayloadHead(p) ==
    /\ req[p].pc = "head" /\ Cached(p)
    /\ LET after == req[p].after IN
       IF after = cache.rev
       THEN Send(p, Heartbeat(cache.rev))
       ELSE /\ req' = [req EXCEPT ![p].pc =
                         IF after > 0 /\ after <= cache.rev THEN "rows" ELSE "latest"]
            /\ UNCHANGED <<stream, reply>>
    /\ UNCHANGED <<db, cache, sequence, writer, seeding, client, mishaps, stale>>

PayloadRows(p) ==
    /\ req[p].pc = "rows"
    /\ LET rows == PageAfter(req[p].after) IN
       IF rows # <<>>
       THEN Send(p, Delta(req[p].after, rows))
       ELSE /\ req' = [req EXCEPT ![p].pc = "latest"]
            /\ UNCHANGED <<stream, reply>>
    /\ UNCHANGED <<db, cache, sequence, writer, seeding, client, mishaps, stale>>

PayloadLatest(p) ==
    /\ req[p].pc = "latest" /\ Cached(p)
    /\ Send(p, Bootstrap(cache))
    /\ UNCHANGED <<db, cache, sequence, writer, seeding, client, mishaps, stale>>

\* The loops of server::events and rtc::subscribe: a change, more to send,
\* or the five seconds' heartbeat.
StreamWake ==
    /\ stream.on /\ req["stream"].pc = "idle" /\ stream.frames = <<>>
    /\ req' = [req EXCEPT !["stream"] = [pc |-> "head", after |-> stream.after]]
    /\ stream' = [stream EXCEPT !.ready = FALSE]
    /\ UNCHANGED <<db, cache, sequence, writer, seeding, reply, client, mishaps, stale>>

-----------------------------------------------------------------------------
(***************************************************************************)
(* The follower of the browser (followRun, RunProjection).                 *)
(***************************************************************************)

Pending == req["http"].pc # "idle" \/ reply # NoFrame

\* RunProjection.apply: what cannot be applied to this projection.
Gap(view, f) ==
    CASE f.kind = "heartbeat" -> f.rev > view.rev
      [] f.kind = "delta"     -> f.rev > view.rev /\ f.base # view.rev
      [] OTHER                -> FALSE

\* Fault: the next revision is taken for a retransmission.
AppliedTooLate(view, f) ==
    IF f.kind = "heartbeat" \/ f.rev <= view.rev + 1 \/ Gap(view, f) THEN view
    ELSE [doc |-> IF f.kind = "delta" THEN Merge(view.doc, f.doc) ELSE f.doc, rev |-> f.rev]

\* RunProjection.apply: the projection after a frame.
Applied(view, f) ==
    IF f.kind = "heartbeat" \/ f.rev <= view.rev \/ Gap(view, f) THEN view
    ELSE [doc |-> IF f.kind = "delta" THEN Merge(view.doc, f.doc) ELSE f.doc, rev |-> f.rev]

\* accept: apply the frame and decide what is still missing.
Accepted(c, f) ==
    LET view == Applied(c.view, f)
        target == Max({c.target, f.rev})
    IN  IF Gap(c.view, f)
        THEN [view |-> view, boot |-> c.boot \/ view.rev = None,
              catchup |-> TRUE, target |-> target]
        ELSE [view |-> view, boot |-> FALSE, catchup |-> view.rev < target,
              target |-> target]

\* refresh: nothing while a request is pending.
Refreshed(c) ==
    IF Pending
    THEN client' = c /\ UNCHANGED req
    ELSE /\ client' = [c EXCEPT !.catchup = FALSE]
         /\ req' = [req EXCEPT !["http"] =
                      [pc |-> "head", after |-> IF c.boot THEN None ELSE c.view.rev]]

\* The timer of schedule; a silent stream is polled too.
Refresh ==
    /\ ~Pending
    /\ Refreshed(client)
    /\ UNCHANGED <<db, cache, sequence, writer, seeding, stream, reply, mishaps, stale>>

SnapshotReceived ==
    /\ reply # NoFrame
    /\ LET c == Accepted(client, reply) IN
       client' = [c EXCEPT !.boot = @ \/ (c.catchup /\ c.view.rev = client.view.rev)]
    /\ reply' = NoFrame
    /\ UNCHANGED <<db, cache, sequence, writer, req, seeding, stream, mishaps, stale>>

StreamStart ==
    /\ ~stream.on
    /\ stream' = [on |-> TRUE, after |-> client.view.rev, ready |-> TRUE, frames |-> <<>>]
    /\ UNCHANGED <<db, cache, sequence, writer, req, seeding, reply, client, mishaps, stale>>

StreamReceived ==
    /\ stream.frames # <<>>
    /\ stream' = [stream EXCEPT !.frames = Tail(@)]
    /\ LET f == stream.frames[1]  c == Accepted(client, f) IN
       IF Gap(client.view, f) THEN Refreshed(c) ELSE client' = c /\ UNCHANGED req
    /\ UNCHANGED <<db, cache, sequence, writer, seeding, reply, mishaps, stale>>

\* The request times out, or its answer is lost.
SnapshotLost ==
    /\ Pending /\ mishaps < Mishaps
    /\ mishaps' = mishaps + 1
    /\ req' = [req EXCEPT !["http"] = IdleRequest]
    /\ seeding' = [seeding EXCEPT !["http"] = NotSeeding]
    /\ reply' = NoFrame
    /\ UNCHANGED <<db, cache, sequence, writer, stream, client, stale>>

\* The stream breaks; the frames on the way are lost (reconnect).
StreamLost ==
    /\ stream.on /\ mishaps < Mishaps
    /\ mishaps' = mishaps + 1
    /\ stream' = ClosedStream
    /\ seeding' = [seeding EXCEPT !["stream"] = NotSeeding]
    /\ LET c == [client EXCEPT !.catchup = TRUE] IN
       IF Pending
       THEN client' = c /\ req' = [req EXCEPT !["stream"] = IdleRequest]
       ELSE /\ client' = [c EXCEPT !.catchup = FALSE]
            /\ req' = [req EXCEPT
                         !["http"] = [pc |-> "head", after |-> IF c.boot THEN None ELSE c.view.rev],
                         !["stream"] = IdleRequest]
    /\ UNCHANGED <<db, cache, sequence, writer, reply, stale>>

-----------------------------------------------------------------------------
\* The process stops at any point and starts again; the browser stays.
Restart ==
    /\ mishaps < Mishaps
    /\ mishaps' = mishaps + 1
    /\ cache' = Absent
    /\ sequence' = Newest
    /\ writer' = IdleWriter
    /\ req' = [p \in Requests |-> IdleRequest]
    /\ seeding' = [p \in Tasks |-> NotSeeding]
    /\ stream' = ClosedStream
    /\ reply' = NoFrame
    /\ client' = [client EXCEPT !.catchup = TRUE]
    /\ UNCHANGED <<db, stale>>

Seed(p) == SeedRow(p) \/ SeedEntities(p) \/ SeedRevision(p) \/ SeedPublish(p)
Payload(p) == PayloadHead(p) \/ PayloadRows(p) \/ PayloadLatest(p)
Write == Load \/ Base \/ Commit \/ Publish
Lose == SnapshotLost \/ StreamLost \/ Abandon \/ Restart \/ CommitFails

Next ==
    \/ \E p \in Tasks : Seed(p)
    \/ \E p \in Requests : Payload(p)
    \/ BeginCommand \/ BeginBatch \/ Write
    \/ StreamWake \/ StreamStart \/ StreamReceived
    \/ Refresh \/ SnapshotReceived
    \/ Lose

Spec == Init /\ [][Next]_vars

(***************************************************************************)
(* The tasks run on a fair executor and the network delivers what it does  *)
(* not lose (losses are bounded).  The stream's heartbeat and the          *)
(* follower's timer fire as long as time passes; the timer polls only      *)
(* while there is no stream or something is known to be missing.           *)
(***************************************************************************)
Fairness ==
    /\ \A p \in Tasks : WF_vars(Seed(p))
    /\ \A p \in Requests : WF_vars(Payload(p))
    /\ WF_vars(Write)
    /\ WF_vars(StreamWake) /\ WF_vars(StreamReceived) /\ WF_vars(SnapshotReceived)
    /\ WF_vars(Refresh /\ (client.catchup \/ ~stream.on))

FairSpec == Spec /\ Fairness

-----------------------------------------------------------------------------
Docs == [meta : SUBSET (1..Updates), ents : SUBSET (1..Updates)]
Versions == [doc : Docs, rev : None..Updates]

Rows == [seq : 1..Updates, base : None..Updates, ops : Docs]
Frames == [kind : {"none", "heartbeat", "delta", "bootstrap"}, base : None..Updates,
           rev : None..Updates, doc : Docs]

\* Every variable has its type.
SyncTypeOK ==
    /\ db \in [rows : Seq(Rows), meta : SUBSET (1..Updates), ents : SUBSET (1..Updates)]
    /\ cache \in Versions
    /\ sequence \in 0..Updates
    /\ writer \in [pc : {"idle", "load", "base", "commit", "publish"}, batch : BOOLEAN,
                   loaded : Docs, base : Versions, seqs : Seq(1..Updates)]
    /\ req \in [Requests -> [pc : {"idle", "head", "rows", "latest"}, after : None..Updates]]
    /\ seeding \in [Tasks -> [pc : {"none", "entities", "revision", "publish"}, doc : Docs,
                              rev : None..Updates]]
    /\ stream \in [on : BOOLEAN, after : None..Updates, ready : BOOLEAN, frames : Seq(Frames)]
    /\ reply \in Frames
    /\ client \in [view : Versions, boot : BOOLEAN, catchup : BOOLEAN, target : 0..Updates]
    /\ mishaps \in 0..Mishaps /\ stale \in BOOLEAN

\* The change rows form one chain and replay to the stored projection: no
\* write is based on an older revision than its predecessor's, and none
\* discards a committed update, as long as the cache is not left outdated.
JournalReplays ==
    stale \/
    /\ \A i \in DOMAIN db.rows :
         db.rows[i].base = IF i = 1 THEN 0 ELSE db.rows[i - 1].seq
    /\ Stored.doc = Replay(Newest)

\* What the follower shows at revision r is the projection the journal holds
\* at r, whatever mixture of snapshots, stream frames, repeated and lost
\* frames, pages and restarts brought it there.
ViewFaithful == stale \/ client.view.rev = None \/ client.view.doc = Replay(client.view.rev)

\* What the follower shows was committed as it shows it: ViewFaithful, of a journal
\* that replays to what is stored.
ViewsReplay == SyncTypeOK /\ JournalReplays /\ ViewFaithful

\* The follower never goes back to an older revision.
ViewAdvances == [][client'.view.rev >= client.view.rev]_vars

\* The follower only advances and, once writing ends, reaches the last committed
\* revision.
FollowerCatchesUp == ViewAdvances /\ <>[](stale \/ client.view = Stored)

\* "Committed projections" (session_sync.rs, first line): every projection
\* that the cache serves is one that was committed, at its revision.
CacheServesCommitted == cache.rev = None \/ cache.doc = Replay(cache.rev)

\* Subscribers learn of every commit (docs/app.md): with no writer between
\* its commit and its publication, the cache is at the committed revision.
CommitsAnnounced == writer.pc = "publish" \/ cache.rev = None \/ cache.rev = Newest
-----------------------------------------------------------------------------
(***************************************************************************)
(* What ViewsReplay rests on.                                              *)
(***************************************************************************)

\* The committed sequence numbers after one revision and up to another.
Between(b, r) == {db.rows[i].seq : i \in {j \in DOMAIN db.rows :
                                            b < db.rows[j].seq /\ db.rows[j].seq <= r}}
Both(S) == [meta |-> S, ents |-> S]

\* Rows are committed in the order of their numbers, each with its own update.
JournalOrdered ==
    /\ \A i \in DOMAIN db.rows : db.rows[i].ops = Both({db.rows[i].seq})
    /\ \A i, j \in DOMAIN db.rows : i < j => db.rows[i].seq < db.rows[j].seq
    /\ Newest <= sequence

\* A write takes its numbers after every committed one, within the bound.
WriterNumbers ==
    /\ writer.pc \in {"load", "base"} => sequence + (IF writer.batch THEN 2 ELSE 1) <= Updates
    /\ writer.pc \in {"commit", "publish"} =>
         /\ Len(writer.seqs) = IF writer.batch THEN 2 ELSE 1
         /\ writer.seqs[Len(writer.seqs)] <= sequence
         /\ writer.batch => writer.seqs[1] < writer.seqs[2]
    /\ writer.pc = "commit" => Newest < writer.seqs[1]
    /\ writer.pc = "publish" => writer.seqs[Len(writer.seqs)] = Newest

\* A write is based on what is stored: nobody else commits.
WriterBased == ~stale =>
    /\ writer.pc = "base" /\ ~writer.batch => writer.loaded = Stored.doc
    /\ writer.pc = "commit" => writer.base = Stored /\ writer.loaded = Stored.doc
    /\ writer.pc = "publish" => Document(writer) = Stored.doc

\* The cache holds a committed projection, the stored one between writes.
CacheSound ==
    /\ cache.rev <= Newest
    /\ ~stale /\ cache.rev # None =>
         /\ cache.doc = Replay(cache.rev)
         /\ writer.pc # "publish" => cache = Stored

SeedsCommitted == \A p \in Tasks :
    /\ seeding[p].rev <= Newest
    /\ seeding[p].pc = "publish" => seeding[p].rev # None

\* A bootstrap is a committed projection, a delta what was committed between
\* two revisions.
FrameSound(f) ==
    /\ f.rev <= Newest
    /\ f.kind = "none" => f.rev = None
    /\ f.kind = "delta" => f.base < f.rev /\ f.doc = Both(Between(f.base, f.rev))
    /\ f.kind = "bootstrap" /\ ~stale => f.rev # None /\ f.doc = Replay(f.rev)

FramesSound ==
    /\ FrameSound(reply)
    /\ \A i \in DOMAIN stream.frames : FrameSound(stream.frames[i])

\* An empty view is the projection before the first revision.
ViewSound ==
    /\ client.view.rev <= Newest
    /\ ~stale => client.view.doc = Replay(client.view.rev)

SyncInv ==
    /\ SyncTypeOK /\ JournalOrdered /\ JournalReplays
    /\ WriterNumbers /\ WriterBased
    /\ CacheSound /\ SeedsCommitted /\ FramesSound /\ ViewSound

=============================================================================
