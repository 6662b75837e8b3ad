------------------------- MODULE SessionSyncProofs -------------------------
(***************************************************************************)
(* What a follower shows at a revision is what the journal holds there.    *)
(***************************************************************************)
EXTENDS SessionSync, TLAPS, FiniteSetTheorems, SequenceTheorems,
        WellFoundedInduction

-----------------------------------------------------------------------------
(***************************************************************************)
(* The journal: its newest number and what it replays to.                  *)
(***************************************************************************)
LEMMA RowFields ==
    ASSUME SyncTypeOK
    PROVE  /\ db.rows \in Seq(Rows) /\ Len(db.rows) \in Nat
           /\ DOMAIN db.rows = 1..Len(db.rows)
           /\ \A i \in DOMAIN db.rows : /\ db.rows[i] \in Rows /\ db.rows[i].seq \in 1..Updates
                                        /\ db.rows[i].base \in None..Updates
    <1>1. db.rows \in Seq(Rows) BY DEF SyncTypeOK
    <1>2. \A i \in DOMAIN db.rows : db.rows[i] \in Rows BY <1>1
    <1> QED BY <1>1, <1>2 DEF Rows

LEMMA NewestFacts ==
    ASSUME SyncTypeOK
    PROVE  /\ Newest \in 0..Updates /\ Newest \in Int
           /\ db.rows = <<>> => Newest = 0
           /\ db.rows # <<>> => /\ Len(db.rows) \in DOMAIN db.rows
                                /\ Newest = db.rows[Len(db.rows)].seq
           /\ JournalOrdered => \A i \in DOMAIN db.rows : db.rows[i].seq <= Newest
    <1>1. Updates \in Nat BY SyncAssumption
    <1>2. CASE db.rows = <<>>
        <2>1. Newest = 0 BY <1>2 DEF Newest
        <2>2. DOMAIN db.rows = {} BY <1>2
        <2> QED BY <1>1, <1>2, <2>1, <2>2
    <1>3. CASE db.rows # <<>>
        <2>1. Len(db.rows) \in DOMAIN db.rows BY <1>3, RowFields
        <2>2. Newest = db.rows[Len(db.rows)].seq BY <1>3 DEF Newest
        <2>3. Newest \in 1..Updates BY <2>1, <2>2, RowFields
        <2>4. ASSUME JournalOrdered, NEW i \in DOMAIN db.rows PROVE db.rows[i].seq <= Newest
            <3>1. i = Len(db.rows) \/ i < Len(db.rows) BY RowFields
            <3>2. db.rows[i].seq \in Int BY RowFields
            <3> QED BY <2>1, <2>2, <2>3, <2>4, <3>1, <3>2 DEF JournalOrdered
        <2> QED BY <1>1, <1>3, <2>1, <2>2, <2>3, <2>4
    <1> QED BY <1>2, <1>3

RowsUpTo(a, r) ==
    LET rows == {i \in DOMAIN a : a[i].seq <= r} IN
    [meta |-> UNION {a[i].ops.meta : i \in rows}, ents |-> UNION {a[i].ops.ents : i \in rows}]

\* What rows that each hold their own update replay to is the set of their
\* numbers.
LEMMA RowsReplay ==
    ASSUME NEW a, NEW r \in Int,
           \A i \in DOMAIN a : a[i].ops = Both({a[i].seq}) /\ 0 < a[i].seq
    PROVE  RowsUpTo(a, r)
             = Both({a[i].seq : i \in {j \in DOMAIN a : 0 < a[j].seq /\ a[j].seq <= r}})
    <1> DEFINE rows == {i \in DOMAIN a : a[i].seq <= r}
    <1>1. ASSUME NEW i \in rows
          PROVE  a[i].ops.meta = {a[i].seq} /\ a[i].ops.ents = {a[i].seq}
        <2>1. PICK o : o = a[i].ops /\ o = Both({a[i].seq}) OBVIOUS
        <2> QED BY <2>1 DEF Both
    <1>2. {a[i].seq : i \in {j \in DOMAIN a : 0 < a[j].seq /\ a[j].seq <= r}}
            = {a[i].seq : i \in rows}
        OBVIOUS
    <1>3. UNION {a[i].ops.meta : i \in rows} = {a[i].seq : i \in rows} BY <1>1
    <1>4. UNION {a[i].ops.ents : i \in rows} = {a[i].seq : i \in rows} BY <1>1
    <1> QED BY <1>2, <1>3, <1>4 DEF RowsUpTo, Both

\* What is committed up to a revision is the set of its numbers.
LEMMA ReplayIs ==
    ASSUME SyncTypeOK, JournalOrdered, NEW r \in Int
    PROVE  Replay(r) = Both(Between(0, r))
    <1>1. \A i \in DOMAIN db.rows : 0 < db.rows[i].seq BY RowFields, SyncAssumption
    <1>2. PICK a : a = db.rows OBVIOUS
    <1>3. \A i \in DOMAIN a : a[i].ops = Both({a[i].seq}) BY <1>2 DEF JournalOrdered
    <1>4. \A i \in DOMAIN a : a[i].ops = Both({a[i].seq}) /\ 0 < a[i].seq BY <1>1, <1>2, <1>3
    <1>5. Replay(r) = RowsUpTo(a, r) BY <1>2 DEF Replay, RowsUpTo
    <1>6. Between(0, r) = {a[i].seq : i \in {j \in DOMAIN a : 0 < a[j].seq /\ a[j].seq <= r}}
        BY <1>2 DEF Between
    <1> QED BY <1>4, <1>5, <1>6, RowsReplay

LEMMA BetweenType ==
    ASSUME SyncTypeOK, NEW b, NEW r
    PROVE  Between(b, r) \subseteq 1..Updates /\ Both(Between(b, r)) \in Docs
    <1>1. Between(b, r) \subseteq 1..Updates BY RowFields DEF Between
    <1> QED BY <1>1 DEF Both, Docs

\* What was committed up to b, and after b up to r, was committed up to r.
LEMMA BetweenJoins ==
    ASSUME SyncTypeOK, NEW b \in Int, NEW r \in Int, b < r
    PROVE  Between(0, b) \cup Between(b, r) = Between(0, r)
    <1>1. \A i \in DOMAIN db.rows : db.rows[i].seq \in Int /\ 0 < db.rows[i].seq
        BY RowFields, SyncAssumption
    <1> QED BY <1>1 DEF Between

\* Nothing of the journal changes while the database does not.
LEMMA DbKept ==
    ASSUME db' = db
    PROVE  /\ Newest' = Newest /\ Stored' = Stored
           /\ \A r : Replay(r)' = Replay(r)
           /\ \A b, r : Between(b, r)' = Between(b, r)
    BY DEF Newest, Stored, Replay, Between

LEMMA FramesKept ==
    ASSUME db' = db, stale => stale', NEW f, FrameSound(f)
    PROVE  FrameSound(f)'
    BY DbKept DEF FrameSound

\* The writer and the cache keep what holds of them while they and the
\* database do not change.
LEMMA BackKept ==
    ASSUME SyncInv, UNCHANGED <<db, cache, sequence, writer, stale>>
    PROVE  /\ JournalOrdered' /\ JournalReplays' /\ WriterNumbers' /\ WriterBased'
           /\ CacheSound'
           /\ \A f : FrameSound(f) => FrameSound(f)'
    <1>1. /\ Newest' = Newest /\ Stored' = Stored
          /\ \A r : Replay(r)' = Replay(r)
        BY DbKept
    <1>2. JournalOrdered' BY <1>1 DEF SyncInv, JournalOrdered
    <1>3. JournalReplays' BY <1>1 DEF SyncInv, JournalReplays
    <1>4. WriterNumbers' BY <1>1 DEF SyncInv, WriterNumbers
    <1>5. WriterBased' BY <1>1 DEF SyncInv, WriterBased, Document, New
    <1>6. CacheSound' BY <1>1 DEF SyncInv, CacheSound
    <1> QED BY <1>2, <1>3, <1>4, <1>5, <1>6, FramesKept

\* The other end keeps what holds of it.
LEMMA FrontKept ==
    ASSUME SyncInv, db' = db, stale => stale', UNCHANGED <<reply, stream, client>>
    PROVE  FramesSound' /\ ViewSound'
    <1>1. FramesSound' BY FramesKept DEF SyncInv, FramesSound
    <1>2. ViewSound' BY DbKept DEF SyncInv, ViewSound
    <1> QED BY <1>1, <1>2

LEMMA SeedsKept ==
    ASSUME SyncInv, db' = db, seeding' = seeding PROVE SeedsCommitted'
    BY DbKept DEF SyncInv, SeedsCommitted

LEMMA IdleTypes ==
    /\ Empty \in Docs /\ Absent \in Versions /\ Absent.rev = None
    /\ NoFrame \in Frames /\ NoFrame.kind = "none" /\ NoFrame.rev = None
    /\ None \in None..Updates /\ None \in Int /\ None < 0
    /\ 0..Updates \subseteq None..Updates
    <1>1. None \in None..Updates /\ None \in Int /\ None < 0 /\ 0..Updates \subseteq None..Updates
        BY SyncAssumption DEF None
    <1>2. Empty \in Docs BY DEF Empty, Docs
    <1>3. Absent \in Versions /\ Absent.rev = None BY <1>1, <1>2 DEF Absent, Versions
    <1>4. NoFrame \in Frames /\ NoFrame.kind = "none" /\ NoFrame.rev = None
        BY <1>1, <1>2 DEF NoFrame, Frames
    <1> QED BY <1>1, <1>2, <1>3, <1>4

-----------------------------------------------------------------------------
(***************************************************************************)
(* SessionSync::seed.                                                      *)
(***************************************************************************)
Seeds == [pc : {"none", "entities", "revision", "publish"}, doc : Docs, rev : None..Updates]

LEMMA SeedMade ==
    ASSUME NEW x \in {"none", "entities", "revision", "publish"}, NEW d \in Docs,
           NEW n \in None..Updates
    PROVE  \E r \in Seeds : /\ r = [pc |-> x, doc |-> d, rev |-> n]
                            /\ r.pc = x /\ r.doc = d /\ r.rev = n
    <1>1. [pc |-> x, doc |-> d, rev |-> n] \in Seeds BY DEF Seeds
    <1> QED BY <1>1

LEMMA SeedIs ==
    ASSUME NEW r \in Seeds
    PROVE  /\ r = [pc |-> r.pc, doc |-> r.doc, rev |-> r.rev]
           /\ r.pc \in {"none", "entities", "revision", "publish"}
           /\ r.doc \in Docs /\ r.rev \in None..Updates
    BY DEF Seeds

LEMMA VersionMade ==
    ASSUME NEW d \in Docs, NEW n \in None..Updates
    PROVE  \E c \in Versions : /\ c = [doc |-> d, rev |-> n] /\ c.doc = d /\ c.rev = n
    <1>1. [doc |-> d, rev |-> n] \in Versions BY DEF Versions
    <1> QED BY <1>1

\* A seed reads a row, the entities, then the newest number.
LEMMA SeedReads ==
    ASSUME SyncInv, NEW p \in Tasks, SeedRow(p) \/ SeedEntities(p) \/ SeedRevision(p)
    PROVE  SyncInv'
    <1>1. UNCHANGED <<db, cache, sequence, writer, req, stream, reply, client, mishaps, stale>>
        BY DEF SeedRow, SeedEntities, SeedRevision
    <1>2. /\ seeding \in [Tasks -> Seeds] /\ seeding[p] \in Seeds /\ seeding[p].rev <= Newest
          /\ db.meta \in SUBSET (1..Updates) /\ db.ents \in SUBSET (1..Updates)
        BY DEF SyncInv, SyncTypeOK, SeedsCommitted, Seeds
    <1>3. PICK r \in Seeds : /\ seeding' = [seeding EXCEPT ![p] = r]
                             /\ r.rev <= Newest
                             /\ r.pc = "publish" => r.rev # None
        <2>0. Newest \in 0..Updates BY NewestFacts DEF SyncInv
        <2>1. CASE SeedRow(p)
            <3>1. [meta |-> db.meta, ents |-> {}] \in Docs BY <1>2 DEF Docs
            <3>2. PICK d \in Docs : d = [meta |-> db.meta, ents |-> {}] BY <3>1
            <3>3. PICK r \in Seeds : /\ r = [pc |-> "entities", doc |-> d, rev |-> None]
                                     /\ r.pc = "entities" /\ r.rev = None
                BY IdleTypes, SeedMade
            <3>4. seeding' = [seeding EXCEPT ![p] = r]
                BY <2>1, <3>2, <3>3 DEF SeedRow
            <3>5. r.rev <= Newest BY <2>0, <3>3, IdleTypes
            <3> QED BY <3>3, <3>4, <3>5
        <2>2. CASE SeedEntities(p)
            <3>1. seeding[p].doc \in Docs BY <1>2 DEF Seeds
            <3>2. PICK d \in Docs : d = [seeding[p].doc EXCEPT !.ents = db.ents]
                BY <1>2, <3>1 DEF Docs
            <3>3. PICK r \in Seeds : /\ r = [pc |-> "revision", doc |-> d, rev |-> seeding[p].rev]
                                     /\ r.pc = "revision" /\ r.rev = seeding[p].rev
                BY <1>2, SeedIs, SeedMade
            <3>4. seeding' = [seeding EXCEPT ![p] = r]
                <4>1. [seeding[p] EXCEPT !.pc = "revision", !.doc.ents = db.ents] = r
                    BY <1>2, <3>2, <3>3, SeedIs DEF Seeds
                <4>2. seeding' = [seeding EXCEPT ![p] =
                                    [seeding[p] EXCEPT !.pc = "revision", !.doc.ents = db.ents]]
                    BY <1>2, <2>2 DEF SeedEntities
                <4> QED BY <4>1, <4>2
            <3> QED BY <1>2, <3>3, <3>4
        <2>3. CASE SeedRevision(p)
            <3>1. PICK n \in 0..Updates : n = Newest BY <2>0
            <3>2. PICK r \in Seeds : /\ r = [pc |-> "publish", doc |-> seeding[p].doc, rev |-> n]
                                     /\ r.rev = n
                BY <1>2, IdleTypes, SeedIs, SeedMade
            <3>3. seeding' = [seeding EXCEPT ![p] = r]
                <4>1. [seeding[p] EXCEPT !.pc = "publish", !.rev = n] = r
                    BY <1>2, <3>2, SeedIs DEF Seeds
                <4>2. seeding' = [seeding EXCEPT ![p] =
                                    [seeding[p] EXCEPT !.pc = "publish", !.rev = n]]
                    BY <1>2, <2>3, <3>1 DEF SeedRevision
                <4> QED BY <4>1, <4>2
            <3>4. r.rev <= Newest /\ r.rev # None BY <2>0, <3>1, <3>2, IdleTypes
            <3> QED BY <3>3, <3>4
        <2> QED BY <2>1, <2>2, <2>3
    <1>4. seeding' \in [Tasks -> Seeds] BY <1>2, <1>3
    <1>5. SyncTypeOK' BY <1>1, <1>4 DEF SyncInv, SyncTypeOK, Seeds
    <1>6. SeedsCommitted'
        <2>1. \A q \in Tasks : seeding'[q] = IF q = p THEN r ELSE seeding[q] BY <1>2, <1>3
        <2> QED BY <1>1, <1>3, <2>1, DbKept DEF SyncInv, SeedsCommitted
    <1> QED BY <1>1, <1>5, <1>6, BackKept, FrontKept DEF SyncInv

\* A seed stores what it read; the history says whether it was outdated.
LEMMA SeedStores ==
    ASSUME SyncInv, NEW p \in Tasks, SeedPublish(p) PROVE SyncInv'
    <1>1. UNCHANGED <<db, sequence, writer, req, reply, client, mishaps>>
        BY DEF SeedPublish
    <1>2. seeding \in [Tasks -> Seeds] /\ seeding[p] \in Seeds
        BY DEF SyncInv, SyncTypeOK, Seeds
    <1>3. seeding[p].doc \in Docs /\ seeding[p].rev \in None..Updates /\ seeding[p].rev <= Newest
          /\ seeding[p].rev # None
        BY <1>2 DEF SyncInv, SeedsCommitted, SeedPublish, Seeds
    <1>4. PICK c \in Versions : /\ c = [doc |-> seeding[p].doc, rev |-> seeding[p].rev]
                                /\ c.rev <= Newest
        BY <1>3, VersionMade
    <1>5. cache' = c /\ stale' = (stale \/ Outdated(c)) BY <1>4 DEF SeedPublish
    <1>6. stale' \in BOOLEAN /\ (stale => stale') BY <1>5
    <1>7. NotSeeding \in Seeds /\ NotSeeding.rev = None /\ NotSeeding.pc = "none"
        BY IdleTypes DEF NotSeeding, Seeds
    <1>8. seeding' = [seeding EXCEPT ![p] = NotSeeding] BY DEF SeedPublish
    <1>9. seeding' \in [Tasks -> Seeds] BY <1>2, <1>7, <1>8
    <1>10. /\ stream' \in [on : BOOLEAN, after : None..Updates, ready : BOOLEAN, frames : Seq(Frames)]
           /\ stream'.frames = stream.frames
        <2>1. stream' = [stream EXCEPT !.ready = stream.ready \/ stream.on] BY DEF SeedPublish
        <2>2. stream \in [on : BOOLEAN, after : None..Updates, ready : BOOLEAN, frames : Seq(Frames)]
            BY DEF SyncInv, SyncTypeOK
        <2>3. PICK b \in BOOLEAN : b = (stream.ready \/ stream.on) OBVIOUS
        <2>4. stream' = [stream EXCEPT !.ready = b] BY <2>1, <2>3
        <2> QED BY <2>2, <2>4
    <1>11. SyncTypeOK' BY <1>1, <1>5, <1>6, <1>9, <1>10 DEF SyncInv, SyncTypeOK, Seeds
    <1>12. /\ Newest' = Newest /\ Stored' = Stored
           /\ \A r : Replay(r)' = Replay(r)
        BY <1>1, DbKept
    <1>13. JournalOrdered' /\ JournalReplays' /\ WriterNumbers'
        BY <1>1, <1>6, <1>12 DEF SyncInv, JournalOrdered, JournalReplays, WriterNumbers
    <1>14. WriterBased' BY <1>1, <1>6, <1>12 DEF SyncInv, WriterBased, Document, New
    <1>15. CacheSound'
        BY <1>1, <1>4, <1>5, <1>12 DEF CacheSound, Outdated
    <1>16. SeedsCommitted'
        <2>1. \A q \in Tasks : seeding'[q] = IF q = p THEN NotSeeding ELSE seeding[q]
            BY <1>2, <1>8
        <2>2. None <= Newest BY IdleTypes, NewestFacts DEF SyncInv, None
        <2> QED BY <1>7, <1>12, <2>1, <2>2 DEF SyncInv, SeedsCommitted
    <1>17. FramesSound'
        BY <1>1, <1>6, <1>10, FramesKept DEF SyncInv, FramesSound
    <1>18. ViewSound' BY <1>1, <1>6, <1>12 DEF SyncInv, ViewSound
    <1> QED BY <1>11, <1>13, <1>14, <1>15, <1>16, <1>17, <1>18 DEF SyncInv

-----------------------------------------------------------------------------
(***************************************************************************)
(* The writer.                                                             *)
(***************************************************************************)
Writers == [pc : {"idle", "load", "base", "commit", "publish"}, batch : BOOLEAN,
            loaded : Docs, base : Versions, seqs : Seq(1..Updates)]

LEMMA WriterLoaded ==
    ASSUME NEW w \in Writers, NEW d \in Docs
    PROVE  LET e == [w EXCEPT !.pc = "base", !.loaded = d]
           IN  /\ e \in Writers /\ e.pc = "base" /\ e.batch = w.batch /\ e.loaded = d
    BY DEF Writers

LEMMA WriterPlaced ==
    ASSUME NEW w \in Writers, NEW x \in {"idle", "load", "base", "commit", "publish"}
    PROVE  LET e == [w EXCEPT !.pc = x]
           IN  /\ e \in Writers /\ e.pc = x /\ e.batch = w.batch /\ e.loaded = w.loaded
               /\ e.base = w.base /\ e.seqs = w.seqs
    BY DEF Writers

LEMMA WriterBatch ==
    ASSUME NEW w \in Writers
    PROVE  LET e == [w EXCEPT !.pc = "base", !.batch = TRUE]
           IN  /\ e \in Writers /\ e.pc = "base" /\ e.batch = TRUE
    BY DEF Writers

LEMMA WriterIs ==
    ASSUME NEW w \in Writers
    PROVE  /\ w = [pc |-> w.pc, batch |-> w.batch, loaded |-> w.loaded, base |-> w.base,
                   seqs |-> w.seqs]
           /\ w.pc \in {"idle", "load", "base", "commit", "publish"} /\ w.batch \in BOOLEAN
           /\ w.loaded \in Docs /\ w.base \in Versions /\ w.seqs \in Seq(1..Updates)
    BY DEF Writers

LEMMA CacheIs ==
    ASSUME SyncInv
    PROVE  /\ cache \in Versions /\ cache.doc \in Docs /\ cache.rev \in None..Updates
           /\ writer \in Writers
    <1>1. cache \in Versions /\ writer \in Writers BY DEF SyncInv, SyncTypeOK, Writers
    <1>2. cache.doc \in Docs /\ cache.rev \in None..Updates BY <1>1 DEF Versions
    <1> QED BY <1>1, <1>2

LEMMA EmptyIsSeq == \A S : <<>> \in Seq(S)
    OBVIOUS

LEMMA IdleWriterIs ==
    /\ IdleWriter \in Writers /\ IdleWriter.pc = "idle" /\ IdleWriter.batch = FALSE
    BY EmptyIsSeq, IdleTypes DEF IdleWriter, Writers

\* A writer that is idle has no promises to keep.
LEMMA IdleWriterSound ==
    ASSUME writer' = IdleWriter PROVE WriterNumbers' /\ WriterBased'
    BY IdleWriterIs DEF WriterNumbers, WriterBased

\* A step of the writer before its commit.
LEMMA WriterMoves ==
    ASSUME SyncInv, NEW w \in Writers, writer' = w,
           UNCHANGED <<db, cache, req, seeding, stream, reply, client, mishaps, stale>>,
           writer.pc # "publish", sequence' \in 0..Updates, Newest <= sequence',
           WriterNumbers', WriterBased'
    PROVE  SyncInv'
    <1>1. /\ Newest' = Newest /\ Stored' = Stored
          /\ \A r : Replay(r)' = Replay(r)
        BY DbKept
    <1>2. SyncTypeOK' BY DEF SyncInv, SyncTypeOK, Writers
    <1>3. JournalOrdered' BY <1>1 DEF SyncInv, JournalOrdered
    <1>4. JournalReplays' BY <1>1 DEF SyncInv, JournalReplays
    <1>5. CacheSound' BY <1>1 DEF SyncInv, CacheSound
    <1> QED BY <1>2, <1>3, <1>4, <1>5, FrontKept, SeedsKept DEF SyncInv

LEMMA WriterBegins ==
    ASSUME SyncInv, BeginCommand \/ BeginBatch PROVE SyncInv'
    <1>1. /\ UNCHANGED <<db, cache, sequence, req, seeding, stream, reply, client, mishaps, stale>>
          /\ writer.pc = "idle"
        BY DEF BeginCommand, BeginBatch
    <1>2. sequence \in 0..Updates /\ Newest <= sequence
        BY DEF SyncInv, SyncTypeOK, JournalOrdered
    <1>3. CASE BeginCommand
        <2>1. PICK w \in Writers : /\ w = [IdleWriter EXCEPT !.pc = "load"]
                                   /\ w.pc = "load" /\ w.batch = FALSE
            <3>1. PICK w \in Writers : /\ w = [IdleWriter EXCEPT !.pc = "load"]
                                       /\ w.pc = "load" /\ w.batch = IdleWriter.batch
                BY ZenonT(60), IdleWriterIs, WriterPlaced
            <3>2. w.batch = FALSE BY <3>1, IdleWriterIs
            <3> QED BY <3>1, <3>2
        <2>2. writer' = w BY <1>3, <2>1 DEF BeginCommand
        <2>3. sequence + 1 <= Updates BY <1>2, <1>3, SyncAssumption DEF BeginCommand
        <2>4. WriterNumbers' BY <1>1, <2>1, <2>2, <2>3 DEF WriterNumbers
        <2>5. WriterBased' BY <2>1, <2>2 DEF WriterBased
        <2> QED BY <1>1, <1>2, <2>2, <2>4, <2>5, WriterMoves
    <1>4. CASE BeginBatch
        <2>1. PICK w \in Writers : /\ w = [IdleWriter EXCEPT !.pc = "base", !.batch = TRUE]
                                   /\ w.pc = "base" /\ w.batch = TRUE
            BY IdleWriterIs, WriterBatch
        <2>2. writer' = w BY <1>4, <2>1 DEF BeginBatch
        <2>3. sequence + 2 <= Updates BY <1>2, <1>4, SyncAssumption DEF BeginBatch
        <2>4. WriterNumbers' BY <1>1, <2>1, <2>2, <2>3 DEF WriterNumbers
        <2>5. WriterBased' BY <2>1, <2>2 DEF WriterBased
        <2> QED BY <1>1, <1>2, <2>2, <2>4, <2>5, WriterMoves
    <1> QED BY <1>3, <1>4

\* A command loads the stored document, unless the cache was outdated.
LEMMA WriterLoads ==
    ASSUME SyncInv, Load PROVE SyncInv'
    <1>1. /\ UNCHANGED <<db, cache, sequence, req, seeding, stream, reply, client, mishaps, stale>>
          /\ writer.pc = "load" /\ cache.rev # None
        BY DEF Load, Cached
    <1>2. PICK w \in Writers : /\ w = [writer EXCEPT !.pc = "base", !.loaded = cache.doc]
                               /\ w.pc = "base" /\ w.batch = writer.batch /\ w.loaded = cache.doc
        BY ZenonT(60), CacheIs, WriterLoaded
    <1>3. writer' = w BY <1>2 DEF Load
    <1>4. sequence \in 0..Updates /\ Newest <= sequence
        BY DEF SyncInv, SyncTypeOK, JournalOrdered
    <1>5. WriterNumbers' BY <1>1, <1>2, <1>3 DEF SyncInv, WriterNumbers
    <1>6. ~stale => cache = Stored BY <1>1 DEF SyncInv, CacheSound
    <1>7. WriterBased'
        BY <1>1, <1>2, <1>3, <1>6, DbKept DEF WriterBased
    <1> QED BY <1>1, <1>3, <1>4, <1>5, <1>7, WriterMoves

\* The base revision is read, and the numbers are taken.
LEMMA WriterBases ==
    ASSUME SyncInv, Base PROVE SyncInv'
    <1> DEFINE n == IF writer.batch THEN 2 ELSE 1
    <1>1. /\ UNCHANGED <<db, cache, req, seeding, stream, reply, client, mishaps, stale>>
          /\ writer.pc = "base" /\ cache.rev # None
        BY DEF Base, Cached
    <1>2. sequence \in 0..Updates /\ Newest <= sequence /\ Newest \in 0..Updates
          /\ sequence' = sequence + n /\ sequence + n <= Updates /\ Updates \in Nat
        BY <1>1, NewestFacts, SyncAssumption
           DEF SyncInv, SyncTypeOK, JournalOrdered, WriterNumbers, Base
    <1>3. n \in {1, 2} OBVIOUS
    <1>4. PICK s \in Seq(1..Updates) :
            /\ s = [i \in 1..n |-> sequence + i]
            /\ Len(s) = n /\ \A i \in 1..n : s[i] = sequence + i
        <2>1. [i \in 1..n |-> sequence + i] \in Seq(1..Updates)
              /\ Len([i \in 1..n |-> sequence + i]) = n
            BY <1>2, <1>3
        <2> QED BY <2>1
    <1>5. PICK w \in Writers :
            /\ w = [writer EXCEPT !.pc = "commit", !.base = cache,
                     !.loaded = IF writer.batch THEN cache.doc ELSE writer.loaded, !.seqs = s]
            /\ w.pc = "commit" /\ w.batch = writer.batch /\ w.base = cache /\ w.seqs = s
            /\ w.loaded = IF writer.batch THEN cache.doc ELSE writer.loaded
        <2>1. PICK d \in Docs : d = IF writer.batch THEN cache.doc ELSE writer.loaded
            BY CacheIs, WriterIs
        <2>2. PICK w : w = [writer EXCEPT !.pc = "commit", !.base = cache, !.loaded = d, !.seqs = s]
            OBVIOUS
        <2>3. /\ w \in Writers /\ w.pc = "commit" /\ w.batch = writer.batch /\ w.base = cache
              /\ w.seqs = s /\ w.loaded = d
            <3>1. s \in Seq(1..Updates) BY <1>4
            <3> HIDE DEF n
            <3>2. writer \in Writers /\ cache \in Versions BY CacheIs
            <3> QED BY <2>1, <2>2, <3>1, <3>2 DEF Writers
        <2>4. w = [writer EXCEPT !.pc = "commit", !.base = cache,
                     !.loaded = IF writer.batch THEN cache.doc ELSE writer.loaded, !.seqs = s]
            BY <2>1, <2>2
        <2> QED BY <2>1, <2>3, <2>4
    <1>6. writer' = w BY <1>4, <1>5 DEF Base
    <1>7. sequence' \in 0..Updates /\ Newest <= sequence' BY <1>2, <1>3
    <1>8. WriterNumbers'
        <2>1. Newest' = Newest BY <1>1, DbKept
        <2>2. s[1] = sequence + 1 /\ (writer.batch => s[2] = sequence + 2) /\ s[n] = sequence + n
            BY <1>4
        <2> QED BY <1>2, <1>4, <1>5, <1>6, <2>1, <2>2 DEF WriterNumbers
    <1>9. WriterBased'
        <2>1. ~stale => cache = Stored BY <1>1 DEF SyncInv, CacheSound
        <2>2. ~stale /\ ~writer.batch => writer.loaded = Stored.doc
            BY <1>1 DEF SyncInv, WriterBased
        <2> QED BY <1>1, <1>5, <1>6, <2>1, <2>2, DbKept DEF WriterBased
    <1> QED BY <1>1, <1>6, <1>7, <1>8, <1>9, WriterMoves

\* A transaction fails.
LEMMA WriterFails ==
    ASSUME SyncInv, CommitFails PROVE SyncInv'
    <1>1. /\ UNCHANGED <<db, cache, sequence, req, seeding, stream, reply, client, mishaps, stale>>
          /\ writer.pc = "commit" /\ writer' = IdleWriter
        BY DEF CommitFails
    <1>2. sequence \in 0..Updates /\ Newest <= sequence
        BY DEF SyncInv, SyncTypeOK, JournalOrdered
    <1> QED BY <1>1, <1>2, IdleWriterIs, IdleWriterSound, WriterMoves

\* The rows of a write: numbered after the journal, one or two of them.
LEMMA ChangesFacts ==
    ASSUME SyncInv, writer.pc = "commit"
    PROVE  /\ Changes(writer) \in Seq(Rows)
           /\ Len(Changes(writer)) = Len(writer.seqs) /\ Len(writer.seqs) \in {1, 2}
           /\ \A i \in 1..Len(writer.seqs) :
                /\ writer.seqs[i] \in 1..Updates /\ Newest < writer.seqs[i]
                /\ writer.seqs[i] <= writer.seqs[Len(writer.seqs)]
                /\ Changes(writer)[i].seq = writer.seqs[i]
                /\ Changes(writer)[i].ops = Both({writer.seqs[i]})
                /\ Changes(writer)[i].base = IF i = 1 THEN writer.base.rev ELSE writer.seqs[i - 1]
           /\ Len(writer.seqs) = 2 => writer.seqs[1] < writer.seqs[2]
    <1> DEFINE w == writer
    <1>0. PICK s \in Seq(1..Updates) : s = writer.seqs BY CacheIs, WriterIs
    <1>1. w.base \in Versions /\ w.batch \in BOOLEAN
        BY CacheIs, WriterIs
    <1>2. w.base.rev \in None..Updates BY <1>1 DEF Versions
    <1>3. Len(s) \in {1, 2} /\ Newest < s[1] /\ (Len(s) = 2 => s[1] < s[2])
        <2>1. /\ Len(s) = IF w.batch THEN 2 ELSE 1
              /\ w.batch => s[1] < s[2]
              /\ Newest < s[1]
            BY <1>0 DEF SyncInv, WriterNumbers
        <2> QED BY <1>1, <2>1
    <1>4. DOMAIN s = 1..Len(s) /\ \A i \in 1..Len(s) : s[i] \in 1..Updates
        <2>1. s \in [1..Len(s) -> 1..Updates] BY <1>0, LenProperties
        <2> QED BY <2>1
    <1>5. Newest \in Int /\ Updates \in Nat BY NewestFacts, SyncAssumption DEF SyncInv
    <1>6. \A i \in 1..Len(s) : Newest < s[i] /\ s[i] <= s[Len(s)]
        BY SMTT(60), <1>3, <1>4, <1>5
    <1>7. PICK c : /\ c = Changes(w)
                   /\ c = [i \in 1..Len(s) |->
                            [seq |-> s[i], base |-> IF i = 1 THEN w.base.rev ELSE s[i - 1],
                             ops |-> [meta |-> {s[i]}, ents |-> {s[i]}]]]
        BY <1>0, <1>4 DEF Changes
    <1>8. ASSUME NEW i \in 1..Len(s)
          PROVE  /\ c[i] \in Rows /\ c[i].seq = s[i] /\ c[i].ops = Both({s[i]})
                 /\ c[i].base = IF i = 1 THEN w.base.rev ELSE s[i - 1]
        <2>1. PICK o \in Docs : o = [meta |-> {s[i]}, ents |-> {s[i]}]
            BY <1>4 DEF Docs
        <2>2. PICK b \in None..Updates : b = IF i = 1 THEN w.base.rev ELSE s[i - 1]
            <3>1. CASE i = 1 BY <1>2, <3>1
            <3>2. CASE i # 1
                <4>1. i - 1 \in 1..Len(s) BY <1>3, <3>2
                <4>2. s[i - 1] \in 1..Updates BY <1>4, <4>1
                <4> QED BY <3>2, <4>2, <1>5, IdleTypes DEF None
            <3> QED BY <3>1, <3>2
        <2>3. c[i] = [seq |-> s[i], base |-> b, ops |-> o] BY <1>7, <2>1, <2>2
        <2>4. s[i] \in 1..Updates BY <1>4
        <2>5. c[i] \in Rows BY <2>3, <2>4 DEF Rows
        <2> QED BY <2>1, <2>2, <2>3, <2>5 DEF Both
    <1>9. c \in Seq(Rows) /\ Len(c) = Len(s)
        <2>1. Len(s) \in Nat BY <1>3
        <2>2. DOMAIN c = 1..Len(s) BY <1>7
        <2>3. c = [i \in 1..Len(s) |-> c[i]] BY <1>7
        <2>4. c \in [1..Len(s) -> Rows] BY <1>8, <2>3
        <2>5. c \in Seq(Rows) BY <2>1, <2>4, SeqDef
        <2> QED BY <2>1, <2>2, <2>5, LenProperties
    <1> QED BY ZenonT(60), <1>0, <1>3, <1>4, <1>6, <1>7, <1>8, <1>9

\* The rows are appended to the journal.
LEMMA RowsAppended ==
    ASSUME SyncInv, Commit
    PROVE  LET L == Len(db.rows)
               n == Len(writer.seqs)
           IN  /\ db'.rows \in Seq(Rows) /\ Len(db'.rows) = L + n /\ L \in Nat
               /\ DOMAIN db'.rows = 1..(L + n)
               /\ \A i \in 1..L : db'.rows[i] = db.rows[i]
               /\ \A i \in 1..n : db'.rows[L + i] = Changes(writer)[i]
    <1>1. writer.pc = "commit" /\ db'.rows = db.rows \o Changes(writer) BY DEF Commit
    <1>2. db.rows \in Seq(Rows) BY DEF SyncInv, SyncTypeOK
    <1>3. /\ Changes(writer) \in Seq(Rows) /\ Len(Changes(writer)) = Len(writer.seqs)
          /\ Len(writer.seqs) \in {1, 2}
        BY <1>1, ChangesFacts
    <1>4a. PICK a \in Seq(Rows), c \in Seq(Rows) :
            /\ a = db.rows /\ c = Changes(writer)
            /\ Len(c) = Len(writer.seqs) /\ Len(c) \in {1, 2}
        BY <1>1, <1>2, <1>3
    <1>4b. PICK e : e = db'.rows /\ e = a \o c BY <1>1, <1>4a
    <1>4. /\ a \in Seq(Rows) /\ c \in Seq(Rows) /\ a = db.rows /\ c = Changes(writer)
          /\ e = db'.rows /\ e = a \o c
          /\ Len(c) = Len(writer.seqs) /\ Len(c) \in {1, 2}
        BY <1>4a, <1>4b
    <1>5. /\ e \in Seq(Rows) /\ Len(e) = Len(a) + Len(c) /\ Len(a) \in Nat
          /\ DOMAIN e = 1..(Len(a) + Len(c))
        <2>1. a \o c \in Seq(Rows) /\ Len(a \o c) = Len(a) + Len(c)
            BY <1>4, ConcatProperties
        <2>2. e \in Seq(Rows) /\ Len(e) = Len(a) + Len(c) BY <1>4, <2>1
        <2>3. Len(a) \in Nat BY <1>4, LenProperties
        <2>4. DOMAIN e = 1..Len(e) BY <2>2, LenProperties
        <2> QED BY <2>2, <2>3, <2>4
    <1>6. \A i \in 1..Len(a) : e[i] = a[i]
        BY <1>4, <1>5, ConcatProperties
    <1>7. \A i \in 1..Len(c) : e[Len(a) + i] = c[i]
        BY <1>4, <1>5, ConcatProperties
    <1> QED BY <1>4, <1>5, <1>6, <1>7

\* The transaction keeps the types.
LEMMA CommitTypes ==
    ASSUME SyncInv, Commit
    PROVE  /\ SyncTypeOK'
           /\ writer'.pc = "publish" /\ writer'.seqs = writer.seqs /\ writer'.batch = writer.batch
           /\ writer'.loaded = writer.loaded /\ writer'.base = writer.base
           /\ New(writer) \subseteq 1..Updates
    <1>1. /\ UNCHANGED <<cache, sequence, req, seeding, stream, reply, client, mishaps, stale>>
          /\ writer.pc = "commit" /\ writer' = [writer EXCEPT !.pc = "publish"]
        BY DEF Commit
    <1>2. New(writer) \subseteq 1..Updates
        <2>1. PICK s \in Seq(1..Updates) : s = writer.seqs BY CacheIs, WriterIs
        <2>2. \A i \in DOMAIN s : s[i] \in 1..Updates BY <2>1, ElementOfSeq, LenProperties
        <2> QED BY <2>1, <2>2 DEF New
    <1>3. /\ writer' \in Writers /\ writer'.pc = "publish" /\ writer'.seqs = writer.seqs
          /\ writer'.batch = writer.batch /\ writer'.loaded = writer.loaded
          /\ writer'.base = writer.base
        BY <1>1, CacheIs, WriterPlaced
    <1>4. writer.loaded \in Docs /\ writer.base \in Versions BY CacheIs, WriterIs
    <1>5. writer.base.doc \in Docs BY <1>4 DEF Versions
    <1>6. /\ writer.loaded.meta \subseteq 1..Updates /\ writer.base.doc.ents \subseteq 1..Updates
          /\ db.ents \subseteq 1..Updates
        BY <1>4, <1>5 DEF Docs, SyncInv, SyncTypeOK
    <1>7. /\ db'.rows \in Seq(Rows)
          /\ db' = [rows |-> db'.rows, meta |-> Document(writer).meta,
                    ents |-> db.ents \cup (Document(writer).ents \ writer.base.doc.ents)]
        BY RowsAppended DEF Commit
    <1>8. /\ Document(writer).meta \subseteq 1..Updates
          /\ Document(writer).ents \subseteq 1..Updates
        BY <1>2, <1>6 DEF Document
    <1>9. PICK r \in Seq(Rows), m \in SUBSET (1..Updates), e \in SUBSET (1..Updates) :
            db' = [rows |-> r, meta |-> m, ents |-> e]
        BY <1>6, <1>7, <1>8
    <1>10. db' \in [rows : Seq(Rows), meta : SUBSET (1..Updates), ents : SUBSET (1..Updates)]
        BY <1>9
    <1>11. SyncTypeOK' BY <1>1, <1>3, <1>10 DEF SyncInv, SyncTypeOK, Writers
    <1> QED BY <1>2, <1>3, <1>11

\* The journal after a transaction: in order, and the same up to the revision
\* that was the newest.
LEMMA CommitJournal ==
    ASSUME SyncInv, Commit
    PROVE  /\ JournalOrdered' /\ Newest' = writer.seqs[Len(writer.seqs)] /\ Newest < Newest'
           /\ Newest' \in Int
           /\ \A b, r \in Int : r <= Newest => Between(b, r)' = Between(b, r)
           /\ Between(0, Newest)' = Between(0, Newest) \cup New(writer)
    <1>0. writer.pc = "commit" /\ SyncTypeOK /\ SyncTypeOK' /\ JournalOrdered
        BY CommitTypes DEF Commit, SyncInv
    <1>1. PICK n \in {1, 2}, s \in Seq(1..Updates), N \in Int :
            /\ s = writer.seqs /\ n = Len(s) /\ N = Newest
            /\ (n = 2 => s[1] < s[2])
            /\ \A i \in 1..n : s[i] \in 1..Updates /\ s[i] \in Int /\ N < s[i] /\ s[i] <= s[n]
        <2>1. writer.seqs \in Seq(1..Updates) /\ Newest \in Int
            BY <1>0, CacheIs, WriterIs, NewestFacts
        <2>2. \A x \in 1..Updates : x \in Int OBVIOUS
        <2> QED BY <1>0, <2>1, <2>2, ChangesFacts
    <1>2. PICK L \in Nat, e \in Seq(Rows), a \in Seq(Rows) :
            /\ e = db'.rows /\ a = db.rows /\ L = Len(a)
            /\ DOMAIN e = 1..(L + n) /\ Len(e) = L + n
            /\ \A i \in 1..L : e[i] = a[i]
            /\ \A i \in 1..n : e[L + i] = Changes(writer)[i]
        BY <1>0, <1>1, RowsAppended, RowFields
    <1>2a. n \in Int /\ (n = 1 \/ n = 2) /\ L \in Nat
        <2>1. n \in {1, 2} BY <1>1
        <2> QED BY <1>2, <2>1
    <1>3. \A i \in 1..n : /\ e[L + i].seq = s[i] /\ e[L + i].ops = Both({s[i]})
        BY ZenonT(60), <1>0, <1>1, <1>2, ChangesFacts
    <1>4. DOMAIN a = 1..L BY <1>2, LenProperties
    <1>5. \A k \in 1..(L + n) : k \in 1..L \/ \E i \in 1..n : k = L + i
        <2> SUFFICES ASSUME NEW k \in 1..(L + n), k \notin 1..L PROVE \E i \in 1..n : k = L + i
            OBVIOUS
        <2>1. k - L \in 1..n /\ k = L + (k - L) BY <1>2a
        <2> QED BY <2>1
    <1>6. \A i \in 1..L : a[i].seq <= N /\ a[i].seq \in Int /\ 0 < a[i].seq
        <2>1. \A i \in DOMAIN db.rows : db.rows[i].seq <= Newest /\ db.rows[i].seq \in 1..Updates
            BY <1>0, NewestFacts, RowFields
        <2> QED BY <1>1, <1>2, <1>4, <2>1
    <1>7. Newest' = s[n]
        <2>1. L + n \in 1..(L + n) /\ L + n # 0 BY <1>2a
        <2>2. db'.rows # <<>> /\ Len(db'.rows) = L + n BY <1>2, <2>1, EmptySeq
        <2>4. Newest' = e[L + n].seq BY <1>2, <2>2 DEF Newest
        <2>3. n \in 1..n BY <1>2a
        <2> QED BY <1>3, <2>3, <2>4
    <1>8. Newest < Newest' /\ Newest' \in Int
        <2>1. n \in 1..n BY <1>2a
        <2> QED BY <1>1, <1>7, <2>1
    <1>9. \A k \in 1..(L + n) : e[k].ops = Both({e[k].seq})
        <2>1. \A k \in 1..L : e[k].ops = Both({e[k].seq})
            BY <1>0, <1>2, <1>4 DEF JournalOrdered
        <2>2. \A i \in 1..n : e[L + i].ops = Both({e[L + i].seq}) BY <1>3
        <2> QED BY <1>5, <2>1, <2>2
    <1>10. \A j, k \in 1..(L + n) : j < k => e[j].seq < e[k].seq
        <2> SUFFICES ASSUME NEW j \in 1..(L + n), NEW k \in 1..(L + n), j < k
                     PROVE  e[j].seq < e[k].seq
            OBVIOUS
        <2>1. CASE k \in 1..L
            <3>1. j \in 1..L BY <1>2, <2>1
            <3> QED BY <1>0, <1>2, <1>4, <2>1, <3>1 DEF JournalOrdered
        <2>2. CASE \E i \in 1..n : k = L + i
            <3>1. PICK i \in 1..n : k = L + i BY <2>2
            <3>2. e[k].seq = s[i] /\ s[i] \in Int /\ N < s[i] BY <1>1, <1>3, <3>1
            <3>3. CASE j \in 1..L
                <4>1. e[j].seq <= N /\ e[j].seq \in Int BY <1>2, <1>6, <3>3
                <4> QED BY <1>1, <3>2, <4>1
            <3>4. CASE \E h \in 1..n : j = L + h
                <4>1. PICK h \in 1..n : j = L + h BY <3>4
                <4>2. h = 1 /\ i = 2 /\ n = 2 BY SMTT(60), <1>1, <1>2, <3>1, <4>1
                <4>3. e[j].seq = s[1] BY <1>3, <4>1, <4>2
                <4> QED BY <1>1, <3>2, <4>2, <4>3
            <3> QED BY <1>5, <3>3, <3>4
        <2> QED BY <1>5, <2>1, <2>2
    <1>11. JournalOrdered'
        <2>1. Newest' <= sequence'
            BY <1>0, <1>1, <1>7 DEF SyncInv, WriterNumbers, Commit
        <2> QED BY <1>2, <1>9, <1>10, <2>1 DEF JournalOrdered
    <1>12. ASSUME NEW b \in Int, NEW r \in Int, r <= Newest
           PROVE  Between(b, r)' = Between(b, r)
        <2>1. \A i \in 1..n : ~(e[L + i].seq <= r)
            <3> SUFFICES ASSUME NEW i \in 1..n PROVE ~(e[L + i].seq <= r) OBVIOUS
            <3>1. e[L + i].seq = s[i] /\ s[i] \in Int /\ N < s[i] BY <1>1, <1>3
            <3> QED BY <1>1, <1>12, <3>1
        <2>2. {k \in 1..(L + n) : b < e[k].seq /\ e[k].seq <= r}
                = {k \in 1..L : b < a[k].seq /\ a[k].seq <= r}
            <3>1. \A k \in 1..(L + n) : e[k].seq <= r => k \in 1..L BY <1>5, <2>1
            <3>2. 1..L \subseteq 1..(L + n) BY <1>2a
            <3>3. \A k \in 1..L : e[k].seq = a[k].seq BY <1>2
            <3> QED BY <3>1, <3>2, <3>3
        <2>3. Between(b, r)' = {e[k].seq : k \in {k \in 1..(L + n) : b < e[k].seq /\ e[k].seq <= r}}
            BY <1>2 DEF Between
        <2>4. Between(b, r) = {a[k].seq : k \in {k \in 1..L : b < a[k].seq
                                                                    /\ a[k].seq <= r}}
            BY <1>2, <1>4 DEF Between
        <2>5. \A k \in 1..L : e[k].seq = a[k].seq BY <1>2
        <2>6. \A K : K \subseteq 1..L => {e[k].seq : k \in K} = {a[k].seq : k \in K} BY <2>5
        <2> QED BY <2>2, <2>3, <2>4, <2>6
    <1>13. Between(0, Newest)' = Between(0, Newest) \cup New(writer)
        <2>1. \A k \in 1..(L + n) : 0 < e[k].seq /\ e[k].seq <= Newest'
            <3> SUFFICES ASSUME NEW k \in 1..(L + n) PROVE 0 < e[k].seq /\ e[k].seq <= Newest'
                OBVIOUS
            <3>0. e[k] \in Rows BY <1>2, ElementOfSeq
            <3>1. e[k].seq \in 1..Updates BY <3>0 DEF Rows
            <3>2. L + n \in 1..(L + n) /\ (k = L + n \/ k < L + n) BY <1>2a
            <3>3. n \in 1..n BY <1>2a
            <3>4. e[L + n].seq = Newest' BY <1>3, <1>7, <3>3
            <3>5. k < L + n => e[k].seq < e[L + n].seq BY <1>10, <3>2
            <3> QED BY <1>8, <3>1, <3>2, <3>4, <3>5
        <2>2. Between(0, Newest)' = {e[k].seq : k \in {k \in 1..(L + n) : 0 < e[k].seq
                                                                      /\ e[k].seq <= Newest'}}
            BY <1>2 DEF Between
        <2>3. {k \in 1..(L + n) : 0 < e[k].seq /\ e[k].seq <= Newest'} = 1..(L + n)
            BY <2>1
        <2>4. Between(0, Newest)' = {e[k].seq : k \in 1..(L + n)} BY <2>2, <2>3
        <2>6. Between(0, Newest) = {a[k].seq : k \in 1..L} BY ZenonT(60), <1>1, <1>2, <1>4, <1>6 DEF Between
        <2>7. New(writer) = {s[i] : i \in 1..n}
            <3>1. DOMAIN s = 1..n BY <1>1, LenProperties
            <3> QED BY <1>1, <3>1 DEF New
        <2>8. \A x : x \in {e[k].seq : k \in 1..(L + n)}
                     <=> x \in {a[k].seq : k \in 1..L} \/ x \in {s[i] : i \in 1..n}
            <3> SUFFICES ASSUME NEW x
                         PROVE  (\E k \in 1..(L + n) : x = e[k].seq)
                                  <=> \/ \E k \in 1..L : x = a[k].seq
                                      \/ \E i \in 1..n : x = s[i]
                OBVIOUS
            <3>1. ASSUME NEW k \in 1..(L + n), x = e[k].seq
                  PROVE  (\E h \in 1..L : x = a[h].seq) \/ \E i \in 1..n : x = s[i]
                BY ZenonT(60), <1>2, <1>3, <1>5, <3>1
            <3>2. ASSUME NEW k \in 1..L, x = a[k].seq
                  PROVE  \E h \in 1..(L + n) : x = e[h].seq
                <4>1. k \in 1..(L + n) BY <1>2a
                <4> QED BY <1>2, <3>2, <4>1
            <3>3. ASSUME NEW i \in 1..n, x = s[i]
                  PROVE  \E h \in 1..(L + n) : x = e[h].seq
                <4>1. L + i \in 1..(L + n) BY <1>2a
                <4> QED BY <1>3, <3>3, <4>1
            <3> QED BY <3>1, <3>2, <3>3
        <2> QED BY <2>4, <2>6, <2>7, <2>8
    <1> QED BY <1>1, <1>7, <1>8, <1>11, <1>12, <1>13

\* What was committed up to an earlier revision is the same afterwards.
LEMMA CommitReplays ==
    ASSUME SyncInv, Commit
    PROVE  /\ \A r \in Int : r <= Newest => Replay(r)' = Replay(r)
           /\ \A f \in Frames : FrameSound(f) => FrameSound(f)'
           /\ \A r \in Int : r <= Newest => r <= Newest'
           /\ Stored'.doc = [meta |-> db'.meta, ents |-> db'.ents] /\ Stored'.rev = Newest'
           /\ Replay(Newest)' = Both(Between(0, Newest) \cup New(writer))
    <1>1. SyncTypeOK /\ SyncTypeOK' /\ JournalOrdered /\ JournalOrdered'
          /\ Newest \in Int /\ Newest' \in Int /\ Newest < Newest'
        BY CommitTypes, CommitJournal, NewestFacts DEF SyncInv
    <1>2. ASSUME NEW r \in Int PROVE Replay(r) = Both(Between(0, r))
        BY <1>1, ReplayIs
    <1>3. ASSUME NEW r \in Int PROVE Replay(r)' = Both(Between(0, r)')
        <2>1. PICK a \in Seq(Rows) : a = db'.rows BY <1>1 DEF SyncTypeOK
        <2>2. \A i \in DOMAIN a : a[i].ops = Both({a[i].seq}) BY <1>1, <2>1 DEF JournalOrdered
        <2>3. \A i \in DOMAIN a : 0 < a[i].seq
            <3> SUFFICES ASSUME NEW i \in DOMAIN a PROVE 0 < a[i].seq OBVIOUS
            <3>1. a[i] \in Rows BY <2>1, LenProperties, ElementOfSeq
            <3>2. a[i].seq \in 1..Updates BY <3>1 DEF Rows
            <3> QED BY <3>2
        <2>4. \A i \in DOMAIN a : a[i].ops = Both({a[i].seq}) /\ 0 < a[i].seq BY <2>2, <2>3
        <2>5. Replay(r)' = RowsUpTo(a, r) BY <2>1 DEF Replay, RowsUpTo
        <2>6. Between(0, r)' = {a[i].seq : i \in {j \in DOMAIN a : 0 < a[j].seq /\ a[j].seq <= r}}
            BY <2>1 DEF Between
        <2> QED BY <2>4, <2>5, <2>6, RowsReplay
    <1>4. ASSUME NEW r \in Int, r <= Newest PROVE Replay(r)' = Replay(r)
        <2>1. Between(0, r)' = Between(0, r) BY <1>4, CommitJournal
        <2> QED BY <1>2, <1>3, <2>1
    <1>5. ASSUME NEW r \in Int, r <= Newest PROVE r <= Newest'
        BY <1>1, <1>5
    <1>6. ASSUME NEW f \in Frames, FrameSound(f) PROVE FrameSound(f)'
        <2>1. f.rev \in Int /\ f.base \in Int /\ f.rev <= Newest
            BY <1>6, IdleTypes, SyncAssumption DEF Frames, FrameSound
        <2>2. /\ Replay(f.rev)' = Replay(f.rev) /\ Between(f.base, f.rev)' = Between(f.base, f.rev)
              /\ f.rev <= Newest'
            BY <1>4, <1>5, <2>1, CommitJournal
        <2>3. stale' = stale BY DEF Commit
        <2> QED BY <1>6, <2>2, <2>3 DEF FrameSound
    <1>7. Stored'.doc = [meta |-> db'.meta, ents |-> db'.ents] /\ Stored'.rev = Newest'
        BY DEF Stored
    <1>8. Replay(Newest)' = Both(Between(0, Newest) \cup New(writer))
        BY <1>1, <1>3, CommitJournal
    <1> QED BY <1>4, <1>5, <1>6, <1>7, <1>8

\* The stored document is what was committed, before and after.
LEMMA CommitStores ==
    ASSUME SyncInv, Commit, ~stale
    PROVE  /\ Stored'.doc = Both(Between(0, Newest) \cup New(writer))
           /\ Document(writer) = Both(Between(0, Newest) \cup New(writer))
    <1>1. writer.pc = "commit" BY DEF Commit
    <1>2. writer.base = Stored /\ writer.loaded = Stored.doc
        BY <1>1 DEF SyncInv, WriterBased
    <1>3. Stored.doc = Replay(Newest) BY DEF SyncInv, JournalReplays
    <1>4. Stored.doc = Both(Between(0, Newest))
        BY <1>3, ReplayIs, NewestFacts DEF SyncInv
    <1>5. db.meta = Between(0, Newest) /\ db.ents = Between(0, Newest)
        <2>1. Stored.doc = [meta |-> db.meta, ents |-> db.ents] BY DEF Stored
        <2> QED BY <1>4, <2>1 DEF Both
    <1>6. writer.loaded.meta = Between(0, Newest) /\ writer.base.doc.ents = Between(0, Newest)
        BY <1>2, <1>4 DEF Both
    <1>7. Document(writer) = Both(Between(0, Newest) \cup New(writer))
        BY <1>6 DEF Document, Both
    <1>8. /\ db'.meta = Document(writer).meta
          /\ db'.ents = db.ents \cup (Document(writer).ents \ writer.base.doc.ents)
        BY DEF Commit
    <1>9. db'.meta = Between(0, Newest) \cup New(writer)
          /\ db'.ents = Between(0, Newest) \cup New(writer)
        BY <1>5, <1>6, <1>7, <1>8 DEF Both
    <1> QED BY <1>7, <1>9, CommitReplays DEF Both

\* A transaction keeps the chain of the rows.
LEMMA CommitChains ==
    ASSUME SyncInv, Commit, ~stale
    PROVE  \A i \in DOMAIN db'.rows :
             db'.rows[i].base = IF i = 1 THEN 0 ELSE db'.rows[i - 1].seq
    <1>0. writer.pc = "commit" /\ SyncTypeOK BY DEF Commit, SyncInv
    <1>1. PICK n \in {1, 2}, s \in Seq(1..Updates) :
            /\ s = writer.seqs /\ n = Len(s)
            /\ \A i \in 1..n : /\ Changes(writer)[i].seq = s[i]
                               /\ Changes(writer)[i].base =
                                    IF i = 1 THEN writer.base.rev ELSE s[i - 1]
        <2>1. Len(writer.seqs) \in {1, 2} /\ writer.seqs \in Seq(1..Updates)
            BY <1>0, ChangesFacts, CacheIs, WriterIs
        <2>2. PICK n \in {1, 2}, s \in Seq(1..Updates) : s = writer.seqs /\ n = Len(s) BY <2>1
        <2>3. \A i \in 1..n : /\ Changes(writer)[i].seq = s[i]
                              /\ Changes(writer)[i].base =
                                   IF i = 1 THEN writer.base.rev ELSE s[i - 1]
            BY <1>0, <2>2, ChangesFacts
        <2> QED BY <2>2, <2>3
    <1>2. PICK L \in Nat, e \in Seq(Rows), a \in Seq(Rows) :
            /\ e = db'.rows /\ a = db.rows /\ L = Len(a)
            /\ DOMAIN e = 1..(L + n)
            /\ \A i \in 1..L : e[i] = a[i]
            /\ \A i \in 1..n : e[L + i] = Changes(writer)[i]
        BY ZenonT(60), <1>0, <1>1, RowsAppended, RowFields
    <1>3. n \in Int /\ (n = 1 \/ n = 2) /\ L \in Nat
        <2>1. n \in {1, 2} BY <1>1
        <2> QED BY <1>2, <2>1
    <1>4. DOMAIN a = 1..L BY <1>2, LenProperties
    <1>5. writer.base.rev = IF L = 0 THEN 0 ELSE a[L].seq
        <2>1. writer.base = Stored BY <1>0 DEF SyncInv, WriterBased
        <2>2. writer.base.rev = Newest BY <2>1 DEF Stored
        <2>3. CASE L = 0
            <3>1. db.rows = <<>> BY <1>2, <2>3, EmptySeq
            <3> QED BY <1>0, <2>2, <2>3, <3>1, NewestFacts
        <2>4. CASE L # 0
            <3>1. db.rows # <<>> BY <1>2, <2>4, EmptySeq
            <3> QED BY <1>0, <1>2, <2>2, <2>4, <3>1, NewestFacts
        <2> QED BY <2>3, <2>4
    <1>6. ASSUME NEW i \in 1..(L + n)
          PROVE  e[i].base = IF i = 1 THEN 0 ELSE e[i - 1].seq
        <2>1. CASE i \in 1..L
            <3>1. a[i].base = IF i = 1 THEN 0 ELSE a[i - 1].seq
                BY <1>2, <1>4, <2>1 DEF SyncInv, JournalReplays
            <3>2. i # 1 => i - 1 \in 1..L BY <1>3, <2>1
            <3> QED BY <1>2, <2>1, <3>1, <3>2
        <2>2. CASE i = L + 1
            <3>1. 1 \in 1..n BY <1>3
            <3>2. e[i].base = writer.base.rev BY SMTT(60), <1>1, <1>2, <2>2, <3>1
            <3>3. i = 1 <=> L = 0 BY <1>3, <2>2
            <3>4. L # 0 => L \in 1..L /\ i - 1 = L BY <1>3, <2>2
            <3> QED BY <1>2, <1>5, <3>2, <3>3, <3>4
        <2>3. CASE n = 2 /\ i = L + 2
            <3>1. 1 \in 1..n /\ 2 \in 1..n /\ i # 1 /\ i - 1 = L + 1 BY <1>3, <2>3
            <3>2. e[L + 2].base = s[1]
                <4>1. Changes(writer)[2].base = s[1] BY <1>1, <3>1
                <4> QED BY <1>2, <3>1, <4>1
            <3>3. e[L + 1].seq = s[1] BY <1>1, <1>2, <3>1
            <3> QED BY <2>3, <3>1, <3>2, <3>3
        <2> QED BY <1>3, <2>1, <2>2, <2>3
    <1> QED BY <1>2, <1>6

LEMMA WriterCommits ==
    ASSUME SyncInv, Commit PROVE SyncInv'
    <1>1. /\ UNCHANGED <<cache, sequence, req, seeding, stream, reply, client, mishaps, stale>>
          /\ writer.pc = "commit"
        BY DEF Commit
    <1>2. /\ SyncTypeOK' /\ writer'.pc = "publish" /\ writer'.seqs = writer.seqs
          /\ writer'.batch = writer.batch /\ writer'.loaded = writer.loaded
          /\ writer'.base = writer.base
        BY CommitTypes
    <1>3. /\ JournalOrdered' /\ Newest' = writer.seqs[Len(writer.seqs)] /\ Newest' \in Int
        BY CommitJournal
    <1>4. JournalReplays'
        BY <1>1, CommitStores, CommitChains, CommitReplays DEF JournalReplays
    <1>5. WriterNumbers' BY <1>1, <1>2, <1>3 DEF SyncInv, WriterNumbers
    <1>6. WriterBased'
        <2>1. Document(writer)' = Document(writer) BY <1>2 DEF Document, New
        <2> QED BY <1>1, <1>2, <2>1, CommitStores DEF WriterBased
    <1>7. CacheSound'
        <2>1. cache.rev \in Int BY CacheIs, IdleTypes, SyncAssumption
        <2>2. PICK r \in Int : r = cache.rev /\ r <= Newest BY <2>1 DEF SyncInv, CacheSound
        <2>3. r <= Newest' /\ Replay(r)' = Replay(r) BY <2>2, CommitReplays
        <2>4. ~stale /\ cache.rev # None => cache.doc = Replay(r)
            BY <2>2 DEF SyncInv, CacheSound
        <2> QED BY <1>1, <1>2, <2>2, <2>3, <2>4 DEF CacheSound
    <1>8. SeedsCommitted'
        <2>1. \A p \in Tasks : seeding[p].rev \in Int
            <3> SUFFICES ASSUME NEW p \in Tasks PROVE seeding[p].rev \in Int OBVIOUS
            <3>1. seeding[p] \in Seeds BY DEF SyncInv, SyncTypeOK, Seeds
            <3> QED BY <3>1, SeedIs, IdleTypes, SyncAssumption
        <2> QED BY <1>1, <2>1, CommitReplays DEF SyncInv, SeedsCommitted
    <1>9. FramesSound'
        <2>1. reply \in Frames /\ \A i \in DOMAIN stream.frames : stream.frames[i] \in Frames
            <3>1. PICK q \in Seq(Frames) : q = stream.frames BY DEF SyncInv, SyncTypeOK
            <3>2. \A i \in DOMAIN q : q[i] \in Frames BY <3>1, LenProperties, ElementOfSeq
            <3> QED BY <3>1, <3>2 DEF SyncInv, SyncTypeOK
        <2> QED BY <1>1, <2>1, CommitReplays DEF SyncInv, FramesSound
    <1>10. ViewSound'
        <2>1. client.view \in Versions BY DEF SyncInv, SyncTypeOK
        <2>2. client.view.rev \in Int BY <2>1, IdleTypes, SyncAssumption DEF Versions
        <2> QED BY <1>1, <2>2, CommitReplays DEF SyncInv, ViewSound
    <1> QED BY <1>2, <1>3, <1>4, <1>5, <1>6, <1>7, <1>8, <1>9, <1>10 DEF SyncInv

-----------------------------------------------------------------------------
(***************************************************************************)
(* What the browser and the transports hold.                               *)
(***************************************************************************)
Streams == [on : BOOLEAN, after : None..Updates, ready : BOOLEAN, frames : Seq(Frames)]
Reqs == [pc : {"idle", "head", "rows", "latest"}, after : None..Updates]
Clients == [view : Versions, boot : BOOLEAN, catchup : BOOLEAN, target : 0..Updates]

LEMMA FrontTypes ==
    ASSUME SyncInv
    PROVE  /\ stream \in Streams /\ stream.frames \in Seq(Frames) /\ stream.after \in None..Updates
           /\ req \in [Requests -> Reqs] /\ client \in Clients /\ reply \in Frames
           /\ client.view \in Versions /\ client.view.rev \in None..Updates
           /\ client.view.doc \in Docs /\ client.target \in 0..Updates
    <1>1. stream \in Streams /\ req \in [Requests -> Reqs] /\ client \in Clients /\ reply \in Frames
        BY DEF SyncInv, SyncTypeOK, Streams, Reqs, Clients
    <1>2. stream.frames \in Seq(Frames) /\ stream.after \in None..Updates BY <1>1 DEF Streams
    <1>3. client.view \in Versions /\ client.target \in 0..Updates BY <1>1 DEF Clients
    <1>4. client.view.rev \in None..Updates /\ client.view.doc \in Docs BY <1>3 DEF Versions
    <1> QED BY <1>1, <1>2, <1>3, <1>4

LEMMA IdleFrontTypes ==
    /\ IdleRequest \in Reqs
    /\ ClosedStream \in Streams /\ ClosedStream.frames = <<>>
    /\ NotSeeding \in Seeds /\ NotSeeding.rev = None /\ NotSeeding.pc = "none"
    <1>1. IdleRequest \in Reqs BY IdleTypes DEF IdleRequest, Reqs
    <1>2. ClosedStream \in Streams /\ ClosedStream.frames = <<>>
        BY IdleTypes, EmptyIsSeq DEF ClosedStream, Streams
    <1>3. NotSeeding \in Seeds /\ NotSeeding.rev = None /\ NotSeeding.pc = "none"
        BY IdleTypes DEF NotSeeding, Seeds
    <1> QED BY <1>1, <1>2, <1>3

\* A step that leaves the journal, the cache and the writer alone.
LEMMA FrontMoves ==
    ASSUME SyncInv, UNCHANGED <<db, cache, sequence, writer, stale>>,
           seeding' \in [Tasks -> Seeds], SeedsCommitted',
           req' \in [Requests -> Reqs], stream' \in Streams, reply' \in Frames,
           client' \in Clients, mishaps' \in 0..Mishaps, FramesSound', ViewSound'
    PROVE  SyncInv'
    <1>1. SyncTypeOK' BY DEF SyncInv, SyncTypeOK, Seeds, Reqs, Streams, Clients
    <1> QED BY <1>1, BackKept DEF SyncInv

LEMMA SeedsTyped ==
    ASSUME SyncInv PROVE seeding \in [Tasks -> Seeds] /\ mishaps \in 0..Mishaps
    BY DEF SyncInv, SyncTypeOK, Seeds

\* A seed that is dropped with its task.
LEMMA SeedDropped ==
    ASSUME SyncInv, db' = db, NEW p \in Tasks, seeding' = [seeding EXCEPT ![p] = NotSeeding]
    PROVE  seeding' \in [Tasks -> Seeds] /\ SeedsCommitted'
    <1>1. seeding' \in [Tasks -> Seeds] BY SeedsTyped, IdleFrontTypes
    <1>2. \A q \in Tasks : seeding'[q] = IF q = p THEN NotSeeding ELSE seeding[q] BY SeedsTyped
    <1>3. None <= Newest BY IdleTypes, NewestFacts DEF SyncInv, None
    <1> QED BY <1>1, <1>2, <1>3, DbKept, IdleFrontTypes DEF SyncInv, SeedsCommitted

LEMMA NoFrameSound ==
    ASSUME SyncInv, db' = db PROVE FrameSound(NoFrame)'
    <1>1. None <= Newest BY IdleTypes, NewestFacts DEF SyncInv, None
    <1> QED BY <1>1, DbKept, IdleTypes DEF FrameSound

LEMMA MishapCounted ==
    ASSUME SyncInv, mishaps < Mishaps, mishaps' = mishaps + 1 PROVE mishaps' \in 0..Mishaps
    BY SeedsTyped, SyncAssumption

\* The writer publishes what it committed.
LEMMA WriterPublishes ==
    ASSUME SyncInv, Publish PROVE SyncInv'
    <1>1. /\ UNCHANGED <<db, sequence, req, seeding, reply, client, mishaps, stale>>
          /\ writer.pc = "publish" /\ writer' = IdleWriter
        BY DEF Publish
    <1>2. Document(writer) \in Docs
        <2>1. PICK s \in Seq(1..Updates) : s = writer.seqs BY CacheIs, WriterIs
        <2>2. \A i \in DOMAIN s : s[i] \in 1..Updates BY <2>1, ElementOfSeq, LenProperties
        <2>3. New(writer) \subseteq 1..Updates BY <2>1, <2>2 DEF New
        <2>4. writer.loaded \in Docs /\ writer.base \in Versions BY CacheIs, WriterIs
        <2>5. writer.base.doc \in Docs BY <2>4 DEF Versions
        <2>6. writer.loaded.meta \subseteq 1..Updates /\ writer.base.doc.ents \subseteq 1..Updates
            BY <2>4, <2>5 DEF Docs
        <2> QED BY <2>3, <2>6 DEF Document, Docs
    <1>3. writer.seqs[Len(writer.seqs)] = Newest /\ Newest \in 0..Updates
        BY <1>1, NewestFacts DEF SyncInv, WriterNumbers
    <1>4. PICK c \in Versions : /\ c = [doc |-> Document(writer), rev |-> Newest]
                                /\ c.doc = Document(writer) /\ c.rev = Newest
        <2>1. Newest \in None..Updates BY <1>3, IdleTypes
        <2> QED BY <1>2, <2>1, VersionMade
    <1>5. cache' = c BY <1>3, <1>4 DEF Publish
    <1>6. ~stale => c = Stored /\ c.doc = Replay(c.rev)
        <2>1. ASSUME ~stale PROVE Document(writer) = Stored.doc /\ Stored.doc = Replay(Newest)
            BY <1>1, <2>1 DEF SyncInv, WriterBased, JournalReplays
        <2>2. Stored = [doc |-> Stored.doc, rev |-> Newest] BY DEF Stored
        <2> QED BY <1>4, <2>1, <2>2
    <1>7. stream' \in Streams /\ stream'.frames = stream.frames
        <2>1. stream' = [stream EXCEPT !.ready = stream.ready \/ stream.on] BY DEF Publish
        <2>2. PICK b \in BOOLEAN : b = (stream.ready \/ stream.on) OBVIOUS
        <2>3. stream' = [stream EXCEPT !.ready = b] BY <2>1, <2>2
        <2> QED BY <2>3, FrontTypes DEF Streams
    <1>8. SyncTypeOK'
        BY <1>1, <1>5, <1>7, IdleWriterIs DEF SyncInv, SyncTypeOK, Writers, Streams
    <1>9. /\ Newest' = Newest /\ Stored' = Stored
          /\ \A r : Replay(r)' = Replay(r)
        BY <1>1, DbKept
    <1>10. JournalOrdered' /\ JournalReplays'
        BY <1>1, <1>9 DEF SyncInv, JournalOrdered, JournalReplays
    <1>11. CacheSound' BY <1>1, <1>3, <1>4, <1>5, <1>6, <1>9 DEF CacheSound
    <1>12. FramesSound' BY <1>1, <1>7, FramesKept DEF SyncInv, FramesSound
    <1>13. ViewSound' BY <1>1, <1>9 DEF SyncInv, ViewSound
    <1> QED BY <1>1, <1>8, <1>10, <1>11, <1>12, <1>13, SeedsKept, IdleWriterSound DEF SyncInv

\* A command is dropped at an await: after its commit, the cache is behind.
LEMMA WriterAbandons ==
    ASSUME SyncInv, Abandon PROVE SyncInv'
    <1>1. /\ UNCHANGED <<db, cache, sequence, req, stream, reply, client>>
          /\ writer' = IdleWriter /\ mishaps' \in 0..Mishaps
          /\ seeding' = [seeding EXCEPT !["writer"] = NotSeeding]
          /\ stale' = (stale \/ (writer.pc = "publish" /\ cache # Stored))
        BY MishapCounted DEF Abandon
    <1>2. stale' \in BOOLEAN /\ (stale => stale') BY <1>1
    <1>3. seeding' \in [Tasks -> Seeds] /\ SeedsCommitted'
        BY <1>1, SeedDropped DEF Tasks
    <1>4. SyncTypeOK' BY <1>1, <1>2, <1>3, IdleWriterIs DEF SyncInv, SyncTypeOK, Writers, Seeds
    <1>5. /\ Newest' = Newest /\ Stored' = Stored
          /\ \A r : Replay(r)' = Replay(r)
        BY <1>1, DbKept
    <1>6. JournalOrdered' /\ JournalReplays'
        BY <1>1, <1>2, <1>5 DEF SyncInv, JournalOrdered, JournalReplays
    <1>7. CacheSound'
        <2>1. ~stale' => ~stale /\ (writer.pc # "publish" \/ cache = Stored) BY <1>1
        <2> QED BY <1>1, <1>5, <2>1 DEF SyncInv, CacheSound
    <1> QED BY <1>1, <1>2, <1>3, <1>4, <1>6, <1>7, FrontKept, IdleWriterSound DEF SyncInv

\* The process starts again from what is stored.
LEMMA ProcessRestarts ==
    ASSUME SyncInv, Restart PROVE SyncInv'
    <1>1. /\ UNCHANGED <<db, stale>> /\ cache' = Absent /\ sequence' = Newest
          /\ writer' = IdleWriter /\ mishaps' \in 0..Mishaps
          /\ req' = [p \in Requests |-> IdleRequest] /\ seeding' = [p \in Tasks |-> NotSeeding]
          /\ stream' = ClosedStream /\ reply' = NoFrame
          /\ client' = [client EXCEPT !.catchup = TRUE]
        BY MishapCounted DEF Restart
    <1>2. client' \in Clients /\ client'.view = client.view BY <1>1, FrontTypes DEF Clients
    <1>3. req' \in [Requests -> Reqs] /\ seeding' \in [Tasks -> Seeds] BY <1>1, IdleFrontTypes
    <1>4. Newest \in 0..Updates /\ None <= Newest
        BY IdleTypes, NewestFacts DEF SyncInv, None
    <1>5. SyncTypeOK'
        BY <1>1, <1>2, <1>3, <1>4, IdleTypes, IdleFrontTypes, IdleWriterIs
           DEF SyncInv, SyncTypeOK, Writers, Seeds, Reqs, Streams, Clients
    <1>6. /\ Newest' = Newest /\ Stored' = Stored
          /\ \A r : Replay(r)' = Replay(r)
        BY <1>1, DbKept
    <1>7. JournalOrdered' BY <1>1, <1>4, <1>6 DEF SyncInv, JournalOrdered
    <1>8. JournalReplays' BY <1>1, <1>6 DEF SyncInv, JournalReplays
    <1>9. CacheSound' BY <1>1, <1>4, <1>6, IdleTypes DEF CacheSound
    <1>10. SeedsCommitted' BY <1>1, <1>4, <1>6, IdleFrontTypes DEF SeedsCommitted
    <1>11. FramesSound'
        <2>1. DOMAIN stream'.frames = {} BY <1>1, IdleFrontTypes
        <2> QED BY <1>1, <2>1, NoFrameSound DEF FramesSound
    <1>12. ViewSound' BY <1>1, <1>2, <1>6 DEF SyncInv, ViewSound
    <1> QED BY <1>1, <1>5, <1>7, <1>8, <1>9, <1>10, <1>11, <1>12, IdleWriterSound DEF SyncInv

-----------------------------------------------------------------------------
(***************************************************************************)
(* SessionSync::payload.                                                   *)
(***************************************************************************)

\* A non-empty set of naturals has a least member.
LEMMA LeastExists ==
    ASSUME NEW T, T \subseteq Nat, T # {}
    PROVE  \E x \in T : \A y \in T : x <= y
    <1>1. \E x \in T : \A y \in T : ~(<<y, x>> \in OpToRel(<, Nat))
        BY WFMin, NatLessThanWellFounded
    <1>2. PICK x \in T : \A y \in T : ~(y < x) BY <1>1 DEF OpToRel
    <1> QED BY <1>2

\* A non-empty set of naturals with a bound has a greatest member.
LEMMA GreatestExists ==
    ASSUME NEW T, NEW b \in Nat, T \subseteq 0..b, T # {}
    PROVE  Max(T) \in T
    <1> DEFINE B == {k \in Nat : \A y \in T : y <= k}
    <1>1. b \in B OBVIOUS
    <1>2. B \subseteq Nat /\ B # {} BY <1>1
    <1>3. PICK k \in B : \A y \in B : k <= y BY <1>2, LeastExists
    <1>4. k \in T
        <2>1. PICK y \in T : TRUE OBVIOUS
        <2>2. SUFFICES ASSUME k \notin T PROVE FALSE OBVIOUS
        <2>3. \A z \in T : z < k BY <1>3, <2>2
        <2>4. k - 1 \in Nat /\ \A z \in T : z <= k - 1 BY <1>3, <2>1, <2>3
        <2>5. k - 1 \in B BY <2>4
        <2> QED BY <1>3, <2>5
    <1>5. \A y \in T : k >= y BY <1>3
    <1> QED BY <1>4, <1>5 DEF Max

\* The rows up to a cursor are the first rows.
LEMMA FirstRows ==
    ASSUME SyncTypeOK, JournalOrdered, NEW after \in Int
    PROVE  LET S == {i \in DOMAIN db.rows : db.rows[i].seq <= after}
           IN  Cardinality(S) \in 0..Len(db.rows) /\ S = 1..Cardinality(S)
    <1> DEFINE S == {i \in DOMAIN db.rows : db.rows[i].seq <= after}
               L == Len(db.rows)
               T == {k \in 1..(L + 1) : k \notin S}
    <1>1. L \in Nat /\ DOMAIN db.rows = 1..L BY RowFields
    <1>2. S \subseteq 1..L BY <1>1
    <1>3. ASSUME NEW i \in 1..L, NEW j \in S, i < j PROVE i \in S
        <2>1. db.rows[i].seq < db.rows[j].seq BY <1>1, <1>3 DEF JournalOrdered
        <2>2. db.rows[i].seq \in Int /\ db.rows[j].seq \in Int BY <1>1, RowFields
        <2> QED BY <1>1, <2>1, <2>2
    <1> HIDE DEF S, L
    <1>4. L + 1 \in T BY <1>1, <1>2
    <1>5. T \subseteq Nat /\ T # {} BY <1>1, <1>4
    <1>6. PICK m \in T : \A y \in T : m <= y BY <1>5, LeastExists
    <1>7. m \in 1..(L + 1) /\ m \notin S BY <1>6
    <1>8. \A k \in 1..(L + 1) : k < m => k \in S BY <1>1, <1>6, <1>7
    <1>9. \A k \in S : k < m
        <2> SUFFICES ASSUME NEW k \in S, ~(k < m) PROVE FALSE OBVIOUS
        <2>1. k \in 1..L BY <1>2
        <2>2. k # m BY <1>7
        <2>3. m < k /\ m \in 1..L BY <1>1, <1>7, <2>1, <2>2
        <2> QED BY <1>3, <1>7, <2>3
    <1>10. S = 1..(m - 1)
        <2>1. \A k \in S : k \in 1..(m - 1) BY <1>1, <1>2, <1>7, <1>9
        <2>2. \A k \in 1..(m - 1) : k \in S BY <1>1, <1>7, <1>8
        <2> QED BY <2>1, <2>2
    <1>11. Cardinality(1..(m - 1)) = m - 1
        <2>1. m - 1 \in Int /\ 1 \in Int /\ m - 1 >= 0 BY <1>1, <1>7
        <2>2. Cardinality(1..(m - 1)) = IF 1 > m - 1 THEN 0 ELSE (m - 1) - 1 + 1
            BY <2>1, FS_Interval
        <2> QED BY <2>1, <2>2
    <1>12. m - 1 \in 0..L BY <1>1, <1>7
    <1> QED BY <1>10, <1>11, <1>12 DEF S, L

\* A page is a run of rows that starts after the cursor.
LEMMA PageIs ==
    ASSUME SyncTypeOK, JournalOrdered, NEW after \in Int, PageAfter(after) # <<>>
    PROVE  \E h \in Nat, j \in 1..Len(db.rows) :
             /\ h < j /\ PageAfter(after) = SubSeq(db.rows, h + 1, j)
             /\ {i \in DOMAIN db.rows : db.rows[i].seq <= after} = 1..h
    <1> DEFINE S == {i \in DOMAIN db.rows : db.rows[i].seq <= after}
               first == Cardinality(S)
               top == Min({first + Page, Len(db.rows)})
               ends == {j \in first..top :
                          \A i \in (first + 1)..j :
                            db.rows[i].base = IF i = first + 1 THEN after
                                              ELSE db.rows[i - 1].seq}
    <1>1. first \in 0..Len(db.rows) /\ S = 1..first BY FirstRows
    <1>2. Len(db.rows) \in Nat /\ Page \in Nat BY RowFields, SyncAssumption
    <1>3. PageAfter(after) = SubSeq(db.rows, first + 1, Max(ends)) BY DEF PageAfter
    <1> HIDE DEF S, first
    <1>4. top \in first..Len(db.rows) BY <1>1, <1>2 DEF Min
    <1> HIDE DEF top
    <1>5. first \in first..top /\ (first + 1)..first = {} BY <1>1, <1>2, <1>4
    <1>6. first \in ends BY <1>5
    <1>7. ends \subseteq 0..Len(db.rows) BY <1>1, <1>2, <1>4
    <1>8. ends # {} BY <1>6
    <1> HIDE DEF ends
    <1>9. Max(ends) \in ends BY <1>2, <1>7, <1>8, GreatestExists
    <1>10. PICK j \in 0..Len(db.rows) : j = Max(ends) BY <1>7, <1>9
    <1>11. first <= j BY <1>1, <1>2, <1>4, <1>9, <1>10 DEF ends
    <1>12. first # j
        <2> SUFFICES ASSUME first = j PROVE FALSE OBVIOUS
        <2>1. first + 1 \in Int /\ j \in Int /\ ~(first + 1 <= j) BY <1>1, <1>2
        <2>2. \A i \in (first + 1)..j : db.rows[i] \in Rows BY <1>1, <1>2
        <2>3. SubSeq(db.rows, first + 1, j) \in Seq(Rows) /\ Len(SubSeq(db.rows, first + 1, j)) = 0
            BY <2>1, <2>2, SubSeqProperties
        <2>4. SubSeq(db.rows, first + 1, j) = <<>> BY <2>3, EmptySeq
        <2> QED BY <1>3, <1>10, <2>4
    <1>13. first \in Nat /\ j \in 1..Len(db.rows) /\ first < j BY <1>1, <1>2, <1>10, <1>11, <1>12
    <1> QED BY <1>1, <1>3, <1>10, <1>13 DEF S

LEMMA FrameMade ==
    ASSUME NEW k \in {"none", "heartbeat", "delta", "bootstrap"}, NEW b \in None..Updates,
           NEW r \in None..Updates, NEW d \in Docs
    PROVE  LET f == [kind |-> k, base |-> b, rev |-> r, doc |-> d]
           IN  f \in Frames /\ f.kind = k /\ f.base = b /\ f.rev = r /\ f.doc = d
    BY DEF Frames

\* A page holds what was committed after the cursor, up to its last row.
LEMMA DeltaSound ==
    ASSUME SyncTypeOK, JournalOrdered, NEW after \in None..Updates, PageAfter(after) # <<>>
    PROVE  LET f == Delta(after, PageAfter(after))
           IN  f \in Frames /\ FrameSound(f)
    <1>0. after \in Int BY IdleTypes, SyncAssumption
    <1>1. PICK h \in Nat, j \in 1..Len(db.rows) :
             /\ h < j /\ PageAfter(after) = SubSeq(db.rows, h + 1, j)
             /\ {i \in DOMAIN db.rows : db.rows[i].seq <= after} = 1..h
        BY <1>0, PageIs
    <1>2. PICK a \in Seq(Rows), L \in Nat : a = db.rows /\ L = Len(a) /\ DOMAIN a = 1..L
        BY RowFields
    <1>3. j \in 1..L /\ h \in Nat /\ h < j BY <1>1, <1>2
    <1>4. \A i \in 1..L : a[i] \in Rows /\ a[i].seq \in 1..Updates /\ a[i].seq \in Int
        BY <1>2, RowFields, SyncAssumption
    <1>5. \A i \in 1..L : a[i].ops.meta = {a[i].seq} /\ a[i].ops.ents = {a[i].seq}
        <2> SUFFICES ASSUME NEW i \in 1..L
                     PROVE  a[i].ops.meta = {a[i].seq} /\ a[i].ops.ents = {a[i].seq}
            OBVIOUS
        <2>1. PICK o : o = a[i].ops /\ o = Both({a[i].seq}) BY <1>2 DEF JournalOrdered
        <2> QED BY <2>1 DEF Both
    <1>6. PICK q \in Seq(Rows) : /\ q = PageAfter(after) /\ Len(q) = j - h
                                 /\ \A i \in 1..(j - h) : q[i] = a[h + i]
        <2>1. \A i \in (h + 1)..j : a[i] \in Rows BY <1>3, <1>4
        <2>2. h + 1 \in Int /\ j \in Int /\ h + 1 <= j BY <1>3
        <2>3. PICK q : q = SubSeq(a, h + 1, j) OBVIOUS
        <2>4. /\ q \in Seq(Rows) /\ Len(q) = j - (h + 1) + 1
              /\ \A i \in 1..(j - (h + 1) + 1) : q[i] = a[h + 1 + i - 1]
            BY SMTT(60), <2>1, <2>2, <2>3, SubSeqProperties
        <2>5. j - (h + 1) + 1 = j - h /\ \A i \in Int : h + 1 + i - 1 = h + i BY <1>3
        <2>6. \A i \in 1..(j - h) : q[i] = a[h + i] BY <1>3, <2>4, <2>5
        <2> QED BY <1>1, <1>2, <2>3, <2>4, <2>5, <2>6
    <1>7. PICK r \in 1..Updates : r = a[j].seq /\ r = q[Len(q)].seq
        <2>1. Len(q) \in 1..(j - h) /\ h + Len(q) = j BY <1>3, <1>6
        <2> QED BY <1>3, <1>4, <1>6, <2>1
    <1>8. ASSUME NEW i \in 1..L
          PROVE  (after < a[i].seq /\ a[i].seq <= r) <=> (h < i /\ i <= j)
        <2>1. a[i].seq <= after <=> i <= h
            <3>1. i \in 1..h <=> i <= h BY <1>3
            <3> QED BY <1>1, <1>2, <3>1
        <2>2. after < a[i].seq <=> h < i BY <1>0, <1>3, <1>4, <2>1
        <2>3. i < j => a[i].seq < a[j].seq BY <1>2, <1>3 DEF JournalOrdered
        <2>4. j < i => a[j].seq < a[i].seq BY <1>2, <1>3 DEF JournalOrdered
        <2>5. a[i].seq \in Int /\ a[j].seq \in Int /\ r = a[j].seq BY <1>3, <1>4, <1>7
        <2>6. a[i].seq <= r <=> i <= j
            <3>1. i < j \/ i = j \/ j < i BY <1>3
            <3> QED BY <1>3, <2>3, <2>4, <2>5, <3>1
        <2> QED BY <2>2, <2>6
    <1>9. \A x : (\E i \in 1..(j - h) : x = q[i].seq) <=> x \in Between(after, r)
        <2>1. Between(after, r) = {a[i].seq : i \in {k \in 1..L : h < k /\ k <= j}}
            BY <1>2, <1>8 DEF Between
        <2>2. ASSUME NEW i \in 1..(j - h)
              PROVE  h + i \in {k \in 1..L : h < k /\ k <= j}
            BY <1>3
        <2>3. ASSUME NEW k \in 1..L, h < k, k <= j
              PROVE  k - h \in 1..(j - h) /\ h + (k - h) = k
            BY <1>3, <2>3
        <2>4. ASSUME NEW x, NEW i \in 1..(j - h), x = q[i].seq PROVE x \in Between(after, r)
            BY <1>6, <2>1, <2>2, <2>4
        <2>5. ASSUME NEW x, x \in Between(after, r) PROVE \E i \in 1..(j - h) : x = q[i].seq
            <3>1. PICK k \in 1..L : h < k /\ k <= j /\ x = a[k].seq BY <2>1, <2>5
            <3>2. q[k - h] = a[k] /\ k - h \in 1..(j - h) BY <1>6, <2>3, <3>1
            <3> QED BY <3>1, <3>2
        <2> QED BY <2>4, <2>5
    <1>10. \A i \in 1..(j - h) : q[i].ops.meta = {q[i].seq} /\ q[i].ops.ents = {q[i].seq}
        <2> SUFFICES ASSUME NEW i \in 1..(j - h)
                     PROVE  q[i].ops.meta = {q[i].seq} /\ q[i].ops.ents = {q[i].seq}
            OBVIOUS
        <2>1. h + i \in 1..L BY <1>3
        <2> QED BY <1>5, <1>6, <2>1
    <1>11. DOMAIN q = 1..(j - h) BY <1>6, LenProperties
    <1>12. /\ UNION {q[i].ops.meta : i \in DOMAIN q} = Between(after, r)
           /\ UNION {q[i].ops.ents : i \in DOMAIN q} = Between(after, r)
        BY SMTT(60), <1>9, <1>10, <1>11
    <1>13. PICK d \in Docs : d = Both(Between(after, r)) BY BetweenType
    <1>14. PICK f : /\ f = Delta(after, PageAfter(after))
                    /\ f = [kind |-> "delta", base |-> after, rev |-> r, doc |-> d]
        <2>1. d = [meta |-> UNION {q[i].ops.meta : i \in DOMAIN q},
                   ents |-> UNION {q[i].ops.ents : i \in DOMAIN q}]
            BY <1>12, <1>13 DEF Both
        <2>2. Delta(after, q) = [kind |-> "delta", base |-> after, rev |-> q[Len(q)].seq,
                                 doc |-> [meta |-> UNION {q[i].ops.meta : i \in DOMAIN q},
                                          ents |-> UNION {q[i].ops.ents : i \in DOMAIN q}]]
            BY DEF Delta
        <2>3. Delta(after, q) = [kind |-> "delta", base |-> after, rev |-> r, doc |-> d]
            BY <1>7, <2>1, <2>2
        <2> QED BY <1>6, <2>3
    <1>15. r \in None..Updates BY <1>7, SyncAssumption DEF None
    <1>16. f \in Frames /\ f.kind = "delta" /\ f.base = after /\ f.rev = r /\ f.doc = d
        BY <1>14, <1>15, FrameMade
    <1>17. r <= Newest BY <1>2, <1>3, <1>7, NewestFacts
    <1>18. after < r
        <2>1. j \in 1..L /\ h < j /\ j <= j BY <1>3
        <2>2. after < a[j].seq BY <1>8, <2>1
        <2> QED BY <1>7, <2>2
    <1>19. FrameSound(f) BY <1>13, <1>16, <1>17, <1>18 DEF FrameSound
    <1> QED BY <1>14, <1>16, <1>19

\* A sound frame leaves.
LEMMA FrameSent ==
    ASSUME SyncInv, NEW p \in Requests, NEW f \in Frames, FrameSound(f), Send(p, f),
           UNCHANGED <<db, cache, sequence, writer, seeding, client, mishaps, stale>>
    PROVE  SyncInv'
    <1>1. req' \in [Requests -> Reqs] BY FrontTypes, IdleFrontTypes DEF Send
    <1>2. FrameSound(f)' BY FramesKept
    <1>3. stream' \in Streams /\ reply' \in Frames /\ FramesSound'
        <2>1. CASE p = "http"
            <3>1. reply' = f /\ stream' = stream BY <2>1 DEF Send
            <3>2. \A i \in DOMAIN stream.frames : FrameSound(stream.frames[i])'
                BY FramesKept, <3>1 DEF SyncInv, FramesSound
            <3> QED BY <1>2, <3>1, <3>2, FrontTypes DEF FramesSound
        <2>2. CASE p # "http"
            <3>1. PICK b \in BOOLEAN : b = (stream.ready \/ f.rev < cache.rev) OBVIOUS
            <3>2. PICK q \in Seq(Frames) : q = stream.frames BY FrontTypes
            <3>3. PICK e : e = Append(q, f) OBVIOUS
            <3>4. stream' = [stream EXCEPT !.after = f.rev, !.ready = b, !.frames = e]
                  /\ reply' = reply
                BY <2>2, <3>1, <3>2, <3>3 DEF Send
            <3>5. /\ e \in Seq(Frames) /\ Len(e) = Len(q) + 1 /\ e[Len(q) + 1] = f
                  /\ \A i \in 1..Len(q) : e[i] = q[i]
                BY <3>3, AppendProperties
            <3>6. f.rev \in None..Updates BY DEF Frames
            <3>7. stream' \in Streams /\ stream'.frames = e
                BY <3>1, <3>4, <3>5, <3>6, FrontTypes DEF Streams
            <3>8. Len(q) \in Nat /\ DOMAIN q = 1..Len(q) /\ DOMAIN e = 1..(Len(q) + 1)
                BY <3>5, LenProperties
            <3>9. \A i \in DOMAIN e : i = Len(q) + 1 \/ i \in 1..Len(q) BY <3>8
            <3>10. \A i \in DOMAIN q : FrameSound(q[i])'
                BY <3>2, FramesKept DEF SyncInv, FramesSound
            <3>11. \A i \in DOMAIN e : FrameSound(e[i])'
                BY <1>2, <3>5, <3>8, <3>9, <3>10
            <3>12. FrameSound(reply)' BY <3>4, FramesKept DEF SyncInv, FramesSound
            <3> QED BY <3>4, <3>7, <3>11, <3>12, FrontTypes DEF FramesSound
        <2> QED BY <2>1, <2>2
    <1>4. ViewSound' BY DbKept DEF SyncInv, ViewSound
    <1> QED BY <1>1, <1>3, <1>4, FrontMoves, FrontTypes, SeedsTyped, SeedsKept

\* A payload goes on to its next query.
LEMMA PayloadMoves ==
    ASSUME SyncInv, NEW p \in Requests, NEW x \in {"idle", "head", "rows", "latest"},
           req' = [req EXCEPT ![p].pc = x],
           UNCHANGED <<db, cache, sequence, writer, seeding, stream, reply, client, mishaps, stale>>
    PROVE  SyncInv'
    <1>1. PICK r \in Reqs : r = [req[p] EXCEPT !.pc = x] BY FrontTypes DEF Reqs
    <1>2. req' = [req EXCEPT ![p] = r] BY <1>1, FrontTypes
    <1>3. req' \in [Requests -> Reqs] BY <1>2, FrontTypes
    <1> QED BY <1>3, FrontMoves, FrontTypes, SeedsTyped, SeedsKept, FrontKept

LEMMA PayloadStep ==
    ASSUME SyncInv, NEW p \in Requests, Payload(p) PROVE SyncInv'
    <1>0. PICK n \in None..Updates : n = cache.rev /\ n <= Newest
        BY CacheIs DEF SyncInv, CacheSound
    <1>1. CASE PayloadHead(p)
        <2>1. UNCHANGED <<db, cache, sequence, writer, seeding, client, mishaps, stale>>
            BY <1>1 DEF PayloadHead
        <2>2. CASE req[p].after = cache.rev
            <3>1. Send(p, Heartbeat(cache.rev)) BY <1>1, <2>2 DEF PayloadHead
            <3>2. PICK f : f = Heartbeat(cache.rev) OBVIOUS
            <3>3. f \in Frames /\ f.kind = "heartbeat" /\ f.rev = n
                BY <1>0, <3>2, IdleTypes, FrameMade DEF Heartbeat
            <3>4. FrameSound(f) BY <1>0, <3>3 DEF FrameSound
            <3> QED BY <2>1, <3>1, <3>2, <3>3, <3>4, FrameSent
        <2>3. CASE req[p].after # cache.rev
            <3>1. PICK x \in {"rows", "latest"} : req' = [req EXCEPT ![p].pc = x]
                BY <1>1, <2>3 DEF PayloadHead
            <3>2. UNCHANGED <<stream, reply>> BY <1>1, <2>3 DEF PayloadHead
            <3> QED BY <2>1, <3>1, <3>2, PayloadMoves
        <2> QED BY <2>2, <2>3
    <1>2. CASE PayloadRows(p)
        <2>1. UNCHANGED <<db, cache, sequence, writer, seeding, client, mishaps, stale>>
            BY <1>2 DEF PayloadRows
        <2>2. PICK after \in None..Updates : after = req[p].after
            BY FrontTypes DEF Reqs
        <2>3. CASE PageAfter(after) # <<>>
            <3>1. PICK f : f = Delta(after, PageAfter(after)) OBVIOUS
            <3>2. Send(p, f) BY <1>2, <2>2, <2>3, <3>1 DEF PayloadRows
            <3>3. f \in Frames /\ FrameSound(f) BY <2>3, <3>1, DeltaSound DEF SyncInv
            <3> QED BY <2>1, <3>2, <3>3, FrameSent
        <2>4. CASE PageAfter(after) = <<>>
            <3>1. req' = [req EXCEPT ![p].pc = "latest"] /\ UNCHANGED <<stream, reply>>
                BY <1>2, <2>2, <2>4 DEF PayloadRows
            <3> QED BY <2>1, <3>1, PayloadMoves
        <2> QED BY <2>3, <2>4
    <1>3. CASE PayloadLatest(p)
        <2>1. /\ UNCHANGED <<db, cache, sequence, writer, seeding, client, mishaps, stale>>
              /\ Send(p, Bootstrap(cache)) /\ cache.rev # None
            BY <1>3 DEF PayloadLatest, Cached
        <2>2. PICK f : f = Bootstrap(cache) OBVIOUS
        <2>3. f \in Frames /\ f.kind = "bootstrap" /\ f.rev = n /\ f.doc = cache.doc
            BY <1>0, <2>2, IdleTypes, CacheIs, FrameMade DEF Bootstrap
        <2>4. ~stale => cache.doc = Replay(n)
            BY <1>0, <2>1 DEF SyncInv, CacheSound
        <2>5. FrameSound(f) BY <1>0, <2>1, <2>3, <2>4 DEF FrameSound
        <2> QED BY <2>1, <2>2, <2>3, <2>5, FrameSent
    <1> QED BY <1>1, <1>2, <1>3 DEF Payload

-----------------------------------------------------------------------------
(***************************************************************************)
(* The follower.                                                           *)
(***************************************************************************)
LEMMA ClientChanged ==
    ASSUME NEW c \in Clients, NEW b \in BOOLEAN
    PROVE  /\ [c EXCEPT !.catchup = b] \in Clients /\ [c EXCEPT !.catchup = b].view = c.view
           /\ [c EXCEPT !.boot = b] \in Clients /\ [c EXCEPT !.boot = b].view = c.view
           /\ c.view.rev \in None..Updates
    <1>1. /\ [c EXCEPT !.catchup = b] \in Clients /\ [c EXCEPT !.catchup = b].view = c.view
          /\ [c EXCEPT !.boot = b] \in Clients /\ [c EXCEPT !.boot = b].view = c.view
          /\ c.view \in Versions
        BY DEF Clients
    <1>2. c.view.rev \in None..Updates BY <1>1 DEF Versions
    <1> QED BY <1>1, <1>2

LEMMA MergeBoth == \A A, B : Merge(Both(A), Both(B)) = Both(A \cup B)
    BY DEF Merge, Both

\* A view at a revision that was committed, with what was committed there.
ViewIs(v) == v.rev <= Newest /\ (~stale => v.doc = Replay(v.rev))

\* RunProjection.apply: a sound frame takes a sound view to a sound one.
LEMMA AppliedSound ==
    ASSUME SyncInv, NEW f \in Frames, FrameSound(f)
    PROVE  Applied(client.view, f) \in Versions /\ ViewIs(Applied(client.view, f))
    <1>1. PICK v \in Versions : v = client.view /\ ViewIs(v)
        BY FrontTypes DEF SyncInv, ViewSound, ViewIs
    <1>2. /\ v.rev \in None..Updates /\ v.doc \in Docs /\ v.rev \in Int
          /\ f.rev \in None..Updates /\ f.doc \in Docs /\ f.rev \in Int
          /\ f.kind \in {"none", "heartbeat", "delta", "bootstrap"}
        <2>1. v.rev \in None..Updates /\ v.doc \in Docs BY DEF Versions
        <2>2. /\ f.rev \in None..Updates /\ f.doc \in Docs
              /\ f.kind \in {"none", "heartbeat", "delta", "bootstrap"}
            BY DEF Frames
        <2>3. \A x \in None..Updates : x \in Int BY IdleTypes, SyncAssumption
        <2> QED BY <2>1, <2>2, <2>3
    <1>3. CASE f.kind = "heartbeat" \/ f.rev <= v.rev \/ Gap(v, f)
        <2>1. Applied(v, f) = v BY <1>3 DEF Applied
        <2> QED BY <1>1, <2>1
    <1>4. CASE ~(f.kind = "heartbeat" \/ f.rev <= v.rev \/ Gap(v, f))
        <2>1. v.rev < f.rev BY <1>2, <1>4
        <2>2. f.kind # "none"
            <3> SUFFICES ASSUME f.kind = "none" PROVE FALSE OBVIOUS
            <3>1. f.rev = None BY DEF FrameSound
            <3> QED BY <1>2, <2>1, <3>1, IdleTypes, SyncAssumption
        <2>3. CASE f.kind = "delta"
            <3>1. f.base = v.rev BY <1>2, <1>4, <2>1, <2>3 DEF Gap
            <3>2. Applied(v, f) = [doc |-> Merge(v.doc, f.doc), rev |-> f.rev]
                BY <1>4, <2>3 DEF Applied
            <3>3. Merge(v.doc, f.doc) \in Docs BY <1>2 DEF Merge, Docs
            <3>4. PICK w \in Versions : /\ w = Applied(v, f) /\ w.rev = f.rev
                                        /\ w.doc = Merge(v.doc, f.doc)
                BY <1>2, <3>2, <3>3, VersionMade
            <3>5. f.doc = Both(Between(v.rev, f.rev)) BY <2>3, <3>1 DEF FrameSound
            <3>6. ASSUME ~stale PROVE Merge(v.doc, f.doc) = Replay(f.rev)
                <4>1. v.doc = Both(Between(0, v.rev))
                    BY <1>1, <1>2, <3>6, ReplayIs DEF SyncInv, ViewIs
                <4>2. Replay(f.rev) = Both(Between(0, f.rev)) BY <1>2, ReplayIs DEF SyncInv
                <4>3. Between(0, v.rev) \cup Between(v.rev, f.rev) = Between(0, f.rev)
                    BY <1>2, <2>1, BetweenJoins DEF SyncInv
                <4> QED BY <3>5, <4>1, <4>2, <4>3, MergeBoth
            <3>7. f.rev <= Newest BY DEF FrameSound
            <3> QED BY <1>1, <3>4, <3>6, <3>7 DEF ViewIs
        <2>4. CASE f.kind = "bootstrap"
            <3>1. Applied(v, f) = [doc |-> f.doc, rev |-> f.rev] BY <1>4, <2>4 DEF Applied
            <3>2. PICK w \in Versions : w = Applied(v, f) /\ w.rev = f.rev /\ w.doc = f.doc
                BY <1>2, <3>1, VersionMade
            <3>3. f.rev <= Newest /\ (~stale => f.doc = Replay(f.rev)) BY <2>4 DEF FrameSound
            <3> QED BY <1>1, <3>2, <3>3 DEF ViewIs
        <2> QED BY <1>2, <1>4, <2>2, <2>3, <2>4
    <1> QED BY <1>3, <1>4

LEMMA AcceptedSound ==
    ASSUME SyncInv, NEW f \in Frames, FrameSound(f)
    PROVE  /\ Accepted(client, f) \in Clients
           /\ ViewIs(Accepted(client, f).view)
    <1>1. PICK v \in Versions : v = Applied(client.view, f) /\ ViewIs(v) BY AppliedSound
    <1>2. PICK n \in 0..Updates : n = Max({client.target, f.rev})
        <2>1. PICK t \in 0..Updates : t = client.target BY FrontTypes
        <2>2. PICK r \in None..Updates : r = f.rev BY DEF Frames
        <2>3. t \in Int /\ r \in Int /\ Updates \in Nat BY IdleTypes, SyncAssumption
        <2>4. Max({t, r}) \in {t, r} /\ Max({t, r}) >= t
            <3>1. \E x \in {t, r} : \A y \in {t, r} : x >= y BY <2>3
            <3>2. /\ Max({t, r}) \in {t, r}
                  /\ \A y \in {t, r} : Max({t, r}) >= y
                BY <3>1 DEF Max
            <3> QED BY <3>2
        <2>5. Max({t, r}) \in 0..Updates BY <2>3, <2>4
        <2> QED BY <2>1, <2>2, <2>5
    <1>3. PICK b \in BOOLEAN : b = (client.boot \/ v.rev = None) OBVIOUS
    <1>4. PICK k \in BOOLEAN : k = (v.rev < n)
        <2>1. v.rev \in None..Updates BY <1>1 DEF Versions
        <2>2. v.rev \in Int /\ n \in Int BY <1>2, <2>1, IdleTypes, SyncAssumption
        <2>3. (v.rev < n) \in BOOLEAN
            <3>1. PICK x \in Int, y \in Int : x = v.rev /\ y = n BY <2>2
            <3>2. (x < y) \in BOOLEAN OBVIOUS
            <3> QED BY <3>1, <3>2
        <2>4. PICK P : P = (v.rev < n) OBVIOUS
        <2>5. P \in BOOLEAN BY <2>3, <2>4
        <2> QED BY <2>4, <2>5
    <1>5. CASE Gap(client.view, f)
        <2>1. Accepted(client, f) = [view |-> v, boot |-> b, catchup |-> TRUE, target |-> n]
            BY <1>1, <1>2, <1>3, <1>5 DEF Accepted
        <2>2. PICK c : c = [view |-> v, boot |-> b, catchup |-> TRUE, target |-> n] OBVIOUS
        <2>3. c \in Clients /\ c.view = v BY <1>1, <1>2, <1>3, <2>2 DEF Clients
        <2> QED BY <1>1, <2>1, <2>2, <2>3
    <1>6. CASE ~Gap(client.view, f)
        <2>1. Accepted(client, f) = [view |-> v, boot |-> FALSE, catchup |-> k, target |-> n]
            BY <1>1, <1>2, <1>4, <1>6 DEF Accepted
        <2>2. PICK c : c = [view |-> v, boot |-> FALSE, catchup |-> k, target |-> n] OBVIOUS
        <2>3. c \in Clients /\ c.view = v BY <1>1, <1>2, <1>4, <2>2 DEF Clients
        <2> QED BY <1>1, <2>1, <2>2, <2>3
    <1> QED BY <1>5, <1>6

LEMMA ViewIsSound ==
    ASSUME UNCHANGED <<db, stale>>, ViewIs(client'.view)
    PROVE  ViewSound'
    BY DbKept DEF ViewIs, ViewSound

\* refresh: a request goes out unless one is pending.
LEMMA RefreshedTypes ==
    ASSUME SyncInv, NEW c \in Clients, Refreshed(c)
    PROVE  client' \in Clients /\ client'.view = c.view /\ req' \in [Requests -> Reqs]
    <1>1. CASE Pending
        BY <1>1, FrontTypes DEF Refreshed
    <1>2. CASE ~Pending
        <2>1. client' = [c EXCEPT !.catchup = FALSE] BY <1>2 DEF Refreshed
        <2>2. PICK n \in None..Updates : n = IF c.boot THEN None ELSE c.view.rev
            BY ClientChanged, IdleTypes
        <2>3. PICK r \in Reqs : r = [pc |-> "head", after |-> n] BY DEF Reqs
        <2>4. req' = [req EXCEPT !["http"] = r] BY <1>2, <2>2, <2>3 DEF Refreshed
        <2> QED BY <2>1, <2>4, ClientChanged, FrontTypes
    <1> QED BY <1>1, <1>2

LEMMA FollowerRefreshes ==
    ASSUME SyncInv, Refresh PROVE SyncInv'
    <1>1. /\ Refreshed(client)
          /\ UNCHANGED <<db, cache, sequence, writer, seeding, stream, reply, mishaps, stale>>
        BY DEF Refresh
    <1>2. client' \in Clients /\ client'.view = client.view /\ req' \in [Requests -> Reqs]
        BY <1>1, FrontTypes, RefreshedTypes
    <1>3. ViewSound' BY <1>1, <1>2, DbKept DEF SyncInv, ViewSound
    <1>4. FramesSound' BY <1>1, FramesKept DEF SyncInv, FramesSound
    <1> QED BY <1>1, <1>2, <1>3, <1>4, FrontMoves, FrontTypes, SeedsTyped, SeedsKept

LEMMA FollowerReceives ==
    ASSUME SyncInv, SnapshotReceived PROVE SyncInv'
    <1>1. UNCHANGED <<db, cache, sequence, writer, req, seeding, stream, mishaps, stale>>
          /\ reply' = NoFrame
        BY DEF SnapshotReceived
    <1>2. PICK c \in Clients : c = Accepted(client, reply) /\ ViewIs(c.view)
        BY AcceptedSound, FrontTypes DEF SyncInv, FramesSound
    <1>3. PICK b \in BOOLEAN : b = (c.boot \/ (c.catchup /\ c.view.rev = client.view.rev)) OBVIOUS
    <1>4. client' = [c EXCEPT !.boot = b] BY <1>2, <1>3 DEF SnapshotReceived
    <1>5. client' \in Clients /\ client'.view = c.view BY <1>4, ClientChanged
    <1>6. ViewSound' BY <1>1, <1>2, <1>5, ViewIsSound
    <1>7. FramesSound' BY <1>1, NoFrameSound, FramesKept DEF SyncInv, FramesSound
    <1> QED BY <1>1, <1>5, <1>6, <1>7, IdleTypes, FrontMoves, FrontTypes, SeedsTyped, SeedsKept

LEMMA FollowerFollows ==
    ASSUME SyncInv, StreamReceived PROVE SyncInv'
    <1>1. /\ UNCHANGED <<db, cache, sequence, writer, seeding, reply, mishaps, stale>>
          /\ stream' = [stream EXCEPT !.frames = Tail(stream.frames)]
        BY DEF StreamReceived
    <1>2. PICK q \in Seq(Frames) : q = stream.frames /\ q # <<>>
        BY FrontTypes DEF StreamReceived
    <1>3. /\ Tail(q) \in Seq(Frames) /\ Len(Tail(q)) = Len(q) - 1
          /\ \A i \in 1..Len(Tail(q)) : Tail(q)[i] = q[i + 1]
        BY <1>2, HeadTailProperties
    <1>4. Len(q) \in Nat /\ DOMAIN q = 1..Len(q) /\ Len(q) # 0
        BY <1>2, LenProperties, EmptySeq
    <1>5. \A i \in DOMAIN q : q[i] \in Frames /\ FrameSound(q[i]) /\ FrameSound(q[i])'
        <2>1. \A i \in DOMAIN q : q[i] \in Frames BY <1>2, <1>4, ElementOfSeq
        <2>2. \A i \in DOMAIN q : FrameSound(q[i]) BY <1>2 DEF SyncInv, FramesSound
        <2>3. \A i \in DOMAIN q : FrameSound(q[i])' BY <1>1, <2>2, FramesKept
        <2> QED BY <2>1, <2>2, <2>3
    <1>6. stream' \in Streams /\ stream'.frames = Tail(q)
        BY <1>1, <1>2, <1>3, FrontTypes DEF Streams
    <1>7. FramesSound'
        <2>1. DOMAIN Tail(q) = 1..Len(Tail(q)) BY <1>3, LenProperties
        <2>2. ASSUME NEW i \in DOMAIN Tail(q) PROVE FrameSound(Tail(q)[i])'
            <3>1. i + 1 \in DOMAIN q /\ Tail(q)[i] = q[i + 1] BY <1>3, <1>4, <2>1
            <3>2. PICK f : f = q[i + 1] /\ f = Tail(q)[i] BY <3>1
            <3>3. FrameSound(f)' BY <1>5, <3>1, <3>2
            <3> QED BY <3>2, <3>3
        <2>3. FrameSound(reply)' BY <1>1, FramesKept DEF SyncInv, FramesSound
        <2> QED BY <1>1, <1>6, <2>2, <2>3 DEF FramesSound
    <1>8. PICK f \in Frames : f = stream.frames[1] /\ FrameSound(f) BY <1>2, <1>4, <1>5
    <1>9. PICK c \in Clients : c = Accepted(client, f) /\ ViewIs(c.view) BY <1>8, AcceptedSound
    <1>10. client' \in Clients /\ client'.view = c.view /\ req' \in [Requests -> Reqs]
        <2>1. CASE Gap(client.view, f)
            <3>1. Refreshed(c) BY <1>8, <1>9, <2>1 DEF StreamReceived
            <3> QED BY <3>1, RefreshedTypes
        <2>2. CASE ~Gap(client.view, f)
            <3>1. client' = c /\ req' = req BY <1>8, <1>9, <2>2 DEF StreamReceived
            <3> QED BY <3>1, FrontTypes
        <2> QED BY <2>1, <2>2
    <1>11. ViewSound' BY <1>1, <1>9, <1>10, ViewIsSound
    <1> QED BY <1>1, <1>6, <1>7, <1>10, <1>11, FrontMoves, FrontTypes, SeedsTyped, SeedsKept

LEMMA StreamMoves ==
    ASSUME SyncInv, StreamWake \/ StreamStart PROVE SyncInv'
    <1>1. UNCHANGED <<db, cache, sequence, writer, seeding, reply, client, mishaps, stale>>
        BY DEF StreamWake, StreamStart
    <1>2. req' \in [Requests -> Reqs]
        <2>1. CASE StreamWake
            <3>1. PICK r \in Reqs : r = [pc |-> "head", after |-> stream.after]
                BY FrontTypes DEF Reqs
            <3> QED BY <2>1, <3>1, FrontTypes DEF StreamWake
        <2>2. CASE StreamStart BY <2>2, FrontTypes DEF StreamStart
        <2> QED BY <2>1, <2>2
    <1>3. stream' \in Streams /\ (stream'.frames = stream.frames \/ stream'.frames = <<>>)
        <2>1. CASE StreamWake BY <2>1, FrontTypes DEF StreamWake, Streams
        <2>2. CASE StreamStart BY <2>2, FrontTypes, EmptyIsSeq DEF StreamStart, Streams
        <2> QED BY <2>1, <2>2
    <1>4. FramesSound'
        <2>1. FrameSound(reply)' BY <1>1, FramesKept DEF SyncInv, FramesSound
        <2>2. CASE stream'.frames = stream.frames
            BY <1>1, <2>1, <2>2, FramesKept DEF SyncInv, FramesSound
        <2>3. CASE stream'.frames = <<>>
            <3>1. DOMAIN stream'.frames = {} BY <2>3
            <3> QED BY <1>1, <2>1, <3>1 DEF FramesSound
        <2> QED BY <1>3, <2>2, <2>3
    <1>5. ViewSound' BY <1>1, DbKept DEF SyncInv, ViewSound
    <1> QED BY <1>1, <1>2, <1>3, <1>4, <1>5, FrontMoves, FrontTypes, SeedsTyped, SeedsKept

\* An answer or the stream is lost, with the seed it was waiting for.
LEMMA AnswerLost ==
    ASSUME SyncInv, SnapshotLost PROVE SyncInv'
    <1>1. /\ UNCHANGED <<db, cache, sequence, writer, stream, client, stale>>
          /\ mishaps' \in 0..Mishaps /\ reply' = NoFrame
          /\ req' = [req EXCEPT !["http"] = IdleRequest]
          /\ seeding' = [seeding EXCEPT !["http"] = NotSeeding]
        BY MishapCounted DEF SnapshotLost
    <1>2. req' \in [Requests -> Reqs] BY <1>1, FrontTypes, IdleFrontTypes
    <1>3. seeding' \in [Tasks -> Seeds] /\ SeedsCommitted' BY <1>1, SeedDropped DEF Tasks
    <1>4. FramesSound' BY <1>1, NoFrameSound, FramesKept DEF SyncInv, FramesSound
    <1>5. ViewSound' BY <1>1, DbKept DEF SyncInv, ViewSound
    <1> QED BY <1>1, <1>2, <1>3, <1>4, <1>5, IdleTypes, FrontMoves, FrontTypes

LEMMA StreamBreaks ==
    ASSUME SyncInv, StreamLost PROVE SyncInv'
    <1>1. /\ UNCHANGED <<db, cache, sequence, writer, reply, stale>>
          /\ mishaps' \in 0..Mishaps /\ stream' = ClosedStream
          /\ seeding' = [seeding EXCEPT !["stream"] = NotSeeding]
        BY MishapCounted DEF StreamLost
    <1>2. seeding' \in [Tasks -> Seeds] /\ SeedsCommitted' BY <1>1, SeedDropped DEF Tasks
    <1>3. PICK c \in Clients : c = [client EXCEPT !.catchup = TRUE] /\ c.view = client.view
        BY FrontTypes, ClientChanged
    <1>4. client' \in Clients /\ client'.view = client.view /\ req' \in [Requests -> Reqs]
        <2>1. CASE Pending
            <3>1. client' = c /\ req' = [req EXCEPT !["stream"] = IdleRequest]
                BY <1>3, <2>1 DEF StreamLost
            <3> QED BY <1>3, <3>1, FrontTypes, IdleFrontTypes
        <2>2. CASE ~Pending
            <3>1. PICK n \in None..Updates : n = IF c.boot THEN None ELSE c.view.rev
                BY ClientChanged, IdleTypes
            <3>2. PICK r \in Reqs : r = [pc |-> "head", after |-> n] BY DEF Reqs
            <3>3. /\ client' = [c EXCEPT !.catchup = FALSE]
                  /\ req' = [req EXCEPT !["http"] = r, !["stream"] = IdleRequest]
                BY <1>3, <2>2, <3>1, <3>2 DEF StreamLost
            <3> QED BY <1>3, <3>3, ClientChanged, FrontTypes, IdleFrontTypes
        <2> QED BY <2>1, <2>2
    <1>5. FramesSound'
        <2>1. DOMAIN stream'.frames = {} BY <1>1, IdleFrontTypes
        <2>2. FrameSound(reply)' BY <1>1, FramesKept DEF SyncInv, FramesSound
        <2> QED BY <2>1, <2>2 DEF FramesSound
    <1>6. ViewSound' BY <1>1, <1>4, DbKept DEF SyncInv, ViewSound
    <1> QED BY <1>1, <1>2, <1>4, <1>5, <1>6, IdleFrontTypes, FrontMoves, FrontTypes

LEMMA SyncStep ==
    ASSUME SyncInv, [Next]_vars PROVE SyncInv'
    <1>1. ASSUME NEW p \in Tasks, Seed(p) PROVE SyncInv'
        BY <1>1, SeedReads, SeedStores DEF Seed
    <1>2. ASSUME NEW p \in Requests, Payload(p) PROVE SyncInv' BY <1>2, PayloadStep
    <1>3. CASE BeginCommand \/ BeginBatch BY <1>3, WriterBegins
    <1>4. CASE Write BY <1>4, WriterLoads, WriterBases, WriterCommits, WriterPublishes DEF Write
    <1>5. CASE StreamWake \/ StreamStart BY <1>5, StreamMoves
    <1>6. CASE StreamReceived BY <1>6, FollowerFollows
    <1>7. CASE Refresh BY <1>7, FollowerRefreshes
    <1>8. CASE SnapshotReceived BY <1>8, FollowerReceives
    <1>9. CASE Lose
        BY <1>9, AnswerLost, StreamBreaks, WriterAbandons, ProcessRestarts, WriterFails DEF Lose
    <1>10. CASE UNCHANGED vars
        <2>1. UNCHANGED <<db, cache, sequence, writer, req, seeding, stream, reply, client,
                          mishaps, stale>>
            BY <1>10 DEF vars
        <2>2. SyncTypeOK' BY <2>1 DEF SyncInv, SyncTypeOK
        <2> QED BY <2>1, <2>2, BackKept, FrontKept, SeedsKept DEF SyncInv
    <1> QED BY <1>1, <1>2, <1>3, <1>4, <1>5, <1>6, <1>7, <1>8, <1>9, <1>10 DEF Next

\* The process starts with the journal of what was committed before it.
LEMMA SyncStart ==
    ASSUME Init PROVE SyncInv
    <1>1. /\ writer = IdleWriter /\ req = [p \in Requests |-> IdleRequest] /\ sequence = History
          /\ seeding = [p \in Tasks |-> NotSeeding] /\ stream = ClosedStream /\ reply = NoFrame
          /\ client = [view |-> Absent, boot |-> TRUE, catchup |-> FALSE, target |-> 0]
          /\ mishaps = 0 /\ stale = FALSE
          /\ db.meta = 1..History /\ db.ents = 1..History
        BY DEF Init
    <1>2. History \in Nat /\ History <= Updates /\ Updates \in Nat /\ Mishaps \in Nat
        BY SyncAssumption
    <1>3. PICK a : /\ a = db.rows
                   /\ a = [i \in 1..History |-> [seq |-> i, base |-> i - 1,
                                                 ops |-> [meta |-> {i}, ents |-> {i}]]]
        BY DEF Init
    <1>4. ASSUME NEW i \in 1..History
          PROVE  a[i] \in Rows /\ a[i].seq = i /\ a[i].base = i - 1 /\ a[i].ops = Both({i})
        <2>2. i \in 1..Updates BY <1>2
        <2>1. PICK o \in Docs : o = [meta |-> {i}, ents |-> {i}]
            <3>1. {i} \in SUBSET (1..Updates) BY <2>2
            <3> QED BY <3>1 DEF Docs
        <2>3. i - 1 \in None..Updates BY <1>2, <2>2 DEF None
        <2>4. a[i] = [seq |-> i, base |-> i - 1, ops |-> o] BY <1>3, <2>1
        <2>5. a[i] \in Rows BY <2>2, <2>3, <2>4 DEF Rows
        <2> QED BY <2>1, <2>4, <2>5 DEF Both
    <1>5. a \in Seq(Rows) /\ Len(a) = History /\ DOMAIN a = 1..History
        <2>1. DOMAIN a = 1..History BY <1>3
        <2>2. a = [i \in 1..History |-> a[i]] BY <1>3
        <2>3. a \in [1..History -> Rows] BY <1>4, <2>2
        <2>4. a \in Seq(Rows) BY <1>2, <2>3, SeqDef
        <2> QED BY <1>2, <2>1, <2>4, LenProperties
    <1>6. db \in [rows : Seq(Rows), meta : SUBSET (1..Updates), ents : SUBSET (1..Updates)]
        <2>1. PICK m \in SUBSET (1..Updates) : m = 1..History BY <1>2
        <2>2. db = [rows |-> a, meta |-> m, ents |-> m]
            <3>1. a = [i \in 1..History |-> [seq |-> i, base |-> i - 1,
                                             ops |-> [meta |-> {i}, ents |-> {i}]]]
                BY <1>3
            <3> QED BY <2>1, <3>1 DEF Init
        <2> QED BY <1>5, <2>2
    <1>7. Newest = History
        <2>1. CASE History = 0
            <3>1. a = <<>> BY <1>5, <2>1, EmptySeq
            <3> QED BY <1>3, <2>1, <3>1 DEF Newest
        <2>2. CASE History # 0
            <3>1. a # <<>> BY <1>5, <2>2, EmptySeq
            <3>2. History \in 1..History BY <1>2, <2>2
            <3> QED BY <1>3, <1>4, <1>5, <3>1, <3>2 DEF Newest
        <2> QED BY <2>1, <2>2
    <1>8. Stored \in Versions /\ cache \in Versions /\ (Cold => cache = Absent)
          /\ (~Cold => cache = Stored) /\ Stored.rev = History
        <2>1. [meta |-> db.meta, ents |-> db.ents] \in Docs BY <1>1, <1>2 DEF Docs
        <2>2. History \in None..Updates BY <1>2, IdleTypes
        <2>3. Stored \in Versions /\ Stored.rev = History
            BY <1>7, <2>1, <2>2, VersionMade DEF Stored
        <2> QED BY <2>3, IdleTypes DEF Init
    <1>9. SyncTypeOK
        <2>1. client \in Clients BY <1>1, <1>2, IdleTypes DEF Clients
        <2>2. req \in [Requests -> Reqs] /\ seeding \in [Tasks -> Seeds]
            BY <1>1, IdleFrontTypes
        <2>3. mishaps \in 0..Mishaps /\ stale \in BOOLEAN /\ sequence \in 0..Updates
            <3>1. 0 \in 0..Mishaps /\ History \in 0..Updates BY <1>2
            <3> QED BY <1>1, <3>1
        <2>4. writer \in Writers /\ stream \in Streams /\ reply \in Frames
            BY <1>1, IdleWriterIs, IdleFrontTypes, IdleTypes
        <2> QED BY <1>6, <1>8, <2>1, <2>2, <2>3, <2>4
              DEF SyncTypeOK, Clients, Reqs, Seeds, Writers, Streams
    <1>10. JournalOrdered
        <2>1. \A i \in DOMAIN a : a[i].ops = Both({a[i].seq}) BY <1>4, <1>5
        <2>2. \A i, j \in DOMAIN a : i < j => a[i].seq < a[j].seq BY <1>4, <1>5
        <2>3. Newest <= sequence BY <1>1, <1>2, <1>7
        <2> QED BY <1>3, <2>1, <2>2, <2>3 DEF JournalOrdered
    <1>11. Stored.doc = Replay(Newest)
        <2>1. Between(0, Newest) = 1..History
            <3>1. \A j \in 1..History : 0 < a[j].seq /\ a[j].seq <= Newest
                <4> SUFFICES ASSUME NEW j \in 1..History PROVE 0 < a[j].seq /\ a[j].seq <= Newest
                    OBVIOUS
                <4>1. a[j].seq = j BY <1>4
                <4>2. 0 < j /\ j <= History BY <1>2
                <4> QED BY <1>7, <4>1, <4>2
            <3>2. Between(0, Newest) = {a[j].seq : j \in 1..History}
                <4>1. {j \in DOMAIN a : 0 < a[j].seq /\ a[j].seq <= Newest} = 1..History
                    BY <1>5, <3>1
                <4>2. Between(0, Newest) = {a[j].seq : j \in {k \in DOMAIN a : 0 < a[k].seq
                                                                 /\ a[k].seq <= Newest}}
                    BY <1>3 DEF Between
                <4> QED BY <4>1, <4>2
            <3> QED BY <1>4, <3>2
        <2>2. Replay(Newest) = Both(Between(0, Newest))
            BY <1>9, <1>10, ReplayIs, NewestFacts
        <2> QED BY <1>1, <2>1, <2>2 DEF Stored, Both
    <1>12. JournalReplays
        <2>1. ASSUME NEW i \in DOMAIN a
              PROVE  a[i].base = IF i = 1 THEN 0 ELSE a[i - 1].seq
            <3>1. i \in 1..History /\ a[i].base = i - 1 BY <1>4, <1>5
            <3>2. CASE i = 1 BY <3>1, <3>2
            <3>3. CASE i # 1
                <4>1. i - 1 \in 1..History BY <1>2, <3>1, <3>3
                <4> QED BY <1>4, <3>1, <3>3, <4>1
            <3> QED BY <3>2, <3>3
        <2> QED BY <1>3, <1>11, <2>1 DEF JournalReplays
    <1>13. None <= Newest BY <1>2, <1>7, IdleTypes
    <1>14. WriterNumbers /\ WriterBased BY <1>1, IdleWriterIs DEF WriterNumbers, WriterBased
    <1>15. CacheSound
        <2>1. CASE Cold BY <1>8, <1>13, <2>1, IdleTypes DEF CacheSound
        <2>2. CASE ~Cold
            <3>1. cache = Stored /\ cache.rev = Newest BY <1>7, <1>8, <2>2
            <3>2. Newest <= Newest BY <1>2, <1>7
            <3> QED BY <1>11, <3>1, <3>2 DEF CacheSound
        <2> QED BY <2>1, <2>2
    <1>16. SeedsCommitted BY <1>1, <1>13, IdleFrontTypes DEF SeedsCommitted
    <1>17. FramesSound
        <2>1. DOMAIN stream.frames = {} BY <1>1, IdleFrontTypes
        <2>2. FrameSound(NoFrame) BY <1>13, IdleTypes DEF FrameSound
        <2> QED BY <1>1, <2>1, <2>2 DEF FramesSound
    <1>18. ViewSound
        <2>1. client.view = Absent /\ Absent.rev = None /\ Absent.doc = Both({})
            BY <1>1 DEF Absent, Empty, Both
        <2>2. Replay(None) = Both(Between(0, None)) BY <1>9, <1>10, ReplayIs, IdleTypes
        <2>3. Between(0, None) = {}
            <3>1. \A i \in DOMAIN db.rows : db.rows[i].seq \in Int /\ 0 < db.rows[i].seq
                BY <1>9, RowFields, SyncAssumption
            <3> QED BY <3>1, IdleTypes DEF Between
        <2> QED BY <1>13, <2>1, <2>2, <2>3 DEF ViewSound
    <1> QED BY <1>9, <1>10, <1>12, <1>14, <1>15, <1>16, <1>17, <1>18 DEF SyncInv

-----------------------------------------------------------------------------
\* Whatever is written, abandoned, restarted, lost and repeated, and however
\* long the journal and its pages are (persist_command, persist_batch,
\* SessionSync and followRun): rows are numbered in the order of their commits,
\* a write is based on what is stored, and every projection and page on its
\* way to the browser is what was committed at its revisions.
THEOREM SyncInvariant == Spec => []SyncInv
    <1>1. Init => SyncInv BY SyncStart
    <1>2. SyncInv /\ [Next]_vars => SyncInv' BY SyncStep
    <1> QED BY <1>1, <1>2, PTL DEF Spec

\* The rows are one chain that replays to the stored projection, and the
\* browser shows at each revision what the journal holds there
\* (persist_command, SessionSync::payload, RunProjection.apply), unless an
\* outdated projection was left in the cache.
THEOREM ViewsAlwaysReplay == Spec => []ViewsReplay
    <1>1. SyncInv => ViewsReplay
        BY DEF SyncInv, ViewsReplay, ViewSound, ViewFaithful
    <1> QED BY <1>1, SyncInvariant, PTL

=============================================================================
