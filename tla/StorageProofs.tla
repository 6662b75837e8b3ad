---------------------------- MODULE StorageProofs ----------------------------
(***************************************************************************)
(* What outlives a process.  Maintenance: no session is lost, whatever     *)
(* crashes and whoever alters the directories beside the data, and         *)
(* recovery finishes.  Updates, for every set of releases and clients: an  *)
(* activation interrupts no work, and the release that is started next,    *)
(* and the one to return to, have answered before.  Conversions and        *)
(* deletions over any finite set of workspaces: a reader sees a flow whole *)
(* or not at all, and an operation is finished or undone whatever crashes. *)
(***************************************************************************)
EXTENDS DataMaintenance, PackageLifecycle, Updates, FiniteSetTheorems,
        WellFoundedInduction, TLAPS

\* Two directories with the same fields are one.
LEMMA DirectoryEqual ==
    ASSUME NEW d \in Directory, NEW e \in Directory,
           d.sessions = e.sessions, d.running = e.running,
           d.unfinished = e.unfinished, d.rows = e.rows,
           d.receipt = e.receipt, d.altered = e.altered
    PROVE  d = e
    BY DEF Directory

\* A directory that differs in one field is a directory.
LEMMA DirectoryFields ==
    ASSUME NEW d \in Directory
    PROVE  /\ d # Absent
           /\ d.sessions \subseteq Sessions /\ d.running \subseteq Sessions
           /\ d.unfinished \in BOOLEAN /\ d.rows \in BOOLEAN
           /\ d.receipt \in {"none", "started", "complete"} /\ d.altered \in BOOLEAN
    BY MaintenanceAssumption DEF Directory

LEMMA SessionsReplaced ==
    ASSUME NEW d \in Directory, NEW S \in SUBSET Sessions
    PROVE  LET e == [d EXCEPT !.sessions = S]
           IN  /\ e \in Directory /\ e.sessions = S
               /\ e.running = d.running /\ e.unfinished = d.unfinished
               /\ e.rows = d.rows /\ e.receipt = d.receipt /\ e.altered = d.altered
    BY DEF Directory

LEMMA RunningReplaced ==
    ASSUME NEW d \in Directory, NEW S \in SUBSET Sessions
    PROVE  LET e == [d EXCEPT !.running = S]
           IN  /\ e \in Directory /\ e.running = S
               /\ e.sessions = d.sessions /\ e.unfinished = d.unfinished
               /\ e.rows = d.rows /\ e.receipt = d.receipt /\ e.altered = d.altered
    BY DEF Directory

LEMMA UnfinishedReplaced ==
    ASSUME NEW d \in Directory, NEW b \in BOOLEAN
    PROVE  LET e == [d EXCEPT !.unfinished = b]
           IN  /\ e \in Directory /\ e.unfinished = b
               /\ e.sessions = d.sessions /\ e.running = d.running
               /\ e.rows = d.rows /\ e.receipt = d.receipt /\ e.altered = d.altered
    BY DEF Directory

LEMMA ReceiptReplaced ==
    ASSUME NEW d \in Directory, NEW r \in {"none", "started", "complete"}
    PROVE  LET e == [d EXCEPT !.receipt = r]
           IN  /\ e \in Directory /\ e.receipt = r
               /\ e.sessions = d.sessions /\ e.running = d.running
               /\ e.rows = d.rows /\ e.unfinished = d.unfinished /\ e.altered = d.altered
    BY DEF Directory

LEMMA AlteredReplaced ==
    ASSUME NEW d \in Directory, NEW b \in BOOLEAN
    PROVE  LET e == [d EXCEPT !.altered = b]
           IN  /\ e \in Directory /\ e.altered = b
               /\ e.sessions = d.sessions /\ e.running = d.running
               /\ e.rows = d.rows /\ e.unfinished = d.unfinished /\ e.receipt = d.receipt
    BY DEF Directory

\* The inventory of a directory that nobody altered is the directory.
LEMMA SameButFields ==
    ASSUME NEW d \in Directory, NEW e \in Directory
    PROVE  /\ SameBut(d, e) => /\ d.sessions = e.sessions /\ d.running = e.running
                               /\ d.unfinished = e.unfinished /\ d.rows = e.rows
                               /\ d.receipt = e.receipt
           /\ SameBut(d, e) /\ ~d.altered => d = e
    <1>1. [d EXCEPT !.altered = FALSE] \in Directory
        BY AlteredReplaced
    <1>2. ASSUME SameBut(d, e)
          PROVE  /\ d.sessions = e.sessions /\ d.running = e.running
                 /\ d.unfinished = e.unfinished /\ d.rows = e.rows
                 /\ d.receipt = e.receipt
        BY <1>2, AlteredReplaced DEF SameBut
    <1>3. ASSUME SameBut(d, e), ~d.altered PROVE d = e
        <2>1. d.altered = FALSE BY <1>3, DirectoryFields
        <2>2. [d EXCEPT !.altered = FALSE] = d BY <2>1 DEF Directory
        <2> QED BY <2>2, <1>3 DEF SameBut
    <1> QED BY <1>2, <1>3

-----------------------------------------------------------------------------
(***************************************************************************)
(* One program moves; the others are off.                                  *)
(***************************************************************************)
LEMMA ProgramMoved ==
    ASSUME MaintenanceInv, NEW p \in Procs, ~At(p, "off") \/ LockFree,
           NEW r \in Program, proc' = [proc EXCEPT ![p] = r]
    PROVE  /\ proc' \in [Procs -> Program] /\ proc'[p] = r
           /\ \A q \in Procs : q # p => proc'[q].at = "off"
           /\ OneProgram'
    BY DEF MaintenanceInv, MaintenanceTypeOK, OneProgram, LockFree, At

LEMMA GotoIs ==
    ASSUME MaintenanceInv, NEW p \in Procs, NEW x \in Places, Goto(p, x)
    PROVE  \E r \in Program : /\ proc' = [proc EXCEPT ![p] = r]
                              /\ r.at = x /\ r.then = proc[p].then
                              /\ r.attempt = proc[p].attempt
    <1>1. proc[p] \in Program BY DEF MaintenanceInv, MaintenanceTypeOK
    <1>2. [proc[p] EXCEPT !.at = x] \in Program BY <1>1 DEF Program
    <1>3. proc' = [proc EXCEPT ![p] = [proc[p] EXCEPT !.at = x]]
        BY DEF Goto
    <1>4. WITNESS [proc[p] EXCEPT !.at = x] \in Program
    <1> QED BY <1>1, <1>3 DEF Program

LEMMA OffProgram == Off \in Program /\ Off.at = "off"
    BY MaintenanceAssumption DEF Off, Program, Places

\* What holds of the programs has to be shown of the one that moves.
LEMMA PlacesFrom ==
    ASSUME NEW p \in Procs, \A q \in Procs : q # p => proc'[q].at = "off",
           PlaceFollows(p)', PlacePrepares(p)', PlaceExchanges(p)'
    PROVE  PlacesSound'
    <1> SUFFICES ASSUME NEW q \in Procs, q # p
                 PROVE  (PlaceFollows(q) /\ PlacePrepares(q) /\ PlaceExchanges(q))'
        BY DEF PlacesSound
    <1>1. proc'[q].at = "off" OBVIOUS
    <1> QED BY <1>1 DEF PlaceFollows, PlacePrepares, PlaceExchanges, At, Preparing,
                        Exchanging, Importing

\* A program that stopped is nowhere.
LEMMA Stopped ==
    ASSUME MaintenanceInv, NEW p \in Procs, ~At(p, "off"), Stop(p)
    PROVE  proc' \in [Procs -> Program] /\ OneProgram' /\ PlacesSound'
    <1>1. /\ proc' \in [Procs -> Program] /\ proc'[p] = Off /\ OneProgram'
          /\ \A q \in Procs : q # p => proc'[q].at = "off"
        BY ProgramMoved, OffProgram DEF Stop
    <1>2. (PlaceFollows(p) /\ PlacePrepares(p) /\ PlaceExchanges(p))'
        BY <1>1, OffProgram DEF PlaceFollows, PlacePrepares, PlaceExchanges, At, Preparing,
                                Exchanging, Importing
    <1> QED BY <1>1, <1>2, PlacesFrom

\* What the directories show does not depend on the programs.
LEMMA DirectoriesKept ==
    ASSUME MaintenanceInv, UNCHANGED <<dirs, marker, flows, made, disturbed>>
    PROVE  ExchangeSound' /\ SessionsHeld' /\ ReceiptKept'
    <1>1. ExchangeSound'
        BY DEF MaintenanceInv, ExchangeSound, dirs, BackupWhole, BeforeRenames, BetweenRenames,
               AfterRenames
    <1>2. SessionsHeld'
        BY DEF MaintenanceInv, SessionsHeld, Held, BackedUp, dirs
    <1>3. ReceiptKept'
        BY DEF MaintenanceInv, ReceiptKept, dirs
    <1> QED BY <1>1, <1>2, <1>3

\* A step that changes nothing but the place of a program.
LEMMA OnlyMoves ==
    ASSUME MaintenanceInv, NEW p \in Procs, ~At(p, "off") \/ LockFree,
           NEW r \in Program, proc' = [proc EXCEPT ![p] = r],
           UNCHANGED <<dirs, marker, attempt, flows, history, alterations>>,
           report' \subseteq Numbers, crashes' \in Nat,
           PlaceFollows(p)', PlacePrepares(p)', PlaceExchanges(p)'
    PROVE  MaintenanceInv'
    <1>1. proc' \in [Procs -> Program] /\ OneProgram' /\ PlacesSound'
        BY ProgramMoved, PlacesFrom
    <1>2. ExchangeSound' /\ SessionsHeld' /\ ReceiptKept'
        BY DirectoriesKept DEF history
    <1>3. MaintenanceTypeOK'
        BY <1>1 DEF MaintenanceInv, MaintenanceTypeOK, dirs, history
    <1>4. NumbersFresh' /\ RecoverFinishes'
        BY DEF MaintenanceInv, NumbersFresh, RecoverFinishes, dirs, history
    <1> QED BY <1>1, <1>2, <1>3, <1>4 DEF MaintenanceInv

\* The same for a program that stops.
LEMMA OnlyStops ==
    ASSUME MaintenanceInv, NEW p \in Procs, ~At(p, "off"), Stop(p),
           UNCHANGED <<dirs, marker, attempt, flows, history, alterations, report>>,
           crashes' \in Nat
    PROVE  MaintenanceInv'
    <1>1. proc' \in [Procs -> Program] /\ OneProgram' /\ PlacesSound'
        BY Stopped
    <1>2. ExchangeSound' /\ SessionsHeld' /\ ReceiptKept'
        BY DirectoriesKept DEF history
    <1>3. MaintenanceTypeOK'
        BY <1>1 DEF MaintenanceInv, MaintenanceTypeOK, dirs, history
    <1>4. NumbersFresh' /\ RecoverFinishes'
        BY DEF MaintenanceInv, NumbersFresh, RecoverFinishes, dirs, history
    <1> QED BY <1>1, <1>2, <1>3, <1>4 DEF MaintenanceInv

-----------------------------------------------------------------------------
(***************************************************************************)
(* The programs take the lock, stop or crash.                              *)
(***************************************************************************)
LEMMA LockTaken ==
    ASSUME MaintenanceInv, NEW p \in Procs, Start(p) \/ Maintain(p) \/ Import(p)
    PROVE  MaintenanceInv'
    <1>1. PICK r \in Program :
            /\ proc' = [proc EXCEPT ![p] = r]
            /\ \/ r.at = "recover" /\ r.then \in {"open", "select"}
               \/ r.at = "import" /\ data # Absent
        <2> DEFINE entry(x, y) == [at |-> x, then |-> y, attempt |-> 0]
        <2> /\ entry("recover", "open") \in Program /\ entry("recover", "select") \in Program
            /\ entry("import", "none") \in Program
            BY MaintenanceAssumption DEF Program, Places
        <2>2. CASE Start(p)
            <3> WITNESS entry("recover", "open") \in Program
            <3> QED BY <2>2 DEF Start
        <2>3. CASE Maintain(p)
            <3> WITNESS entry("recover", "select") \in Program
            <3> QED BY <2>3 DEF Maintain
        <2>4. CASE Import(p)
            <3> WITNESS entry("import", "none") \in Program
            <3> QED BY <2>4 DEF Import
        <2> QED BY <2>2, <2>3, <2>4
    <1>2. LockFree /\ UNCHANGED <<dirs, marker, report, attempt, flows, history, bounds>>
        BY DEF Start, Maintain, Import
    <1>3. proc'[p] = r BY <1>1, <1>2, ProgramMoved
    <1>4. (PlaceFollows(p) /\ PlacePrepares(p) /\ PlaceExchanges(p))'
        BY <1>1, <1>2, <1>3 DEF PlaceFollows, PlacePrepares, PlaceExchanges, At, Preparing,
                                Exchanging, Importing, dirs
    <1>5. report' \subseteq Numbers /\ crashes' \in Nat /\ alterations' = alterations
        BY <1>2 DEF MaintenanceInv, MaintenanceTypeOK, bounds
    <1> QED BY <1>1, <1>2, <1>4, <1>5, OnlyMoves

LEMMA ProgramStops ==
    ASSUME MaintenanceInv, NEW p \in Procs,
           SelectRefuses(p) \/ NormalizeFails(p) \/ ImportEnds(p) \/ Crash(p)
    PROVE  MaintenanceInv'
    <1>1. ~At(p, "off") /\ Stop(p)
          /\ UNCHANGED <<dirs, marker, attempt, flows, history, alterations, report>>
        BY DEF SelectRefuses, NormalizeFails, ImportEnds, Crash, At, bounds
    <1>2. crashes' \in Nat
        BY DEF MaintenanceInv, MaintenanceTypeOK, SelectRefuses, NormalizeFails, ImportEnds,
               Crash, bounds
    <1> QED BY <1>1, <1>2, OnlyStops

-----------------------------------------------------------------------------
(***************************************************************************)
(* recover.                                                                *)
(***************************************************************************)

\* recover, and each of its steps, is taken by the program that has the lock.
LEMMA RecoverMoves ==
    ASSUME MaintenanceInv, NEW p \in Procs,
           \/ RecoverNothing(p) \/ RecoverInspect(p) \/ Verify(p) \/ Report(p)
    PROVE  MaintenanceInv'
    <1>0. proc[p] \in Program /\ PlaceFollows(p) /\ PlaceExchanges(p)
        BY DEF MaintenanceInv, MaintenanceTypeOK, PlacesSound
    <1>1. UNCHANGED <<dirs, marker, attempt, flows, history, alterations>> /\ crashes' = crashes
        BY DEF RecoverNothing, RecoverInspect, Verify, Report, bounds
    <1>2. report' \subseteq Numbers /\ crashes' \in Nat
        <2>1. CASE Report(p)
            <3>1. marker \in Marker
                BY <2>1, <1>0 DEF Report, PlaceExchanges, At, Exchanging, MaintenanceInv, MaintenanceTypeOK
            <3>2. marker.attempt \in Numbers BY <3>1 DEF Marker
            <3> QED BY <2>1, <3>2, <1>1 DEF Report, MaintenanceInv, MaintenanceTypeOK
        <2>2. CASE RecoverNothing(p) \/ RecoverInspect(p) \/ Verify(p)
            BY <2>2, <1>1 DEF RecoverNothing, RecoverInspect, Verify, MaintenanceInv, MaintenanceTypeOK
        <2> QED BY <2>1, <2>2
    <1>3. ~At(p, "off")
        BY DEF RecoverNothing, RecoverInspect, Verify, Report, At
    <1>4. PICK r \in Program :
            /\ proc' = [proc EXCEPT ![p] = r] /\ r.then = proc[p].then
            /\ \/ /\ RecoverNothing(p) /\ r.at = proc[p].then
                  /\ r.at \in {"open", "select"}
               \/ /\ RecoverInspect(p)
                  /\ r.at = IF staging[marker.attempt] = Absent THEN "verify"
                            ELSE IF data # Absent THEN "retire" ELSE "install"
               \/ Verify(p) /\ r.at = "clean"
               \/ Report(p) /\ r.at = "unmark"
        <2>1. CASE RecoverNothing(p)
            <3>1. proc[p].then \in {"open", "select"}
                BY <2>1, <1>0 DEF RecoverNothing, PlaceFollows, At, Program
            <3>2. proc[p].then \in Places BY <3>1 DEF Places
            <3> QED BY <2>1, <3>1, <3>2, GotoIs DEF RecoverNothing
        <2>2. CASE RecoverInspect(p)
            <3> DEFINE x == IF staging[marker.attempt] = Absent THEN "verify"
                            ELSE IF data # Absent THEN "retire" ELSE "install"
            <3>1. x \in Places BY DEF Places
            <3>2. Goto(p, x) BY <2>2 DEF RecoverInspect
            <3> HIDE DEF x
            <3>3. PICK r \in Program : proc' = [proc EXCEPT ![p] = r] /\ r.then = proc[p].then /\ r.at = x
                BY <3>1, <3>2, GotoIs
            <3> QED BY <2>2, <3>3 DEF x
        <2>3. CASE Verify(p)
            BY <2>3, GotoIs DEF Verify, Places
        <2>4. CASE Report(p)
            BY <2>4, GotoIs DEF Report, Places
        <2> QED BY <2>1, <2>2, <2>3, <2>4
    <1>5. proc'[p] = r BY <1>3, <1>4, ProgramMoved
    <1>6. PlaceFollows(p)' /\ PlacePrepares(p)'
        BY <1>0, <1>1, <1>4, <1>5 DEF PlaceFollows, PlacePrepares, At, Preparing, Exchanging,
               Importing, dirs, RecoverNothing, RecoverInspect, Verify, Report
    <1>7. PlaceExchanges(p)'
        BY <1>0, <1>1, <1>4, <1>5 DEF PlaceExchanges, At, Exchanging, dirs, RecoverNothing,
               RecoverInspect, Verify, Report, Installed
    <1> QED BY <1>1, <1>2, <1>3, <1>4, <1>6, <1>7, OnlyMoves

\* A marker names inventories of two directories.
LEMMA MarkerFields ==
    ASSUME MaintenanceInv, marker # NoMarker
    PROVE  /\ marker.attempt \in Numbers /\ marker.attempt \in Nat
           /\ marker.staging \in Directory /\ marker.backup \in Directory
           /\ staging[marker.attempt] \in Maybe /\ retired[marker.attempt] \in Maybe
           /\ backup[marker.attempt] \in Maybe
           /\ BackupWhole /\ BeforeRenames /\ BetweenRenames /\ AfterRenames
           /\ marker.attempt <= attempt
    <1>1. marker \in Marker BY DEF MaintenanceInv, MaintenanceTypeOK
    <1>2. marker.attempt \in Numbers BY <1>1 DEF Marker
    <1>3. marker.attempt \in Nat BY <1>2, MaintenanceAssumption DEF Numbers
    <1>4. marker.staging \in Directory /\ marker.backup \in Directory BY <1>1 DEF Marker
    <1>5. /\ staging[marker.attempt] \in Maybe /\ retired[marker.attempt] \in Maybe
          /\ backup[marker.attempt] \in Maybe
        BY <1>2 DEF MaintenanceInv, MaintenanceTypeOK
    <1> QED BY <1>2, <1>3, <1>4, <1>5 DEF MaintenanceInv, ExchangeSound, NumbersFresh

\* The prepared directory is the backup without the sessions that go.
LEMMA Inventories ==
    ASSUME MaintenanceInv, marker # NoMarker
    PROVE  /\ marker.staging.sessions = marker.backup.sessions \ Removed
           /\ marker.staging.receipt = marker.backup.receipt
           /\ ~marker.staging.altered
           /\ backup[marker.attempt] # Absent
           /\ backup[marker.attempt].sessions = marker.backup.sessions
           /\ staging[marker.attempt] # Absent =>
                /\ staging[marker.attempt].sessions = marker.staging.sessions
                /\ staging[marker.attempt].receipt = marker.staging.receipt
    <1>1. /\ marker.staging \in Directory /\ marker.backup \in Directory
          /\ staging[marker.attempt] \in Maybe /\ backup[marker.attempt] \in Maybe /\ BackupWhole
        BY MarkerFields
    <1>2. marker.backup.sessions \ Removed \in SUBSET Sessions
        BY <1>1, DirectoryFields
    <1>3. /\ marker.staging.sessions = marker.backup.sessions \ Removed
          /\ marker.staging.receipt = marker.backup.receipt
          /\ marker.staging.altered = marker.backup.altered
        BY <1>1, <1>2, SessionsReplaced DEF BackupWhole
    <1>4. ~marker.staging.altered BY <1>1, <1>3 DEF BackupWhole
    <1>5. backup[marker.attempt] # Absent /\ SameBut(backup[marker.attempt], marker.backup)
        BY <1>1 DEF BackupWhole, SameBut
    <1>6. backup[marker.attempt].sessions = marker.backup.sessions
        BY <1>1, <1>5, SameButFields DEF Maybe
    <1>7. ASSUME staging[marker.attempt] # Absent
          PROVE  /\ staging[marker.attempt].sessions = marker.staging.sessions
                 /\ staging[marker.attempt].receipt = marker.staging.receipt
        BY <1>1, <1>7, SameButFields DEF BackupWhole, Maybe
    <1> QED BY <1>3, <1>4, <1>5, <1>6, <1>7

\* recover refuses nothing that nobody altered and the import left alone.
LEMMA RefusesAltered ==
    ASSUME MaintenanceInv, NEW p \in Procs, RecoverRefuses(p) \/ VerifyRefuses(p), ~disturbed
    PROVE  \/ backup[marker.attempt].altered
           \/ staging[marker.attempt] # Absent /\ staging[marker.attempt].altered
           \/ data # Absent /\ data.altered
    <1> SUFFICES ASSUME ~backup[marker.attempt].altered,
                        staging[marker.attempt] # Absent => ~staging[marker.attempt].altered,
                        data # Absent => ~data.altered
                 PROVE  FALSE
        OBVIOUS
    <1>1. marker # NoMarker
        BY DEF RecoverRefuses, VerifyRefuses, MaintenanceInv, PlacesSound, PlaceExchanges, At, Exchanging
    <1>2. /\ marker.staging \in Directory /\ marker.backup \in Directory
          /\ staging[marker.attempt] \in Maybe /\ backup[marker.attempt] \in Maybe
          /\ BackupWhole /\ BeforeRenames /\ BetweenRenames /\ AfterRenames
        BY <1>1, MarkerFields
    <1>3. BackupVerified
        BY <1>2, SameButFields DEF BackupVerified, BackupWhole, SameBut, Maybe
    <1>4. StagingVerified
        BY <1>2, SameButFields DEF StagingVerified, BackupWhole, Maybe
    <1>5. staging[marker.attempt] # Absent => OneSource
        BY <1>2 DEF OneSource, BeforeRenames, BetweenRenames
    <1>6. VerifyRefuses(p) BY <1>1, <1>3, <1>4, <1>5 DEF RecoverRefuses
    <1>7. staging[marker.attempt] = Absent /\ ~Installed
        BY <1>6 DEF VerifyRefuses, MaintenanceInv, PlacesSound, PlaceExchanges, At, Exchanging
    <1>8. data # Absent /\ data \in Directory
        BY <1>2, <1>7 DEF AfterRenames, MaintenanceInv, MaintenanceTypeOK, Maybe
    <1>9. data.receipt = marker.staging.receipt
          /\ SameBut([data EXCEPT !.receipt = marker.staging.receipt], marker.staging)
        BY <1>2, <1>7 DEF AfterRenames
    <1>10. [data EXCEPT !.receipt = marker.staging.receipt] = data
        BY <1>8, <1>9 DEF Directory
    <1>11. data = marker.staging
        BY <1>2, <1>8, <1>9, <1>10, SameButFields
    <1> QED BY <1>1, <1>7, <1>8, <1>11, Inventories DEF Installed

LEMMA RecoverStops ==
    ASSUME MaintenanceInv, NEW p \in Procs, RecoverRefuses(p) \/ VerifyRefuses(p)
    PROVE  MaintenanceInv'
    <1>1. /\ ~At(p, "off") /\ Refuse(p)
        BY DEF RecoverRefuses, VerifyRefuses, At
    <1>2. /\ Stop(p)
          /\ UNCHANGED <<dirs, marker, report, attempt, flows, made, disturbed, bounds>>
        BY <1>1 DEF Refuse
    <1>3. proc' \in [Procs -> Program] /\ OneProgram' /\ PlacesSound'
        BY <1>1, <1>2, Stopped
    <1>4. ExchangeSound' /\ SessionsHeld' /\ ReceiptKept'
        BY <1>2, DirectoriesKept
    <1>5. refused' \in BOOLEAN
        BY <1>1 DEF Refuse
    <1>6. MaintenanceTypeOK'
        BY <1>2, <1>3, <1>5 DEF MaintenanceInv, MaintenanceTypeOK, dirs, bounds
    <1>7. NumbersFresh' BY <1>2 DEF MaintenanceInv, NumbersFresh, dirs
    <1>8. RecoverFinishes'
        <2> SUFFICES ASSUME ~disturbed PROVE ~refused'
            BY <1>2 DEF RecoverFinishes
        <2>1. ~refused BY DEF MaintenanceInv, RecoverFinishes
        <2> QED BY <2>1, <1>1, RefusesAltered DEF Refuse
    <1> QED BY <1>3, <1>4, <1>6, <1>7, <1>8 DEF MaintenanceInv

\* The renames and the cleaning: what they have in common.
LEMMA ExchangeStep ==
    ASSUME MaintenanceInv, NEW p \in Procs,
           Retire(p) \/ Install(p) \/ CleanPartly(p) \/ Clean(p)
    PROVE  /\ marker # NoMarker /\ ~At(p, "off") /\ proc[p] \in Program
           /\ proc[p].then # "none"
           /\ UNCHANGED <<backup, marker, report, attempt, flows, history, bounds>>
           /\ PlaceExchanges(p)
           /\ \E r \in Program : /\ proc' = [proc EXCEPT ![p] = r]
                                 /\ r.then = proc[p].then
                                 /\ Retire(p) => r.at = "install"
                                 /\ Install(p) => r.at = "verify"
                                 /\ CleanPartly(p) => r.at \in {"clean", "report"}
                                 /\ Clean(p) => r.at \in {"clean", "report"}
    <1>1. proc[p] \in Program /\ PlaceFollows(p) /\ PlaceExchanges(p)
        BY DEF MaintenanceInv, MaintenanceTypeOK, PlacesSound
    <1>2. /\ marker # NoMarker /\ ~At(p, "off") /\ proc[p].then # "none"
        BY <1>1 DEF PlaceFollows, PlaceExchanges, Retire, Install, CleanPartly, Clean, At, Exchanging
    <1>3. UNCHANGED <<backup, marker, report, attempt, flows, history, bounds>>
        BY DEF Retire, Install, CleanPartly, Clean
    <1>4. \E r \in Program : /\ proc' = [proc EXCEPT ![p] = r]
                             /\ r.then = proc[p].then
                             /\ Retire(p) => r.at = "install"
                             /\ Install(p) => r.at = "verify"
                             /\ CleanPartly(p) => r.at \in {"clean", "report"}
                             /\ Clean(p) => r.at \in {"clean", "report"}
        <2>1. CASE Retire(p)
            BY <2>1, GotoIs DEF Retire, Install, CleanPartly, Clean, Places, At
        <2>2. CASE Install(p)
            BY <2>2, GotoIs DEF Retire, Install, CleanPartly, Clean, Places, At
        <2>3. CASE Clean(p)
            BY <2>3, GotoIs DEF Retire, Install, CleanPartly, Clean, Places, At
        <2>4. CASE CleanPartly(p)
            <3>1. proc' = [proc EXCEPT ![p] = proc[p]]
                BY <2>4 DEF CleanPartly, MaintenanceInv, MaintenanceTypeOK
            <3> QED BY <2>4, <3>1, <1>1 DEF Retire, Install, CleanPartly, At
        <2> QED BY <2>1, <2>2, <2>3, <2>4
    <1> QED BY <1>1, <1>2, <1>3, <1>4

\* The directory is renamed.
LEMMA RetireKeeps ==
    ASSUME MaintenanceInv, NEW p \in Procs, Retire(p) PROVE MaintenanceInv'
    <1> DEFINE a == marker.attempt
    <1>1. /\ marker # NoMarker /\ ~At(p, "off") /\ proc[p].then # "none" /\ PlaceExchanges(p)
          /\ UNCHANGED <<backup, marker, report, attempt, flows, history, bounds>>
        BY ExchangeStep
    <1>2. PICK r \in Program : /\ proc' = [proc EXCEPT ![p] = r]
                               /\ r.then = proc[p].then /\ r.at = "install"
        BY ExchangeStep
    <1>3. /\ a \in Numbers /\ a \in Nat /\ a <= attempt
          /\ BackupWhole /\ BeforeRenames /\ BetweenRenames /\ AfterRenames
        BY <1>1, MarkerFields
    <1>4. staging[a] # Absent /\ data # Absent /\ data \in Directory
        BY <1>1 DEF PlaceExchanges, Retire, At, Exchanging, MaintenanceInv, MaintenanceTypeOK, Maybe
    <1>5. /\ retired' = [retired EXCEPT ![a] = data] /\ data' = Absent
          /\ staging' = staging /\ backup' = backup /\ marker' = marker
        BY DEF Retire
    <1>6. retired'[a] = data /\ retired' \in [Numbers -> Maybe]
        BY <1>3, <1>4, <1>5 DEF MaintenanceInv, MaintenanceTypeOK, Maybe
    <1>7. proc' \in [Procs -> Program] /\ OneProgram' /\ PlacesSound'
        <2>1. /\ proc' \in [Procs -> Program] /\ OneProgram' /\ proc'[p] = r
              /\ \A q \in Procs : q # p => proc'[q].at = "off"
            BY <1>1, <1>2, ProgramMoved
        <2>2. (PlaceFollows(p) /\ PlacePrepares(p) /\ PlaceExchanges(p))'
            BY <1>1, <1>2, <1>4, <1>5, <2>1 DEF PlaceFollows, PlacePrepares, PlaceExchanges, At,
                   Preparing, Exchanging, Importing
        <2> QED BY <2>1, <2>2, PlacesFrom
    <1>8. MaintenanceTypeOK'
        BY <1>1, <1>5, <1>6, <1>7 DEF MaintenanceInv, MaintenanceTypeOK, Maybe, history, bounds
    <1>9. NumbersFresh'
        <2>1. ASSUME NEW b \in Numbers, b > attempt PROVE retired'[b] = retired[b]
            BY <1>3, <1>5, <2>1, MaintenanceAssumption
               DEF Numbers, MaintenanceInv, MaintenanceTypeOK
        <2> QED BY <1>1, <1>5, <2>1 DEF MaintenanceInv, NumbersFresh
    <1>10. ExchangeSound'
        <2>1. BackupWhole' BY <1>3, <1>5 DEF BackupWhole
        <2>2. BeforeRenames' BY <1>5 DEF BeforeRenames
        <2>3. BetweenRenames' BY <1>3, <1>4, <1>5, <1>6 DEF BeforeRenames, BetweenRenames
        <2>4. AfterRenames' BY <1>4, <1>5 DEF AfterRenames
        <2> QED BY <1>1, <1>5, <2>1, <2>2, <2>3, <2>4 DEF ExchangeSound
    <1>11. SessionsHeld'
        BY <1>1, <1>5 DEF MaintenanceInv, SessionsHeld, Held, BackedUp, history
    <1>12. RecoverFinishes' BY <1>1 DEF MaintenanceInv, RecoverFinishes, history
    <1>13. ReceiptKept'
        <2>1. ~disturbed => data.receipt = marker.backup.receipt
            BY <1>3, <1>4 DEF BeforeRenames
        <2>2. staging[a].receipt = marker.backup.receipt
            BY <1>1, <1>4, Inventories
        <2> QED BY <1>1, <1>4, <1>5, <2>1, <2>2 DEF MaintenanceInv, ReceiptKept, history
    <1> QED BY <1>7, <1>8, <1>9, <1>10, <1>11, <1>12, <1>13 DEF MaintenanceInv

\* The staging is renamed to the directory.
LEMMA InstallKeeps ==
    ASSUME MaintenanceInv, NEW p \in Procs, Install(p) PROVE MaintenanceInv'
    <1> DEFINE a == marker.attempt
    <1>1. /\ marker # NoMarker /\ ~At(p, "off") /\ proc[p].then # "none" /\ PlaceExchanges(p)
          /\ UNCHANGED <<backup, marker, report, attempt, flows, history, bounds>>
        BY ExchangeStep
    <1>2. PICK r \in Program : /\ proc' = [proc EXCEPT ![p] = r]
                               /\ r.then = proc[p].then /\ r.at = "verify"
        BY ExchangeStep
    <1>3. /\ a \in Numbers /\ a \in Nat /\ a <= attempt /\ marker.staging \in Directory
          /\ BackupWhole /\ BeforeRenames /\ BetweenRenames /\ AfterRenames
        BY <1>1, MarkerFields
    <1>4. staging[a] # Absent /\ data = Absent /\ staging[a] \in Directory
        BY <1>1, <1>3 DEF PlaceExchanges, Install, At, Exchanging, MaintenanceInv,
               MaintenanceTypeOK, Maybe
    <1>5. /\ staging' = [staging EXCEPT ![a] = Absent] /\ data' = staging[a]
          /\ retired' = retired /\ backup' = backup /\ marker' = marker
        BY DEF Install
    <1>6. staging'[a] = Absent /\ staging' \in [Numbers -> Maybe]
        BY <1>3, <1>5 DEF MaintenanceInv, MaintenanceTypeOK, Maybe
    <1>7. proc' \in [Procs -> Program] /\ OneProgram' /\ PlacesSound'
        <2>1. /\ proc' \in [Procs -> Program] /\ OneProgram' /\ proc'[p] = r
              /\ \A q \in Procs : q # p => proc'[q].at = "off"
            BY <1>1, <1>2, ProgramMoved
        <2>2. (PlaceFollows(p) /\ PlacePrepares(p) /\ PlaceExchanges(p))'
            BY <1>1, <1>2, <1>5, <1>6, <2>1 DEF PlaceFollows, PlacePrepares, PlaceExchanges, At,
                   Preparing, Exchanging, Importing
        <2> QED BY <2>1, <2>2, PlacesFrom
    <1>8. MaintenanceTypeOK'
        BY <1>1, <1>4, <1>5, <1>6, <1>7 DEF MaintenanceInv, MaintenanceTypeOK, Maybe, history, bounds
    <1>9. NumbersFresh'
        <2>1. ASSUME NEW b \in Numbers, b > attempt PROVE staging'[b] = staging[b]
            BY <1>3, <1>5, <2>1, MaintenanceAssumption
               DEF Numbers, MaintenanceInv, MaintenanceTypeOK
        <2> QED BY <1>1, <1>5, <2>1 DEF MaintenanceInv, NumbersFresh
    <1>10. data'.receipt = marker.staging.receipt
        BY <1>1, <1>4, <1>5, Inventories
    <1>11. ExchangeSound'
        <2>1. BackupWhole' BY <1>3, <1>5, <1>6 DEF BackupWhole
        <2>2. BeforeRenames' BY <1>6, <1>5 DEF BeforeRenames
        <2>3. BetweenRenames' BY <1>4, <1>5 DEF BetweenRenames
        <2>4. AfterRenames'
            <3>1. [data' EXCEPT !.receipt = marker.staging.receipt] = data'
                BY <1>4, <1>5, <1>10 DEF Directory
            <3>2. SameBut(data', marker.staging)
                BY <1>3, <1>4, <1>5 DEF BackupWhole
            <3> QED BY <1>3, <1>4, <1>5, <1>10, <3>1, <3>2 DEF AfterRenames, BetweenRenames
        <2> QED BY <1>1, <2>1, <2>2, <2>3, <2>4 DEF ExchangeSound
    <1>12. SessionsHeld'
        BY <1>1, <1>5 DEF MaintenanceInv, SessionsHeld, Held, BackedUp, history
    <1>13. RecoverFinishes' BY <1>1 DEF MaintenanceInv, RecoverFinishes, history
    <1>14. ReceiptKept'
        BY <1>1, <1>4, <1>5 DEF MaintenanceInv, ReceiptKept, history
    <1> QED BY <1>7, <1>8, <1>9, <1>11, <1>12, <1>13, <1>14 DEF MaintenanceInv

\* The retired directory is deleted, when the installed one is whole.
LEMMA CleanKeeps ==
    ASSUME MaintenanceInv, NEW p \in Procs, CleanPartly(p) \/ Clean(p) PROVE MaintenanceInv'
    <1> DEFINE a == marker.attempt
    <1>1. /\ marker # NoMarker /\ ~At(p, "off") /\ proc[p].then # "none" /\ PlaceExchanges(p)
          /\ UNCHANGED <<backup, marker, report, attempt, flows, history, bounds>>
        BY ExchangeStep
    <1>2. PICK r \in Program : /\ proc' = [proc EXCEPT ![p] = r]
                               /\ r.then = proc[p].then /\ r.at \in {"clean", "report"}
        BY ExchangeStep
    <1>3. /\ a \in Numbers /\ a \in Nat /\ a <= attempt /\ marker.staging \in Directory
          /\ BackupWhole /\ BeforeRenames /\ BetweenRenames /\ AfterRenames
        BY <1>1, MarkerFields
    <1>4. staging[a] = Absent /\ data = marker.staging
        BY <1>1 DEF PlaceExchanges, CleanPartly, Clean, At, Exchanging
    <1>5. /\ \E x \in Maybe : retired' = [retired EXCEPT ![a] = x]
          /\ data' = data /\ staging' = staging /\ backup' = backup /\ marker' = marker
        <2>1. Fresh \in Directory BY DEF Fresh, Directory
        <2>2. [Fresh EXCEPT !.altered = TRUE] \in Maybe BY <2>1, AlteredReplaced DEF Maybe
        <2> QED BY <2>2 DEF CleanPartly, Clean, Maybe
    <1>6. retired' \in [Numbers -> Maybe]
        BY <1>3, <1>5 DEF MaintenanceInv, MaintenanceTypeOK
    <1>7. proc' \in [Procs -> Program] /\ OneProgram' /\ PlacesSound'
        <2>1. /\ proc' \in [Procs -> Program] /\ OneProgram' /\ proc'[p] = r
              /\ \A q \in Procs : q # p => proc'[q].at = "off"
            BY <1>1, <1>2, ProgramMoved
        <2>2. (PlaceFollows(p) /\ PlacePrepares(p) /\ PlaceExchanges(p))'
            BY <1>1, <1>2, <1>4, <1>5, <2>1 DEF PlaceFollows, PlacePrepares, PlaceExchanges, At,
                   Preparing, Exchanging, Importing
        <2> QED BY <2>1, <2>2, PlacesFrom
    <1>8. MaintenanceTypeOK'
        BY <1>1, <1>5, <1>6, <1>7 DEF MaintenanceInv, MaintenanceTypeOK, history, bounds
    <1>9. NumbersFresh'
        <2>1. ASSUME NEW b \in Numbers, b > attempt PROVE retired'[b] = retired[b]
            BY <1>3, <1>5, <2>1, MaintenanceAssumption
               DEF Numbers, MaintenanceInv, MaintenanceTypeOK
        <2> QED BY <1>1, <1>5, <2>1 DEF MaintenanceInv, NumbersFresh
    <1>10. ExchangeSound'
        <2>1. BackupWhole' BY <1>3, <1>5 DEF BackupWhole
        <2>2. BeforeRenames' BY <1>4, <1>5 DEF BeforeRenames
        <2>3. BetweenRenames' BY <1>3, <1>4, <1>5, DirectoryFields DEF BetweenRenames
        <2>4. AfterRenames' BY <1>1, <1>3, <1>4, <1>5, Inventories DEF AfterRenames, history
        <2> QED BY <1>1, <2>1, <2>2, <2>3, <2>4 DEF ExchangeSound
    <1>11. SessionsHeld'
        BY <1>1, <1>5 DEF MaintenanceInv, SessionsHeld, Held, BackedUp, history
    <1>12. RecoverFinishes' BY <1>1 DEF MaintenanceInv, RecoverFinishes, history
    <1>13. ReceiptKept'
        BY <1>1, <1>5 DEF MaintenanceInv, ReceiptKept, history
    <1> QED BY <1>7, <1>8, <1>9, <1>10, <1>11, <1>12, <1>13 DEF MaintenanceInv

\* The marker is removed: the exchange is over.
LEMMA UnmarkKeeps ==
    ASSUME MaintenanceInv, NEW p \in Procs, Unmark(p) PROVE MaintenanceInv'
    <1>1. proc[p] \in Program /\ PlaceFollows(p) /\ PlaceExchanges(p)
        BY DEF MaintenanceInv, MaintenanceTypeOK, PlacesSound
    <1>2. /\ ~At(p, "off") /\ marker # NoMarker /\ data = marker.staging /\ marker' = NoMarker
          /\ proc[p].then \in {"open", "select", "done"}
          /\ UNCHANGED <<dirs, report, attempt, flows, history, bounds>>
        BY <1>1 DEF Unmark, PlaceFollows, PlaceExchanges, At, Exchanging, Program
    <1>3. data \in Directory /\ ~data.altered /\ data # Absent
        BY <1>2, MarkerFields, Inventories, DirectoryFields
    <1>4. proc' \in [Procs -> Program] /\ OneProgram' /\ PlacesSound'
        <2>1. CASE proc[p].then = "done"
            BY <1>2, <2>1, Stopped DEF Unmark
        <2>2. CASE proc[p].then # "done"
            <3>1. Goto(p, proc[p].then) /\ proc[p].then \in Places
                BY <1>2, <2>2 DEF Unmark, Places
            <3>2. PICK r \in Program : proc' = [proc EXCEPT ![p] = r] /\ r.at = proc[p].then
                BY <3>1, GotoIs
            <3>3. /\ proc' \in [Procs -> Program] /\ OneProgram' /\ proc'[p] = r
                  /\ \A q \in Procs : q # p => proc'[q].at = "off"
                BY <1>2, <3>2, ProgramMoved
            <3>4. (PlaceFollows(p) /\ PlacePrepares(p) /\ PlaceExchanges(p))'
                BY <1>2, <2>2, <3>2, <3>3 DEF PlaceFollows, PlacePrepares, PlaceExchanges, At,
                       Preparing, Exchanging, Importing
            <3> QED BY <3>3, <3>4, PlacesFrom
        <2> QED BY <2>1, <2>2
    <1>5. MaintenanceTypeOK'
        BY <1>2, <1>4 DEF MaintenanceInv, MaintenanceTypeOK, dirs, history, bounds
    <1>6. NumbersFresh' BY <1>2 DEF MaintenanceInv, NumbersFresh, dirs
    <1>7. ExchangeSound' BY <1>2, <1>3 DEF ExchangeSound, dirs
    <1>8. SessionsHeld'
        <2> SUFFICES ASSUME NEW s \in made PROVE s \in Held' \/ BackedUp(s)'
            BY <1>2 DEF SessionsHeld, history
        <2>1. BackedUp(s)' <=> BackedUp(s) BY <1>2 DEF BackedUp, dirs
        <2>2. s \in marker.backup.sessions \/ BackedUp(s)
            BY <1>2 DEF MaintenanceInv, SessionsHeld, Held
        <2>3. Held' = marker.backup.sessions \ Removed
            BY <1>2, <1>3, Inventories DEF Held, dirs
        <2>4. marker.attempt \in Numbers /\ backup[marker.attempt] # Absent
              /\ backup[marker.attempt].sessions = marker.backup.sessions
            BY <1>2, MarkerFields, Inventories
        <2>5. CASE s \in marker.backup.sessions /\ s \in Removed
            BY <2>1, <2>4, <2>5 DEF BackedUp
        <2> QED BY <2>1, <2>2, <2>3, <2>5
    <1>9. RecoverFinishes' BY <1>2 DEF MaintenanceInv, RecoverFinishes, history
    <1>10. ReceiptKept' BY <1>2, <1>3 DEF MaintenanceInv, ReceiptKept, history, dirs
    <1> QED BY <1>4, <1>5, <1>6, <1>7, <1>8, <1>9, <1>10 DEF MaintenanceInv

-----------------------------------------------------------------------------
(***************************************************************************)
(* maintain.                                                               *)
(***************************************************************************)

\* The sessions are selected, for an attempt with a number of its own.
LEMMA SelectKeeps ==
    ASSUME MaintenanceInv, NEW p \in Procs, Select(p) PROVE MaintenanceInv'
    <1>1. /\ ~At(p, "off") /\ marker = NoMarker /\ data # Absent /\ attempt \in 0..Attempts
          /\ attempt < Attempts /\ attempt' = attempt + 1
          /\ UNCHANGED <<dirs, marker, report, flows, history, bounds>>
        BY DEF Select, Maintainable, At, MaintenanceInv, MaintenanceTypeOK, PlacesSound, PlaceFollows
    <1>2. attempt' \in Numbers /\ attempt' \in 0..Attempts /\ attempt' > attempt
        BY <1>1, MaintenanceAssumption DEF Numbers
    <1>3. PICK r \in Program : /\ proc' = [proc EXCEPT ![p] = r]
                               /\ r.at = "backup" /\ r.then = "done" /\ r.attempt = attempt'
        <2>1. [at |-> "backup", then |-> "done", attempt |-> attempt'] \in Program
            BY <1>2 DEF Program, Places
        <2> QED BY <2>1 DEF Select
    <1>4. retired[attempt'] = Absent /\ backup[attempt'] = Absent
        BY <1>2 DEF MaintenanceInv, NumbersFresh
    <1>5. proc' \in [Procs -> Program] /\ OneProgram' /\ PlacesSound'
        <2>1. /\ proc' \in [Procs -> Program] /\ OneProgram' /\ proc'[p] = r
              /\ \A q \in Procs : q # p => proc'[q].at = "off"
            BY <1>1, <1>3, ProgramMoved
        <2>2. (PlaceFollows(p) /\ PlacePrepares(p) /\ PlaceExchanges(p))'
            BY <1>1, <1>2, <1>3, <1>4, <2>1 DEF PlaceFollows, PlacePrepares, PlaceExchanges, At,
                   Preparing, Exchanging, Importing, dirs
        <2> QED BY <2>1, <2>2, PlacesFrom
    <1>6. ExchangeSound' /\ SessionsHeld' /\ ReceiptKept'
        BY <1>1, DirectoriesKept DEF history
    <1>7. MaintenanceTypeOK'
        BY <1>1, <1>2, <1>5 DEF MaintenanceInv, MaintenanceTypeOK, dirs, history, bounds
    <1>8. NumbersFresh'
        <2>1. \A b \in Numbers : b > attempt' => b > attempt
            BY <1>1, MaintenanceAssumption DEF Numbers
        <2> QED BY <1>1, <2>1 DEF MaintenanceInv, NumbersFresh, dirs
    <1>9. RecoverFinishes' BY <1>1 DEF MaintenanceInv, RecoverFinishes, history
    <1> QED BY <1>5, <1>6, <1>7, <1>8, <1>9 DEF MaintenanceInv

\* The copies are made by the program that has the lock, while no marker exists.
LEMMA PrepareStep ==
    ASSUME MaintenanceInv, NEW p \in Procs,
           Backup(p) \/ Stage(p) \/ Normalize(p) \/ Mark(p)
    PROVE  /\ ~At(p, "off") /\ proc[p] \in Program /\ PlacePrepares(p)
           /\ marker = NoMarker /\ data # Absent /\ data \in Directory
           /\ proc[p].attempt = attempt /\ attempt \in Numbers /\ attempt \in Nat
           /\ proc[p].then = "done" /\ ~data.altered
           /\ UNCHANGED <<data, retired, report, attempt, flows, history, bounds>>
    <1>1. proc[p] \in Program /\ PlacePrepares(p) /\ data \in Maybe
        BY DEF MaintenanceInv, MaintenanceTypeOK, PlacesSound
    <1>2. /\ ~At(p, "off") /\ marker = NoMarker /\ data # Absent
          /\ proc[p].attempt = attempt /\ attempt \in Numbers /\ proc[p].then = "done"
        BY <1>1 DEF PlacePrepares, Backup, Stage, Normalize, Mark, At, Preparing
    <1>3. UNCHANGED <<data, retired, report, attempt, flows, history, bounds>>
        BY DEF Backup, Stage, Normalize, Mark, dirs
    <1>4. ~data.altered /\ data \in Directory
        BY <1>1, <1>2 DEF MaintenanceInv, ExchangeSound, Maybe
    <1> QED BY <1>1, <1>2, <1>3, <1>4, MaintenanceAssumption DEF Numbers

\* What a copy leaves true, when the program's place is right.
LEMMA PreparedKeeps ==
    ASSUME MaintenanceInv, NEW p \in Procs, Backup(p) \/ Stage(p) \/ Normalize(p),
           marker' = marker,
           NEW r \in Program, proc' = [proc EXCEPT ![p] = r],
           r.at \in {"stage", "normalize", "mark"}, r.then = "done", r.attempt = attempt,
           NEW s \in Maybe, staging' = [staging EXCEPT ![attempt] = s],
           NEW b \in Directory, backup' = [backup EXCEPT ![attempt] = b],
           \A x \in Sessions : BackedUp(x) => BackedUp(x)',
           b = data,
           r.at = "normalize" => s = data,
           r.at = "mark" => s = [data EXCEPT !.sessions = @ \ Removed]
    PROVE  MaintenanceInv'
    <1>1. /\ ~At(p, "off") /\ marker = NoMarker /\ data # Absent /\ attempt \in Numbers
          /\ attempt \in Nat /\ ~data.altered /\ PlacePrepares(p)
          /\ UNCHANGED <<data, retired, report, attempt, flows, history, bounds>>
        BY PrepareStep
    <1>2. /\ staging' \in [Numbers -> Maybe] /\ backup' \in [Numbers -> Maybe]
          /\ staging'[attempt] = s /\ backup'[attempt] = data
        BY <1>1 DEF MaintenanceInv, MaintenanceTypeOK, Maybe
    <1>3. proc' \in [Procs -> Program] /\ OneProgram' /\ PlacesSound'
        <2>1. /\ proc' \in [Procs -> Program] /\ OneProgram' /\ proc'[p] = r
              /\ \A q \in Procs : q # p => proc'[q].at = "off"
            BY <1>1, ProgramMoved
        <2>2. proc[p].at \in Preparing
            BY DEF Backup, Stage, Normalize, At, Preparing
        <2>3. retired[attempt] = Absent BY <1>1, <2>2 DEF PlacePrepares
        <2>4. PlaceFollows(p)' /\ PlaceExchanges(p)'
            BY <1>1, <2>1 DEF PlaceFollows, PlaceExchanges, At, Exchanging, Importing
        <2>5. PlacePrepares(p)'
            BY <1>1, <1>2, <2>1, <2>3 DEF PlacePrepares, At, Preparing
        <2> QED BY <2>1, <2>4, <2>5, PlacesFrom
    <1>4. MaintenanceTypeOK'
        BY <1>1, <1>2, <1>3 DEF MaintenanceInv, MaintenanceTypeOK, history, bounds
    <1>5. NumbersFresh'
        <2>1. ASSUME NEW c \in Numbers, c > attempt
              PROVE  staging'[c] = staging[c] /\ backup'[c] = backup[c]
            BY <1>1, <2>1, MaintenanceAssumption
               DEF Numbers, MaintenanceInv, MaintenanceTypeOK
        <2> QED BY <1>1, <2>1 DEF MaintenanceInv, NumbersFresh
    <1>6. ExchangeSound' BY <1>1 DEF ExchangeSound
    <1>7. SessionsHeld'
        BY <1>1 DEF MaintenanceInv, MaintenanceTypeOK, SessionsHeld, Held, history
    <1>8. RecoverFinishes' BY <1>1 DEF MaintenanceInv, RecoverFinishes, history
    <1>9. ReceiptKept' BY <1>1 DEF MaintenanceInv, ReceiptKept, history
    <1> QED BY <1>3, <1>4, <1>5, <1>6, <1>7, <1>8, <1>9 DEF MaintenanceInv

\* A backup that stays what it is holds the sessions it held.
LEMMA BackedUpKept ==
    ASSUME NEW x, backup' = backup PROVE BackedUp(x) => BackedUp(x)'
    BY DEF BackedUp

LEMMA BackupKeeps ==
    ASSUME MaintenanceInv, NEW p \in Procs, Backup(p) PROVE MaintenanceInv'
    <1>1. /\ ~At(p, "off") /\ marker = NoMarker /\ data \in Directory /\ attempt \in Numbers
          /\ proc[p].attempt = attempt /\ proc[p].then = "done" /\ PlacePrepares(p)
        BY PrepareStep
    <1>2. PICK r \in Program : /\ proc' = [proc EXCEPT ![p] = r] /\ r.at = "stage"
                               /\ r.then = "done" /\ r.attempt = attempt
        BY <1>1, GotoIs DEF Backup, Places
    <1>3. backup' = [backup EXCEPT ![attempt] = data]
        BY <1>1 DEF Backup
    <1>4. staging' = [staging EXCEPT ![attempt] = staging[attempt]] /\ staging[attempt] \in Maybe
        BY <1>1 DEF Backup, MaintenanceInv, MaintenanceTypeOK
    <1>5. ASSUME NEW x \in Sessions, BackedUp(x) PROVE BackedUp(x)'
        <2>1. PICK c \in Numbers : backup[c] # Absent /\ x \in backup[c].sessions
            BY <1>5 DEF BackedUp
        <2>2. c # attempt
            BY <1>1, <2>1 DEF PlacePrepares, Backup, At, Preparing
        <2>3. backup'[c] = backup[c]
            BY <1>3, <2>1, <2>2 DEF MaintenanceInv, MaintenanceTypeOK
        <2> QED BY <1>5, <2>1, <2>3 DEF BackedUp
    <1>6. marker' = marker BY DEF Backup
    <1> QED BY <1>1, <1>2, <1>3, <1>4, <1>5, <1>6, PreparedKeeps

\* The backup is not written again: a step that leaves it alone.
LEMMA StagingKeeps ==
    ASSUME MaintenanceInv, NEW p \in Procs, Stage(p) \/ Normalize(p) PROVE MaintenanceInv'
    <1>1. /\ ~At(p, "off") /\ marker = NoMarker /\ data \in Directory /\ attempt \in Numbers
          /\ proc[p].attempt = attempt /\ proc[p].then = "done" /\ PlacePrepares(p)
        BY PrepareStep
    <1>2. backup' = backup /\ backup[attempt] = data /\ marker' = marker
        BY <1>1 DEF Stage, Normalize, PlacePrepares, At, Preparing
    <1>3. backup' = [backup EXCEPT ![attempt] = data]
        BY <1>1, <1>2 DEF MaintenanceInv, MaintenanceTypeOK
    <1>4. \A x \in Sessions : BackedUp(x) => BackedUp(x)'
        BY <1>2, BackedUpKept
    <1>5. CASE Stage(p)
        <2>1. PICK r \in Program : /\ proc' = [proc EXCEPT ![p] = r] /\ r.at = "normalize"
                                   /\ r.then = "done" /\ r.attempt = attempt
            BY <1>1, <1>5, GotoIs DEF Stage, Places
        <2>2. staging' = [staging EXCEPT ![attempt] = data]
            BY <1>1, <1>2, <1>5 DEF Stage
        <2> QED BY <1>1, <1>2, <1>3, <1>4, <2>1, <2>2, PreparedKeeps DEF Maybe
    <1>6. CASE Normalize(p)
        <2>1. PICK r \in Program : /\ proc' = [proc EXCEPT ![p] = r] /\ r.at = "mark"
                                   /\ r.then = "done" /\ r.attempt = attempt
            BY <1>1, <1>6, GotoIs DEF Normalize, Places
        <2>2. staging[attempt] = data
            BY <1>1, <1>6 DEF Normalize, PlacePrepares, At, Preparing
        <2>3. staging' = [staging EXCEPT ![attempt] = [data EXCEPT !.sessions = @ \ Removed]]
            BY <1>1, <1>6, <2>2 DEF Normalize, MaintenanceInv, MaintenanceTypeOK
        <2>4. data.sessions \ Removed \in SUBSET Sessions
            BY <1>1, DirectoryFields
        <2>5. [data EXCEPT !.sessions = @ \ Removed] \in Maybe
            BY <1>1, <2>4, SessionsReplaced DEF Maybe
        <2> QED BY <1>1, <1>2, <1>3, <1>4, <1>6, <2>1, <2>3, <2>5, PreparedKeeps
    <1> QED BY <1>5, <1>6

\* The marker is written: from here the exchange is decided.
LEMMA MarkKeeps ==
    ASSUME MaintenanceInv, NEW p \in Procs, Mark(p) PROVE MaintenanceInv'
    <1>1. /\ ~At(p, "off") /\ marker = NoMarker /\ data # Absent /\ data \in Directory
          /\ proc[p].attempt = attempt /\ attempt \in Numbers /\ attempt \in Nat
          /\ proc[p].then = "done" /\ ~data.altered /\ PlacePrepares(p)
        BY PrepareStep
    <1>2. UNCHANGED <<dirs, report, attempt, flows, history, bounds>>
        BY DEF Mark
    <1>3. /\ backup[attempt] = data /\ retired[attempt] = Absent
          /\ staging[attempt] = [data EXCEPT !.sessions = @ \ Removed]
        BY <1>1 DEF Mark, PlacePrepares, At, Preparing
    <1> DEFINE s == [data EXCEPT !.sessions = @ \ Removed]
    <1>4. data.sessions \ Removed \in SUBSET Sessions
        BY <1>1, DirectoryFields
    <1>5. /\ s \in Directory /\ s # Absent /\ s.altered = data.altered
          /\ s.receipt = data.receipt
        BY <1>1, <1>4, SessionsReplaced, DirectoryFields
    <1>6. marker' = [attempt |-> attempt, staging |-> s, backup |-> data]
        BY <1>1, <1>3 DEF Mark
    <1>7. marker' \in Marker /\ marker' # NoMarker
        <2> HIDE DEF s
        <2>1. marker' \in Marker BY <1>1, <1>5, <1>6 DEF Marker
        <2> QED BY <2>1, MaintenanceAssumption
    <1>8. marker'.attempt = attempt /\ marker'.staging = s /\ marker'.backup = data
        BY <1>6
    <1>9. PICK r \in Program : /\ proc' = [proc EXCEPT ![p] = r] /\ r.at = "recover"
                               /\ r.then = "done"
        BY <1>1, GotoIs DEF Mark, Places
    <1>10. proc' \in [Procs -> Program] /\ OneProgram' /\ PlacesSound'
        <2>1. /\ proc' \in [Procs -> Program] /\ OneProgram' /\ proc'[p] = r
              /\ \A q \in Procs : q # p => proc'[q].at = "off"
            BY <1>1, <1>9, ProgramMoved
        <2>2. (PlaceFollows(p) /\ PlacePrepares(p) /\ PlaceExchanges(p))'
            BY <1>7, <1>9, <2>1 DEF PlaceFollows, PlacePrepares, PlaceExchanges, At,
                   Preparing, Exchanging, Importing
        <2> QED BY <2>1, <2>2, PlacesFrom
    <1>11. MaintenanceTypeOK'
        BY <1>2, <1>7, <1>10 DEF MaintenanceInv, MaintenanceTypeOK, dirs, history, bounds
    <1>12. NumbersFresh' BY <1>1, <1>2, <1>8 DEF MaintenanceInv, NumbersFresh, dirs
    <1>13. ExchangeSound'
        <2> HIDE DEF s
        <2>1. SameBut(data, data) /\ SameBut(s, s)
            <3>1. \A d \in Directory : ~d.altered => [d EXCEPT !.altered = FALSE] = d
                BY DEF Directory
            <3> QED BY <1>1, <1>5, <3>1 DEF SameBut
        <2>2. BackupWhole'
            BY <1>1, <1>2, <1>3, <1>8, <2>1 DEF BackupWhole, dirs, s
        <2>3. BeforeRenames' BY <1>1, <1>2, <1>3, <1>8 DEF BeforeRenames, dirs
        <2>4. BetweenRenames' BY <1>1, <1>2 DEF BetweenRenames, dirs
        <2>5. AfterRenames' BY <1>2, <1>3, <1>5, <1>8 DEF AfterRenames, dirs, s
        <2> QED BY <1>7, <2>2, <2>3, <2>4, <2>5 DEF ExchangeSound
    <1>14. SessionsHeld'
        BY <1>1, <1>2, <1>7, <1>8 DEF MaintenanceInv, SessionsHeld, Held, BackedUp, dirs, history
    <1>15. RecoverFinishes' BY <1>2 DEF MaintenanceInv, RecoverFinishes, history
    <1>16. ReceiptKept' BY <1>1, <1>2 DEF MaintenanceInv, ReceiptKept, history, dirs
    <1> QED BY <1>10, <1>11, <1>12, <1>13, <1>14, <1>15, <1>16 DEF MaintenanceInv

-----------------------------------------------------------------------------
(***************************************************************************)
(* The daemon and the legacy import write the directory.                   *)
(***************************************************************************)

\* A program that holds the lock replaces the directory by one that is not
\* altered, that keeps its sessions and a receipt, and whose receipt changes
\* beside a marker only if the history says so.
LEMMA WriteKeeps ==
    ASSUME MaintenanceInv, NEW p \in Procs, ~At(p, "off"),
           NEW r \in Program, proc' = [proc EXCEPT ![p] = r],
           NEW d \in Directory, data' = d,
           UNCHANGED <<staging, retired, backup, marker, report, attempt, refused, bounds>>,
           flows' \in BOOLEAN, disturbed' \in BOOLEAN,
           made' \subseteq Sessions,
           made \subseteq made', made' \ made \subseteq d.sessions,
           data = Absent => marker = NoMarker,
           marker # NoMarker => /\ made' = made
                                /\ d = [data EXCEPT !.receipt = d.receipt]
                                /\ ~disturbed' => d.receipt = data.receipt,
           marker = NoMarker => /\ ~d.altered
                                /\ data # Absent => data.sessions \subseteq d.sessions,
           disturbed => disturbed',
           data # Absent /\ data.receipt # "none" => d.receipt # "none",
           flows' => flows \/ d.receipt # "none",
           PlaceFollows(p)', PlacePrepares(p)', PlaceExchanges(p)'
    PROVE  MaintenanceInv'
    <1>1. proc' \in [Procs -> Program] /\ OneProgram' /\ PlacesSound'
        BY ProgramMoved, PlacesFrom
    <1>2. d # Absent /\ data' # Absent BY DirectoryFields
    <1>3. MaintenanceTypeOK'
        BY <1>1 DEF MaintenanceInv, MaintenanceTypeOK, Maybe, bounds
    <1>4. NumbersFresh' BY DEF MaintenanceInv, NumbersFresh
    <1>5. ASSUME marker # NoMarker
          PROVE  (BackupWhole /\ BeforeRenames /\ BetweenRenames /\ AfterRenames)'
        <2>1. data # Absent /\ data \in Directory
            BY <1>5 DEF MaintenanceInv, MaintenanceTypeOK, Maybe
        <2>2. BackupWhole /\ BeforeRenames /\ BetweenRenames /\ AfterRenames
              /\ marker.staging \in Directory
            BY <1>5, MarkerFields
        <2>3. d.sessions = data.sessions /\ d.altered = data.altered
            BY <1>5, <2>1 DEF Directory
        <2>4. BackupWhole' BY <2>2 DEF BackupWhole
        <2>5. BeforeRenames' BY <1>5, <2>1, <2>2, <2>3 DEF BeforeRenames
        <2>6. BetweenRenames' BY <1>2 DEF BetweenRenames
        <2>7. [d EXCEPT !.receipt = marker.staging.receipt]
                = [data EXCEPT !.receipt = marker.staging.receipt]
            BY <1>5, <2>1 DEF Directory
        <2>8. AfterRenames'
            BY <1>2, <1>5, <2>1, <2>2, <2>3, <2>7 DEF AfterRenames
        <2> QED BY <2>4, <2>5, <2>6, <2>8
    <1>6. ExchangeSound' BY <1>5 DEF ExchangeSound
    <1>7. SessionsHeld'
        <2> SUFFICES ASSUME NEW s \in made' PROVE s \in Held' \/ BackedUp(s)'
            BY DEF SessionsHeld
        <2>1. BackedUp(s)' <=> BackedUp(s) BY DEF BackedUp
        <2>2. CASE s \notin made
            BY <1>2, <2>2 DEF Held
        <2>3. CASE s \in made
            <3>1. s \in Held \/ BackedUp(s) BY <2>3 DEF MaintenanceInv, SessionsHeld
            <3>2. s \in Held => s \in Held' BY <1>2 DEF Held
            <3> QED BY <2>1, <3>1, <3>2
        <2> QED BY <2>2, <2>3
    <1>8. RecoverFinishes' BY DEF MaintenanceInv, RecoverFinishes
    <1>9. ReceiptKept'
        <2> SUFFICES ASSUME ~disturbed', flows' PROVE d.receipt # "none"
            BY <1>2 DEF ReceiptKept
        <2>1. CASE flows
            <3>1. CASE data # Absent
                BY <2>1, <3>1 DEF MaintenanceInv, ReceiptKept
            <3>2. CASE data = Absent
                BY <2>1, <3>2 DEF MaintenanceInv, ReceiptKept
            <3> QED BY <3>1, <3>2
        <2> QED BY <2>1
    <1> QED BY <1>1, <1>3, <1>4, <1>6, <1>7, <1>8, <1>9 DEF MaintenanceInv

\* The daemon opens the directory, and creates it at a first start.
LEMMA OpenKeeps ==
    ASSUME MaintenanceInv, NEW p \in Procs, Open(p) PROVE MaintenanceInv'
    <1>1. proc[p] \in Program /\ marker = NoMarker /\ ~At(p, "off") /\ data \in Maybe
        BY DEF Open, At, MaintenanceInv, MaintenanceTypeOK, PlacesSound, PlaceFollows
    <1>2. PICK found \in Directory : /\ found = IF data = Absent THEN Fresh ELSE data
                                     /\ ~found.altered
                                     /\ data # Absent => found = data
        <2>1. Fresh \in Directory /\ ~Fresh.altered BY DEF Fresh, Directory
        <2> QED BY <1>1, <2>1 DEF MaintenanceInv, ExchangeSound, Maybe
    <1>3. PICK d \in Directory : /\ data' = d /\ d.sessions = found.sessions
                                 /\ d.receipt = found.receipt /\ ~d.altered
                                 /\ \/ Stop(p) \/ Goto(p, "serve")
        <2>0. [found EXCEPT !.running = {}] \in Directory
            BY <1>2, RunningReplaced
        <2> DEFINE e == [found EXCEPT !.running = {}]
        <2>2. [found EXCEPT !.running = {}, !.unfinished = FALSE]
                = [e EXCEPT !.unfinished = FALSE]
            BY <1>2 DEF Directory
        <2> DEFINE f == [found EXCEPT !.running = {}, !.unfinished = FALSE]
        <2>3. f \in Directory /\ f.sessions = found.sessions /\ f.receipt = found.receipt
              /\ f.altered = found.altered
            <3>1. PICK g \in Directory : /\ g = e /\ g.sessions = found.sessions
                                         /\ g.receipt = found.receipt /\ g.altered = found.altered
                <4>1. {} \in SUBSET Sessions OBVIOUS
                <4> QED BY <4>1, RunningReplaced
            <3>2. f = [g EXCEPT !.unfinished = FALSE] BY <2>2, <3>1
            <3> HIDE DEF f, e
            <3> QED BY <3>1, <3>2, UnfinishedReplaced
        <2>4. (data' = found /\ Stop(p)) \/ (data' = f /\ Goto(p, "serve"))
            BY <1>2 DEF Open
        <2> HIDE DEF f, e
        <2> QED BY <1>2, <2>3, <2>4
    <1>4. PICK r \in Program : proc' = [proc EXCEPT ![p] = r] /\ r.at \in {"off", "serve"}
        BY <1>3, GotoIs, OffProgram DEF Stop, Places
    <1>5. UNCHANGED <<staging, retired, backup, marker, report, attempt, flows, history, bounds>>
        BY DEF Open
    <1>6. proc'[p] = r /\ data' # Absent BY <1>1, <1>3, <1>4, ProgramMoved, DirectoryFields
    <1>7. PlaceFollows(p)' /\ PlacePrepares(p)' /\ PlaceExchanges(p)'
        BY <1>1, <1>4, <1>5, <1>6 DEF PlaceFollows, PlacePrepares, PlaceExchanges, At, Preparing,
               Exchanging, Importing
    <1>8. /\ flows' \in BOOLEAN /\ disturbed' \in BOOLEAN /\ made' \subseteq Sessions
          /\ made' = made /\ disturbed' = disturbed /\ refused' = refused
        BY <1>5 DEF MaintenanceInv, MaintenanceTypeOK, history
    <1> QED BY <1>1, <1>2, <1>3, <1>4, <1>5, <1>7, <1>8, WriteKeeps

\* The daemon serves.
LEMMA ServeKeeps ==
    ASSUME MaintenanceInv, NEW p \in Procs,
           \/ ImportSession(p) \/ ImportSettled(p) \/ Shutdown(p)
           \/ \E s \in Sessions : StartRun(p, s) \/ Settle(p, s) \/ SessionImported(p, s)
    PROVE  MaintenanceInv'
    <1>1. /\ At(p, "serve") /\ proc[p] \in Program /\ marker = NoMarker
          /\ data # Absent /\ data \in Directory /\ ~data.altered
        BY DEF ImportSession, ImportSettled, Shutdown, StartRun, Settle, SessionImported,
               At, MaintenanceInv, MaintenanceTypeOK, PlacesSound, PlaceFollows, ExchangeSound, Maybe
    <1>2. PICK d \in Directory : /\ data' = d /\ d.receipt = data.receipt /\ ~d.altered
                                 /\ data.sessions \subseteq d.sessions
                                 /\ made' \ made \subseteq d.sessions
                                 /\ made \subseteq made' /\ made' \subseteq Sessions
        <2>0. made \subseteq Sessions BY DEF MaintenanceInv, MaintenanceTypeOK
        <2>1. CASE ImportSession(p) \/ ImportSettled(p)
            BY ZenonT(60), <1>1, <2>0, <2>1, UnfinishedReplaced DEF ImportSession, ImportSettled, history
        <2>2. CASE Shutdown(p)
            <3>1. PICK d \in Directory : /\ d = [data EXCEPT !.running = {}]
                                         /\ d.sessions = data.sessions
                                         /\ d.receipt = data.receipt /\ d.altered = data.altered
                BY <1>1, RunningReplaced
            <3> QED BY <1>1, <2>0, <2>2, <3>1 DEF Shutdown, history
        <2>3. CASE \E s \in Sessions : Settle(p, s)
            <3>1. PICK s \in Sessions : Settle(p, s) BY <2>3
            <3>2. data.running \ {s} \in SUBSET Sessions BY <1>1, DirectoryFields
            <3>3. PICK d \in Directory : /\ d = [data EXCEPT !.running = data.running \ {s}]
                                         /\ d.sessions = data.sessions
                                         /\ d.receipt = data.receipt /\ d.altered = data.altered
                BY <1>1, <3>2, RunningReplaced
            <3>4. data' = d /\ made' = made BY <3>1, <3>3 DEF Settle, history
            <3> QED BY <1>1, <2>0, <3>3, <3>4
        <2>4. CASE \E s \in Sessions : SessionImported(p, s)
            <3>1. PICK s \in Sessions : SessionImported(p, s) BY <2>4
            <3>2. data.sessions \cup {s} \in SUBSET Sessions BY <1>1, DirectoryFields
            <3>3. PICK d \in Directory : /\ d = [data EXCEPT !.sessions = data.sessions \cup {s}]
                                         /\ d.sessions = data.sessions \cup {s}
                                         /\ d.receipt = data.receipt /\ d.altered = data.altered
                BY ZenonT(60), <1>1, <3>2, SessionsReplaced
            <3>4. data' = d /\ made' = made \cup {s} BY <3>1, <3>3 DEF SessionImported
            <3> QED BY <1>1, <2>0, <3>3, <3>4
        <2>5. CASE \E s \in Sessions : StartRun(p, s)
            <3>1. PICK s \in Sessions : StartRun(p, s) BY <2>5
            <3>2. /\ data.sessions \cup {s} \in SUBSET Sessions
                  /\ data.running \cup {s} \in SUBSET Sessions
                BY <1>1, DirectoryFields
            <3>3. PICK e \in Directory :
                    /\ e = [data EXCEPT !.sessions = data.sessions \cup {s}]
                    /\ e.sessions = data.sessions \cup {s} /\ e.running = data.running
                    /\ e.receipt = data.receipt /\ e.altered = data.altered
                BY ZenonT(60), <1>1, <3>2, SessionsReplaced
            <3>4. data' = [e EXCEPT !.running = data.running \cup {s}]
                BY <1>1, <3>1, <3>3 DEF StartRun, Directory
            <3>5. PICK d \in Directory : /\ data' = d /\ d.sessions = e.sessions
                                         /\ d.receipt = e.receipt /\ d.altered = e.altered
                BY <3>2, <3>4, RunningReplaced
            <3>6. made' = made \cup {s} BY <3>1 DEF StartRun
            <3> QED BY <1>1, <2>0, <3>3, <3>5, <3>6
        <2> QED BY <2>1, <2>2, <2>3, <2>4, <2>5
    <1>3. UNCHANGED <<staging, retired, backup, marker, report, attempt, flows, refused,
                      disturbed, bounds>>
        BY DEF ImportSession, ImportSettled, Shutdown, StartRun, Settle, SessionImported, history
    <1>4. PICK r \in Program : proc' = [proc EXCEPT ![p] = r] /\ r.at \in {"off", "serve"}
        <2>1. CASE Shutdown(p) BY <2>1, OffProgram DEF Shutdown, Stop
        <2>2. CASE ~Shutdown(p)
            <3>1. proc' = proc
                BY <2>2 DEF ImportSession, ImportSettled, StartRun, Settle, SessionImported
            <3>2. proc' = [proc EXCEPT ![p] = proc[p]]
                BY <3>1 DEF MaintenanceInv, MaintenanceTypeOK
            <3> QED BY <1>1, <3>2 DEF At
        <2> QED BY <2>1, <2>2
    <1>5. ~At(p, "off") BY <1>1 DEF At
    <1>6. proc'[p] = r /\ data' # Absent BY <1>2, <1>4, <1>5, ProgramMoved, DirectoryFields
    <1>7. PlaceFollows(p)' /\ PlacePrepares(p)' /\ PlaceExchanges(p)'
        BY <1>1, <1>3, <1>4, <1>6 DEF PlaceFollows, PlacePrepares, PlaceExchanges, At, Preparing,
               Exchanging, Importing
    <1>8. /\ flows' \in BOOLEAN /\ disturbed' \in BOOLEAN /\ disturbed' = disturbed
          /\ flows' = flows
          /\ UNCHANGED <<staging, retired, backup, marker, report, attempt, refused, bounds>>
        BY <1>3 DEF MaintenanceInv, MaintenanceTypeOK
    <1>9. data # Absent /\ data.receipt # "none" => d.receipt # "none" BY <1>2
    <1> QED BY <1>1, <1>2, <1>4, <1>5, <1>7, <1>8, <1>9, WriteKeeps

\* The legacy import writes its receipt, and publishes only after it.
LEMMA ImportKeeps ==
    ASSUME MaintenanceInv, NEW p \in Procs,
           ImportReceipt(p) \/ ImportPublish(p) \/ ImportComplete(p)
    PROVE  MaintenanceInv'
    <1>1. /\ ~At(p, "off") /\ proc[p] \in Program
          /\ data # Absent /\ data \in Directory /\ PlaceFollows(p)
        BY DEF ImportReceipt, ImportPublish, ImportComplete, Importing, At, MaintenanceInv,
               MaintenanceTypeOK, PlacesSound, PlaceFollows, Maybe
    <1>2. disturbed \in BOOLEAN /\ flows \in BOOLEAN /\ made \subseteq Sessions
        BY DEF MaintenanceInv, MaintenanceTypeOK
    <1>3. PICK c \in {"none", "started", "complete"} :
            /\ data' = [data EXCEPT !.receipt = c] /\ c # "none"
            /\ disturbed' \in BOOLEAN /\ (disturbed => disturbed')
            /\ marker # NoMarker /\ ~disturbed' => c = data.receipt
        <2>1. [data EXCEPT !.receipt = data.receipt] = data BY <1>1 DEF Directory
        <2>2. data.receipt \in {"none", "started", "complete"} BY <1>1, DirectoryFields
        <2>3. CASE ImportReceipt(p)
            <3>1. CASE data.receipt = "started" /\ UNCHANGED <<data, disturbed>>
                BY <1>2, <2>1, <3>1
            <3>2. CASE ~(data.receipt = "started" /\ UNCHANGED <<data, disturbed>>)
                BY <2>3, <3>2, <1>2 DEF ImportReceipt
            <3> QED BY <3>1, <3>2
        <2>4. CASE ImportPublish(p)
            <3>1. data.receipt # "none" BY <1>1, <2>4 DEF ImportPublish, PlaceFollows, At
            <3>2. data' = data /\ disturbed' = disturbed
                BY <2>4 DEF ImportPublish, dirs, history
            <3> QED BY <1>2, <2>1, <2>2, <3>1, <3>2
        <2>5. CASE ImportComplete(p)
            BY <1>2, <2>5 DEF ImportComplete
        <2> QED BY <2>3, <2>4, <2>5
    <1>4. PICK d \in Directory : /\ data' = d /\ d.receipt = c /\ d.sessions = data.sessions
                                 /\ d.altered = data.altered
                                 /\ d = [data EXCEPT !.receipt = d.receipt]
        BY ZenonT(60), <1>1, <1>3, ReceiptReplaced
    <1>5. /\ UNCHANGED <<staging, retired, backup, marker, report, attempt, refused, bounds>>
          /\ made' = made /\ flows' \in BOOLEAN
        BY <1>1, <1>2, DirectoryFields
           DEF ImportReceipt, ImportPublish, ImportComplete, dirs, history
    <1>6. PICK r \in Program : /\ proc' = [proc EXCEPT ![p] = r]
                               /\ r.at \in {"off", "publish", "complete"}
        <2>1. CASE ImportReceipt(p)
            BY <2>1, GotoIs DEF ImportReceipt, Places
        <2>2. CASE ImportPublish(p)
            BY <2>2, GotoIs DEF ImportPublish, Places
        <2>3. CASE ImportComplete(p)
            BY <2>3, OffProgram DEF ImportComplete, Stop
        <2> QED BY <2>1, <2>2, <2>3
    <1>7. proc'[p] = r /\ data' # Absent BY <1>1, <1>4, <1>6, ProgramMoved, DirectoryFields
    <1>8. PlaceFollows(p)' /\ PlacePrepares(p)' /\ PlaceExchanges(p)'
        BY <1>3, <1>4, <1>6, <1>7 DEF PlaceFollows, PlacePrepares, PlaceExchanges, At, Preparing,
               Exchanging, Importing
    <1>9. marker = NoMarker => ~data.altered
        BY <1>1 DEF MaintenanceInv, ExchangeSound
    <1> QED BY <1>1, <1>2, <1>3, <1>4, <1>5, <1>6, <1>8, <1>9, WriteKeeps

-----------------------------------------------------------------------------
(***************************************************************************)
(* Somebody alters a directory beside the data.                            *)
(***************************************************************************)
LEMMA AlterKeeps ==
    ASSUME MaintenanceInv, NEW a \in Numbers, AlterStaging(a) \/ AlterBackup(a)
    PROVE  MaintenanceInv'
    <1>1. /\ marker # NoMarker /\ alterations' \in Nat
          /\ UNCHANGED <<data, retired, marker, report, attempt, proc, flows, history, crashes>>
        BY DEF AlterStaging, AlterBackup, MaintenanceInv, MaintenanceTypeOK
    <1>2. /\ staging \in [Numbers -> Maybe] /\ backup \in [Numbers -> Maybe]
          /\ Absent \notin Directory
        BY MaintenanceAssumption DEF MaintenanceInv, MaintenanceTypeOK
    <1>3. ASSUME NEW d \in Directory
          PROVE  \E e \in Directory :
                   /\ e = [d EXCEPT !.altered = ~@] /\ e # Absent
                   /\ e.sessions = d.sessions /\ e.receipt = d.receipt
                   /\ \A f : SameBut(d, f) <=> SameBut(e, f)
        <2>0. PICK e : e = [d EXCEPT !.altered = ~@] OBVIOUS
        <2>1. (~d.altered) \in BOOLEAN OBVIOUS
        <2>2. e \in Directory /\ e.sessions = d.sessions /\ e.receipt = d.receipt
            BY <2>0, <2>1, AlteredReplaced
        <2>3. [e EXCEPT !.altered = FALSE] = [d EXCEPT !.altered = FALSE]
            BY <2>0 DEF Directory
        <2>4. d # Absent /\ e # Absent BY <2>2, DirectoryFields
        <2> QED BY <2>0, <2>2, <2>3, <2>4 DEF SameBut
    <1>4. /\ staging' \in [Numbers -> Maybe] /\ backup' \in [Numbers -> Maybe]
          /\ \A b \in Numbers :
               /\ staging'[b] = Absent <=> staging[b] = Absent
               /\ backup'[b] = Absent <=> backup[b] = Absent
               /\ backup[b] # Absent => backup'[b].sessions = backup[b].sessions
               /\ staging[b] # Absent => staging'[b].receipt = staging[b].receipt
               /\ \A f : SameBut(staging[b], f) => SameBut(staging'[b], f)
               /\ \A f : SameBut(backup[b], f) => SameBut(backup'[b], f)
        <2>1. CASE AlterStaging(a)
            <3>1. staging[a] \in Directory /\ staging[a] # Absent
                BY <1>2, <2>1 DEF AlterStaging, Maybe
            <3>2. /\ staging' = [staging EXCEPT ![a] = [staging[a] EXCEPT !.altered = ~@]]
                  /\ backup' = backup
                BY <2>1, <1>2 DEF AlterStaging
            <3>3. PICK e \in Directory : /\ e = [staging[a] EXCEPT !.altered = ~@] /\ e # Absent
                                         /\ e.receipt = staging[a].receipt
                                         /\ \A f : SameBut(staging[a], f) <=> SameBut(e, f)
                BY <1>3, <3>1
            <3>4. staging' = [staging EXCEPT ![a] = e] BY <3>2, <3>3
            <3>5. staging' \in [Numbers -> Maybe] BY <1>2, <3>4 DEF Maybe
            <3>6. \A b \in Numbers : staging'[b] = IF b = a THEN e ELSE staging[b]
                BY <1>2, <3>4
            <3> QED BY <1>2, <3>1, <3>2, <3>3, <3>5, <3>6
        <2>2. CASE AlterBackup(a)
            <3>1. backup[a] \in Directory /\ backup[a] # Absent
                BY <1>2, <2>2 DEF AlterBackup, Maybe
            <3>2. /\ backup' = [backup EXCEPT ![a] = [backup[a] EXCEPT !.altered = ~@]]
                  /\ staging' = staging
                BY <2>2, <1>2 DEF AlterBackup
            <3>3. PICK e \in Directory : /\ e = [backup[a] EXCEPT !.altered = ~@] /\ e # Absent
                                         /\ e.sessions = backup[a].sessions
                                         /\ \A f : SameBut(backup[a], f) <=> SameBut(e, f)
                BY <1>3, <3>1
            <3>4. backup' = [backup EXCEPT ![a] = e] BY <3>2, <3>3
            <3>5. backup' \in [Numbers -> Maybe] BY <1>2, <3>4 DEF Maybe
            <3>6. \A b \in Numbers : backup'[b] = IF b = a THEN e ELSE backup[b]
                BY <1>2, <3>4
            <3> QED BY <1>2, <3>1, <3>2, <3>3, <3>5, <3>6
        <2> QED BY <2>1, <2>2
    <1>5. marker.attempt \in Numbers BY <1>1, MarkerFields
    <1>6. MaintenanceTypeOK' BY <1>1, <1>4 DEF MaintenanceInv, MaintenanceTypeOK, history
    <1>7. OneProgram' /\ RecoverFinishes'
        BY <1>1 DEF MaintenanceInv, OneProgram, RecoverFinishes, At, history
    <1>8. NumbersFresh' BY <1>1, <1>4 DEF MaintenanceInv, NumbersFresh
    <1>9. PlacesSound'
        <2> SUFFICES ASSUME NEW q \in Procs
                     PROVE  (PlaceFollows(q) /\ PlacePrepares(q) /\ PlaceExchanges(q))'
            BY DEF PlacesSound
        <2>1. PlaceFollows(q) /\ PlacePrepares(q) /\ PlaceExchanges(q)
            BY DEF MaintenanceInv, PlacesSound
        <2>2. PlaceFollows(q)' BY <1>1, <2>1 DEF PlaceFollows, At
        <2>3. PlacePrepares(q)' BY <1>1, <2>1 DEF PlacePrepares
        <2>4. PlaceExchanges(q)' BY <1>1, <1>4, <1>5, <2>1 DEF PlaceExchanges, At
        <2> QED BY <2>2, <2>3, <2>4
    <1>10. ExchangeSound'
        <2>1. BackupWhole /\ BeforeRenames /\ BetweenRenames /\ AfterRenames
            BY <1>1, MarkerFields
        <2>2. BackupWhole' BY <1>1, <1>4, <1>5, <2>1 DEF BackupWhole
        <2>3. BeforeRenames' BY <1>1, <1>4, <1>5, <2>1 DEF BeforeRenames, history
        <2>4. BetweenRenames' BY <1>1, <1>4, <1>5, <2>1 DEF BetweenRenames
        <2>5. AfterRenames' BY <1>1, <1>4, <1>5, <2>1 DEF AfterRenames, history
        <2> QED BY <1>1, <2>2, <2>3, <2>4, <2>5 DEF ExchangeSound
    <1>11. SessionsHeld'
        <2>1. \A s : BackedUp(s) => BackedUp(s)' BY <1>4 DEF BackedUp
        <2>2. Held' = Held BY <1>1 DEF Held
        <2> QED BY <1>1, <2>1, <2>2 DEF MaintenanceInv, SessionsHeld, history
    <1>12. ReceiptKept'
        <2>1. data = Absent => staging[marker.attempt] # Absent
            BY <1>1, MarkerFields DEF BetweenRenames
        <2> QED BY <1>1, <1>4, <1>5, <2>1 DEF MaintenanceInv, ReceiptKept, history
    <1> QED BY <1>6, <1>7, <1>8, <1>9, <1>10, <1>11, <1>12 DEF MaintenanceInv

-----------------------------------------------------------------------------
(***************************************************************************)
(* The theorems.                                                           *)
(***************************************************************************)
LEMMA MaintenanceStart == Init => MaintenanceInv
    <1> SUFFICES ASSUME Init PROVE MaintenanceInv OBVIOUS
    <1>1. Fresh \in Directory /\ Fresh.altered = FALSE BY DEF Fresh, Directory
    <1>2. /\ data \in Maybe /\ made \subseteq Sessions
          /\ data = Absent => made = {}
          /\ data # Absent => ~data.altered /\ data.sessions = made
        <2>1. CASE data = Absent /\ made = {} BY <2>1 DEF Maybe
        <2>2. CASE ~(data = Absent /\ made = {})
            <3>1. PICK b \in BOOLEAN : data = [Fresh EXCEPT !.sessions = Existing, !.rows = b]
                                       /\ made = Existing
                BY <2>2 DEF Init
            <3>2. data \in Directory /\ data.sessions = Existing /\ data.altered = FALSE
                BY <1>1, <3>1, MaintenanceAssumption DEF Directory
            <3> QED BY <3>1, <3>2, DirectoryFields DEF Maybe
        <2> QED BY <2>1, <2>2
    <1>3. \A p \in Procs : proc[p] = Off BY DEF Init
    <1>4. MaintenanceTypeOK
        <2>1. /\ staging \in [Numbers -> Maybe] /\ retired \in [Numbers -> Maybe]
              /\ backup \in [Numbers -> Maybe]
            BY DEF Init, Maybe
        <2>2. proc \in [Procs -> Program] BY OffProgram DEF Init
        <2>3. attempt \in 0..Attempts /\ crashes \in Nat /\ alterations \in Nat
            <3>1. attempt = 0 /\ crashes = 0 /\ alterations = 0 BY DEF Init
            <3>2. Attempts \in Nat BY MaintenanceAssumption
            <3> QED BY <3>1, <3>2
        <2> QED BY <1>2, <2>1, <2>2, <2>3 DEF Init, MaintenanceTypeOK
    <1>5. OneProgram /\ PlacesSound
        BY <1>3, OffProgram DEF OneProgram, PlacesSound, PlaceFollows, PlacePrepares,
               PlaceExchanges, At, Preparing, Exchanging, Importing
    <1>6. NumbersFresh BY DEF Init, NumbersFresh
    <1>7. ExchangeSound BY <1>2 DEF Init, ExchangeSound
    <1>8. SessionsHeld BY <1>2 DEF Init, SessionsHeld, Held
    <1>9. RecoverFinishes /\ ReceiptKept BY DEF Init, RecoverFinishes, ReceiptKept
    <1> QED BY <1>4, <1>5, <1>6, <1>7, <1>8, <1>9 DEF MaintenanceInv

LEMMA MaintenanceStep == MaintenanceInv /\ [Next]_vars => MaintenanceInv'
    <1> SUFFICES ASSUME MaintenanceInv, [Next]_vars PROVE MaintenanceInv' OBVIOUS
    <1>1. ASSUME NEW p \in Procs, Start(p) \/ Maintain(p) \/ Import(p) PROVE MaintenanceInv'
        BY <1>1, LockTaken
    <1>2. ASSUME NEW p \in Procs,
                 SelectRefuses(p) \/ NormalizeFails(p) \/ ImportEnds(p) \/ Crash(p)
          PROVE  MaintenanceInv'
        BY <1>2, ProgramStops
    <1>3. ASSUME NEW p \in Procs, Recover(p) PROVE MaintenanceInv'
        BY <1>3, RecoverMoves, RecoverStops, RetireKeeps, InstallKeeps, CleanKeeps, UnmarkKeeps
           DEF Recover
    <1>4. ASSUME NEW p \in Procs,
                 Select(p) \/ Backup(p) \/ Stage(p) \/ Normalize(p) \/ Mark(p)
          PROVE  MaintenanceInv'
        BY <1>4, SelectKeeps, BackupKeeps, StagingKeeps, MarkKeeps
    <1>5. ASSUME NEW p \in Procs,
                 \/ Open(p) \/ ImportSession(p) \/ ImportSettled(p) \/ Shutdown(p)
                 \/ \E s \in Sessions : StartRun(p, s) \/ Settle(p, s) \/ SessionImported(p, s)
          PROVE  MaintenanceInv'
        BY <1>5, OpenKeeps, ServeKeeps
    <1>6. ASSUME NEW p \in Procs, ImportReceipt(p) \/ ImportPublish(p) \/ ImportComplete(p)
          PROVE  MaintenanceInv'
        BY <1>6, ImportKeeps
    <1>7. ASSUME NEW a \in Numbers, AlterStaging(a) \/ AlterBackup(a) PROVE MaintenanceInv'
        BY <1>7, AlterKeeps
    <1>8. CASE UNCHANGED vars
        BY ZenonT(60), <1>8 DEF vars, dirs, MaintenanceInv, MaintenanceTypeOK, OneProgram, NumbersFresh,
               PlacesSound, PlaceFollows, PlacePrepares, PlaceExchanges, ExchangeSound,
               BackupWhole, BeforeRenames, BetweenRenames, AfterRenames, SessionsHeld, Held,
               BackedUp, RecoverFinishes, ReceiptKept, At
    <1> QED BY <1>1, <1>2, <1>3, <1>4, <1>5, <1>6, <1>7, <1>8 DEF Next

\* For all sessions, programs, attempts, crashes and alterations: one program has
\* the lock, the directories agree with the marker at every point of the
\* exchange, and a session that existed is in the directory that counts or in
\* a backup (maintain, recover, open and the legacy import together).
THEOREM MaintenanceInvariant == Spec => []MaintenanceInv
    BY MaintenanceStart, MaintenanceStep, PTL DEF Spec

LEMMA InvSurvives == MaintenanceInv => SessionsSurvive
    <1> SUFFICES ASSUME MaintenanceInv, NEW s \in made
                 PROVE  \/ data # Absent /\ ~data.altered /\ s \in data.sessions
                        \/ /\ marker # NoMarker /\ retired[marker.attempt] # Absent
                           /\ s \in retired[marker.attempt].sessions
                        \/ /\ s # Keep /\ Proven(s)
                           /\ \E a \in Numbers : backup[a] # Absent /\ s \in backup[a].sessions
        BY DEF SessionsSurvive
    <1>1. s \in Held \/ BackedUp(s) BY DEF MaintenanceInv, SessionsHeld
    <1>2. CASE BackedUp(s) BY <1>2 DEF BackedUp, Removed
    <1>3. CASE s \in Held /\ marker = NoMarker
        BY <1>3 DEF Held, MaintenanceInv, ExchangeSound
    <1>4. CASE s \in Held /\ marker # NoMarker
        <2>1. s \in marker.backup.sessions BY <1>4 DEF Held
        <2>2. BeforeRenames /\ BetweenRenames /\ AfterRenames /\ marker.attempt \in Numbers
              /\ marker.staging \in Directory
            BY <1>4, MarkerFields
        <2>3. CASE s \in Removed
            BY <1>4, <2>1, <2>2, <2>3, Inventories DEF Removed
        <2>4. CASE s \notin Removed
            <3>1. CASE data = Absent BY <1>4, <2>1, <2>2, <3>1 DEF BetweenRenames
            <3>2. CASE data # Absent /\ staging[marker.attempt] # Absent
                BY <2>1, <2>2, <3>2 DEF BeforeRenames
            <3>3. CASE data # Absent /\ staging[marker.attempt] = Absent
                <4>1. data \in Directory
                    BY <3>3 DEF MaintenanceInv, MaintenanceTypeOK, Maybe
                <4>2. marker.staging.receipt \in {"none", "started", "complete"}
                    BY <2>2, DirectoryFields
                <4>3. PICK d \in Directory :
                        /\ d = [data EXCEPT !.receipt = marker.staging.receipt]
                        /\ d.sessions = data.sessions
                    BY <4>1, <4>2, ReceiptReplaced
                <4>4. d.sessions = marker.staging.sessions
                    BY <2>2, <3>3, <4>3, SameButFields DEF AfterRenames
                <4>5. s \in data.sessions BY <1>4, <2>1, <2>4, <4>3, <4>4, Inventories
                <4>6. data.altered => retired[marker.attempt] # Absent
                                      /\ retired[marker.attempt].sessions = marker.backup.sessions
                    BY <2>2, <3>3 DEF AfterRenames
                <4> QED BY <1>4, <2>1, <3>3, <4>5, <4>6
            <3> QED BY <3>1, <3>2, <3>3
        <2> QED BY <2>3, <2>4
    <1> QED BY <1>1, <1>2, <1>3, <1>4

\* A session that existed survives every maintenance, crash and alteration: it
\* is in the directory, in the retired one of a pending exchange, or was
\* provably old and is in a backup (migration.rs, maintain and recover).
THEOREM SessionsAlwaysSurvive == Spec => []SessionsSurvive
    BY MaintenanceInvariant, InvSurvives, PTL

LEMMA InvServes == MaintenanceInv => NothingPendingWhileServing
    BY DEF MaintenanceInv, NothingPendingWhileServing, OneProgram, PlacesSound, PlaceFollows, At

\* A daemon never serves while an exchange is pending, recover refuses only
\* what was altered or what the legacy import wrote beside a marker, and
\* published packages keep a receipt.
THEOREM RecoveryAlwaysCompletes == Spec => []RecoveryCompletes
    <1>1. MaintenanceInv => RecoveryCompletes
        BY InvServes DEF MaintenanceInv, RecoveryCompletes
    <1> QED BY <1>1, MaintenanceInvariant, PTL

\* An exchange ends with the very directory that was verified: the marker is
\* removed only by recover, after the installed directory was compared.
THEOREM AlwaysInstalledIsVerified == Spec => InstalledIsVerified
    <1>1. MaintenanceInv /\ [Next]_vars
            => [marker # NoMarker /\ marker' = NoMarker => data' = marker.staging]_vars
        <2> SUFFICES ASSUME MaintenanceInv, Next, marker # NoMarker, marker' = NoMarker
                     PROVE  data' = marker.staging
            BY DEF vars
        <2>1. PICK p \in Procs : Unmark(p)
            <3>1. marker' # marker OBVIOUS
            <3>2. ASSUME NEW p \in Procs, Recover(p) PROVE Unmark(p)
                BY <3>1, <3>2 DEF Recover, RecoverNothing, RecoverInspect, RecoverRefuses, Refuse,
                       Retire, Install, Verify, VerifyRefuses, CleanPartly, Clean, Report
            <3>3. ASSUME NEW p \in Procs PROVE ~(\/ Start(p) \/ Maintain(p) \/ Import(p) \/ Crash(p)
                                                 \/ Select(p) \/ SelectRefuses(p) \/ NormalizeFails(p))
                BY <3>1 DEF Start, Maintain, Import, Crash, Select, SelectRefuses, NormalizeFails
            <3>4. ASSUME NEW p \in Procs
                  PROVE  ~(Backup(p) \/ Stage(p) \/ Normalize(p) \/ Mark(p))
                BY PrepareStep
            <3>5. ASSUME NEW p \in Procs
                  PROVE  ~(\/ Open(p) \/ ImportSession(p) \/ ImportSettled(p) \/ Shutdown(p)
                           \/ \E s \in Sessions :
                                StartRun(p, s) \/ Settle(p, s) \/ SessionImported(p, s))
                BY <3>1 DEF Open, ImportSession, ImportSettled, Shutdown, StartRun, Settle,
                       SessionImported
            <3>6. ASSUME NEW p \in Procs
                  PROVE  ~(\/ ImportEnds(p) \/ ImportReceipt(p) \/ ImportPublish(p)
                           \/ ImportComplete(p))
                BY <3>1 DEF ImportEnds, ImportReceipt, ImportPublish, ImportComplete
            <3>7. ASSUME NEW a \in Numbers PROVE ~(AlterStaging(a) \/ AlterBackup(a))
                BY <3>1 DEF AlterStaging, AlterBackup
            <3> QED BY <3>2, <3>3, <3>4, <3>5, <3>6, <3>7 DEF Next
        <2> QED BY <2>1 DEF Unmark, dirs, MaintenanceInv, PlacesSound, PlaceExchanges, At, Exchanging
    <1> QED BY <1>1, MaintenanceInvariant, PTL DEF Spec, InstalledIsVerified

-----------------------------------------------------------------------------

LEMMA InitUpdates == UpdatesInit => UpdatesInv
<1> SUFFICES ASSUME UpdatesInit PROVE UpdatesInv
  OBVIOUS
<1>1. UpdatesTypeOK
  BY DEF UpdatesInit, UpdatesTypeOK, SupState, SupPlaces, Known, NoRequest, NoDaemon, NoUpdate
<1>2. QuietFromMaintenance /\ UpdateNeedsDaemon
  BY DEF UpdatesInit, QuietFromMaintenance, UpdateNeedsDaemon, Maintenance, NoUpdate, Handled, Leases
<1>3. DaemonIsActive /\ SupervisorConfirmed /\ CurrentConfirmed
  BY DEF UpdatesInit, DaemonIsActive, SupervisorConfirmed, CurrentConfirmed, Launching
<1> QED BY <1>1, <1>2, <1>3 DEF UpdatesInv

\* A command goes on only while nothing is to be kept quiet.
LEMMA CommandStep ==
  ASSUME UpdatesInv, NEW c \in Clients,
         CommandEnters(c) \/ CommandAdmitted(c) \/ CommandEnds(c)
  PROVE  UpdatesInv'
<1> USE DEF UpdatesInv
<1>1. UNCHANGED <<request, current, manager, altered, daemon, gate, requested, update, sup,
                  confirmed>>
  BY DEF CommandEnters, CommandAdmitted, CommandEnds, OnlyCommands, files
<1>2. cmd' \in [Clients -> {"idle", "gated", "admitted", "running"}]
  BY DEF CommandEnters, CommandAdmitted, CommandEnds, UpdatesTypeOK
<1>3. UpdatesTypeOK'
  BY <1>1, <1>2 DEF UpdatesTypeOK
<1>4. ~(Maintenance \/ requested)
  <2>1. CASE CommandEnters(c)
    BY <2>1 DEF CommandEnters, Writer, Serving, Maintenance, UpdateNeedsDaemon,
                UpdatesTypeOK, QuietFromMaintenance
  <2>2. CASE CommandAdmitted(c) \/ CommandEnds(c)
    BY <2>2 DEF CommandAdmitted, CommandEnds, QuietFromMaintenance, Handled, Leases
  <2> QED BY <2>1, <2>2
<1>5. QuietFromMaintenance'
  BY <1>1, <1>4 DEF QuietFromMaintenance, Maintenance
<1> QED
  BY <1>1, <1>3, <1>5 DEF UpdateNeedsDaemon, DaemonIsActive, SupervisorConfirmed,
     CurrentConfirmed, Serving, Launching

\* A daemon that is gone leaves no command, no handler and no request behind.
LEMMA GoneIsQuiet ==
  ASSUME UpdatesTypeOK, Gone
  PROVE  /\ gate' \in BOOLEAN /\ requested' \in BOOLEAN
         /\ update' \in [pc : {"none", "gate", "check", "write", "sync", "closing"},
                         target : Known]
         /\ cmd' \in [Clients -> {"idle", "gated", "admitted", "running"}]
         /\ QuietFromMaintenance' /\ UpdateNeedsDaemon'
<1>1. update' = [pc |-> "none", target |-> None] /\ gate' = FALSE /\ requested' = FALSE
  BY DEF Gone, NoUpdate
<1>2. cmd' = [c \in Clients |-> "idle"]
  BY DEF Gone
<1>3. update'.pc = "none"
  BY <1>1
<1>4. QuietFromMaintenance' /\ UpdateNeedsDaemon'
  BY <1>1, <1>3 DEF QuietFromMaintenance, Maintenance, UpdateNeedsDaemon
<1>5. update' \in [pc : {"none", "gate", "check", "write", "sync", "closing"}, target : Known]
  BY <1>1 DEF Known
<1>6. cmd' \in [Clients -> {"idle", "gated", "admitted", "running"}]
  BY <1>2
<1> QED BY <1>1, <1>4, <1>5, <1>6

\* The processes that are stopped leave the files and the supervisor as they are.
LEMMA DaemonStopped ==
  ASSUME UpdatesInv, Gone, Alive,
         daemon' = [daemon EXCEPT !.pc = "exit"],
         UNCHANGED <<request, current, sup, confirmed>>
  PROVE  UpdatesInv'
<1> USE DEF UpdatesInv
<1>1. daemon' \in [release : Known,
                   pc : {"none", "starting", "serving", "draining", "exit", "exit75"}]
  BY DEF UpdatesTypeOK
<1>2. daemon'.release = daemon.release /\ daemon'.pc = "exit" /\ daemon.pc # "none"
  BY DEF UpdatesTypeOK, Alive
<1>3. UpdatesTypeOK'
  BY <1>1, GoneIsQuiet DEF UpdatesTypeOK
<1>4. DaemonIsActive' /\ SupervisorConfirmed' /\ CurrentConfirmed'
  BY <1>2 DEF DaemonIsActive, Launching, SupervisorConfirmed, CurrentConfirmed
<1> QED BY <1>3, <1>4, GoneIsQuiet

\* The handler takes maintenance when nothing is handled, and keeps it quiet.
LEMMA UpdateStep ==
  ASSUME UpdatesInv, Updating
  PROVE  UpdatesInv'
<1> USE DEF UpdatesInv
<1>1. ASSUME NEW r \in Releases, UpdateAsked(r) PROVE UpdatesInv'
  BY <1>1 DEF UpdateAsked, files, UpdatesTypeOK, SupState, SupPlaces, Known, QuietFromMaintenance, Maintenance,
     Handled, Leases, UpdateNeedsDaemon, Serving, DaemonIsActive, Launching,
     SupervisorConfirmed, CurrentConfirmed
<1>2. ASSUME GateTaken PROVE UpdatesInv'
  BY <1>2 DEF GateTaken, UpdateGoes, NoUpdate, files, budget, UpdatesTypeOK, SupState, SupPlaces, Known,
     QuietFromMaintenance, Maintenance, Handled, Leases, UpdateNeedsDaemon, Serving,
     DaemonIsActive, Launching, SupervisorConfirmed, CurrentConfirmed
<1>3. ASSUME CheckRequest PROVE UpdatesInv'
  BY <1>3 DEF CheckRequest, UpdateGoes, NoUpdate, files, budget, UpdatesTypeOK, SupState, SupPlaces, Known,
     QuietFromMaintenance, Maintenance, Handled, Leases, UpdateNeedsDaemon, Serving,
     DaemonIsActive, Launching, SupervisorConfirmed, CurrentConfirmed
<1>4. ASSUME WriteRequest PROVE UpdatesInv'
  BY <1>4 DEF WriteRequest, Fault, UpdateGoes, NoUpdate, UpdatesTypeOK, SupState, SupPlaces, Known,
     QuietFromMaintenance, Maintenance, Handled, Leases, UpdateNeedsDaemon, Serving,
     DaemonIsActive, Launching, SupervisorConfirmed, CurrentConfirmed
<1>5. ASSUME AcknowledgeRequest PROVE UpdatesInv'
  BY <1>5 DEF AcknowledgeRequest, UpdateGoes, NoUpdate, files, budget, UpdatesTypeOK, SupState, SupPlaces, Known,
     QuietFromMaintenance, Maintenance, Handled, Leases, UpdateNeedsDaemon, Serving,
     DaemonIsActive, Launching, SupervisorConfirmed, CurrentConfirmed
<1>6. ASSUME HandlerDropped PROVE UpdatesInv'
  BY <1>6 DEF HandlerDropped, Fault, UpdateGoes, NoUpdate, files, UpdatesTypeOK, SupState, SupPlaces, Known,
     QuietFromMaintenance, Maintenance, Handled, Leases, UpdateNeedsDaemon, Serving,
     DaemonIsActive, Launching, SupervisorConfirmed, CurrentConfirmed
<1>7. ASSUME CloseTransports PROVE UpdatesInv'
  BY <1>7 DEF CloseTransports, UpdateGoes, NoUpdate, files, budget, UpdatesTypeOK, SupState, SupPlaces, Known,
     QuietFromMaintenance, Maintenance, Handled, Leases, UpdateNeedsDaemon, Serving,
     DaemonIsActive, Launching, SupervisorConfirmed, CurrentConfirmed
<1>8. ASSUME ExitDaemon PROVE UpdatesInv'
  <2>1. UNCHANGED <<request, current, update, cmd, sup, confirmed>>
    BY <1>8 DEF ExitDaemon, files
  <2>2. /\ gate' = FALSE /\ requested' = FALSE /\ update.pc = "none" /\ daemon.pc = "draining"
        /\ daemon'.release = daemon.release /\ daemon'.pc # "none"
        /\ daemon' \in [release : Known,
                        pc : {"none", "starting", "serving", "draining", "exit", "exit75"}]
    BY <1>8 DEF ExitDaemon, UpdatesTypeOK
  <2>3. UpdatesTypeOK'
    BY <2>1, <2>2 DEF UpdatesTypeOK
  <2>4. QuietFromMaintenance' /\ UpdateNeedsDaemon'
    BY <2>1, <2>2 DEF QuietFromMaintenance, Maintenance, UpdateNeedsDaemon
  <2>5. DaemonIsActive' /\ SupervisorConfirmed' /\ CurrentConfirmed'
    BY <2>1, <2>2 DEF DaemonIsActive, Launching, SupervisorConfirmed, CurrentConfirmed
  <2> QED BY <2>3, <2>4, <2>5
<1>9. ASSUME DaemonDies PROVE UpdatesInv'
  BY <1>9, DaemonStopped DEF DaemonDies, files, Alive
<1>10. ASSUME DaemonServes PROVE UpdatesInv'
  BY <1>10 DEF DaemonServes, inside, files, budget, UpdatesTypeOK, SupState, SupPlaces, Known,
     QuietFromMaintenance, Maintenance, Handled, Leases, UpdateNeedsDaemon, Serving,
     DaemonIsActive, Launching, SupervisorConfirmed, CurrentConfirmed
<1> QED
  BY <1>1, <1>2, <1>3, <1>4, <1>5, <1>6, <1>7, <1>8, <1>9, <1>10 DEF Updating

\* The supervisor confirms what has answered, and stops a daemon with its handler.
LEMMA SupervisorStep ==
  ASSUME UpdatesInv, Supervising
  PROVE  UpdatesInv'
<1> USE DEF UpdatesInv
<1>a. ASSUME UNCHANGED <<gate, requested, update, cmd>>,
             update.pc # "none" => daemon'.pc = "serving"
      PROVE  QuietFromMaintenance' /\ UpdateNeedsDaemon'
  BY <1>a DEF QuietFromMaintenance, Maintenance, Handled, Leases, UpdateNeedsDaemon, Serving
<1>1. ASSUME SupervisorStarts PROVE UpdatesInv'
  <2>1. UNCHANGED <<gate, requested, update, cmd, current, confirmed>> /\ update.pc = "none"
    BY <1>1 DEF SupervisorStarts, OnlySup, Alive, UpdateNeedsDaemon, Serving
  <2>2. UpdatesTypeOK'
    BY <1>1, <2>1 DEF SupervisorStarts, NoRequest, NoDaemon, UpdatesTypeOK, SupState, SupPlaces, Known
  <2>3. DaemonIsActive' /\ SupervisorConfirmed' /\ CurrentConfirmed'
    BY <1>1, <2>1 DEF SupervisorStarts, NoDaemon, DaemonIsActive, Launching,
       SupervisorConfirmed, CurrentConfirmed
  <2> QED BY <2>1, <2>2, <2>3, <1>a
<1>2. ASSUME SpawnDaemon PROVE UpdatesInv'
  <2>1. UNCHANGED <<gate, requested, update, cmd, current, request, confirmed>>
        /\ update.pc = "none"
    BY <1>2 DEF SpawnDaemon, OnlySup, files, UpdateNeedsDaemon, Serving
  <2>2. UpdatesTypeOK'
    BY <1>2, <2>1 DEF SpawnDaemon, Launching, UpdatesTypeOK, SupState, SupPlaces, Known
  <2>3. DaemonIsActive' /\ SupervisorConfirmed' /\ CurrentConfirmed'
    BY <1>2, <2>1 DEF SpawnDaemon, DaemonIsActive, Launching, SupervisorConfirmed,
       CurrentConfirmed, UpdatesTypeOK, SupState, SupPlaces
  <2> QED BY <2>1, <2>2, <2>3, <1>a
<1>3. ASSUME Probe PROVE UpdatesInv'
  <2>1. CASE Serving /\ daemon' = daemon
    <3>1. /\ UNCHANGED <<gate, requested, update, cmd, current, daemon>>
          /\ confirmed' = confirmed \cup {daemon.release}
          /\ request' \in {request, [source |-> None, target |-> None]}
          /\ sup' = [sup EXCEPT !.healthy = TRUE,
                       !.pc = IF @ = "candidate" THEN "confirm" ELSE "watch"]
          /\ Launching /\ daemon.pc # "none"
      BY <1>3, <2>1 DEF Probe, inside, NoRequest, NoDaemon, Serving
    <3>a. PICK q \in {"confirm", "watch"} : sup' = [sup EXCEPT !.healthy = TRUE, !.pc = q]
      BY <3>1
    <3>b. sup' \in SupState
      BY <3>a DEF UpdatesTypeOK, SupState, SupPlaces
    <3>2. UpdatesTypeOK'
      BY <3>1, <3>b DEF UpdatesTypeOK, Known
    <3>3. /\ sup'.pc \in {"confirm", "watch"} /\ sup'.healthy
          /\ sup'.release = sup.release /\ sup'.active = sup.active /\ sup.pc # "down"
      BY <3>1 DEF UpdatesTypeOK, SupState, SupPlaces, Launching
    <3>4. DaemonIsActive' /\ SupervisorConfirmed' /\ CurrentConfirmed'
      BY <3>1, <3>3 DEF DaemonIsActive, Launching, SupervisorConfirmed, CurrentConfirmed
    <3> QED BY <3>1, <3>2, <3>4, <1>a, <2>1 DEF Serving
  <2>2. CASE daemon.pc \in {"starting", "exit"} /\ daemon' = NoDaemon /\ confirmed' = confirmed
    <3>1. /\ UNCHANGED <<gate, requested, update, cmd, current, confirmed, request>>
          /\ update.pc = "none"
          /\ daemon' = [release |-> None, pc |-> "none"]
          /\ sup' = [sup EXCEPT !.healthy = FALSE,
                       !.pc = IF @ = "candidate" THEN "rollback" ELSE "stop"]
          /\ Launching
      BY <1>3, <2>2 DEF Probe, inside, files, NoDaemon, Serving, UpdateNeedsDaemon
    <3>a. PICK q \in {"rollback", "stop"} : sup' = [sup EXCEPT !.healthy = FALSE, !.pc = q]
      BY <3>1
    <3>b. sup' \in SupState
      BY <3>a DEF UpdatesTypeOK, SupState, SupPlaces
    <3>2. UpdatesTypeOK'
      BY <3>1, <3>b DEF UpdatesTypeOK, Known
    <3>3. /\ sup'.pc \in {"rollback", "stop"} /\ sup'.release = sup.release /\ sup.pc # "down"
      BY <3>1 DEF UpdatesTypeOK, SupState, SupPlaces, Launching
    <3>4. DaemonIsActive' /\ SupervisorConfirmed' /\ CurrentConfirmed'
      BY <3>1, <3>3 DEF DaemonIsActive, Launching, SupervisorConfirmed, CurrentConfirmed
    <3> QED BY <3>1, <3>2, <3>4, <1>a
  <2> QED BY <1>3, <2>1, <2>2 DEF Probe
<1>4. ASSUME DaemonExited PROVE UpdatesInv'
  <2>1. UNCHANGED <<gate, requested, update, cmd, current, request, confirmed>>
        /\ update.pc = "none"
    BY <1>4 DEF DaemonExited, OnlySup, UpdateNeedsDaemon, Serving
  <2>2. UpdatesTypeOK'
    BY <1>4, <2>1 DEF DaemonExited, NoDaemon, UpdatesTypeOK, SupState, SupPlaces, Known
  <2>3. DaemonIsActive' /\ SupervisorConfirmed' /\ CurrentConfirmed'
    BY <1>4, <2>1 DEF DaemonExited, NoDaemon, DaemonIsActive, Launching,
       SupervisorConfirmed, CurrentConfirmed, UpdatesTypeOK, SupState, SupPlaces
  <2> QED BY <2>1, <2>2, <2>3, <1>a
<1>5. ASSUME JudgeRequest PROVE UpdatesInv'
  <2>1. /\ UNCHANGED <<gate, requested, update, cmd, current, request, confirmed, daemon>>
        /\ sup.pc = "judge" /\ daemon.pc = "none"
    BY <1>5 DEF JudgeRequest, OnlySup, DaemonIsActive
  <2>2. CASE sup' = [sup EXCEPT !.pc = "candidate", !.active = request.target]
    <3>1. UpdatesTypeOK'
      BY <2>1, <2>2 DEF UpdatesTypeOK, SupState, SupPlaces
    <3>2. sup'.pc = "candidate" /\ sup'.release = sup.release
      BY <2>2 DEF UpdatesTypeOK, SupState, SupPlaces
    <3>3. DaemonIsActive' /\ SupervisorConfirmed' /\ CurrentConfirmed'
      BY <2>1, <3>2 DEF DaemonIsActive, Launching, SupervisorConfirmed, CurrentConfirmed
    <3> QED BY <2>1, <3>1, <3>3, <1>a DEF UpdateNeedsDaemon, Serving
  <2>3. CASE sup' = [sup EXCEPT !.pc = "rollback", !.healthy = FALSE]
    <3>1. UpdatesTypeOK'
      BY <2>1, <2>3 DEF UpdatesTypeOK, SupState, SupPlaces
    <3>2. sup'.pc = "rollback" /\ sup'.release = sup.release
      BY <2>3 DEF UpdatesTypeOK, SupState, SupPlaces
    <3>3. DaemonIsActive' /\ SupervisorConfirmed' /\ CurrentConfirmed'
      BY <2>1, <3>2 DEF DaemonIsActive, Launching, SupervisorConfirmed, CurrentConfirmed
    <3> QED BY <2>1, <3>1, <3>3, <1>a DEF UpdateNeedsDaemon, Serving
  <2> QED BY <1>5, <2>2, <2>3 DEF JudgeRequest
<1>6. ASSUME ConfirmRelease PROVE UpdatesInv'
  <2>1. /\ UNCHANGED <<gate, requested, update, cmd, request, confirmed, daemon>>
        /\ sup.pc = "confirm" /\ sup.healthy
        /\ sup.active \in confirmed /\ sup.release \in confirmed
    BY <1>6 DEF ConfirmRelease, OnlySup, DaemonIsActive, SupervisorConfirmed
  <2>2. /\ current' \in {current, [release |-> sup.active, previous |-> sup.release]}
        /\ \/ sup' = [sup EXCEPT !.pc = "settle", !.release = sup.active, !.previous = sup.release]
           \/ sup' = [sup EXCEPT !.pc = "rollback"]
           \/ sup' = [sup EXCEPT !.pc = "stop"]
    BY <1>6 DEF ConfirmRelease
  <2>a. sup' \in SupState
    BY ZenonT(60), <2>2 DEF UpdatesTypeOK, SupState, SupPlaces
  <2>b. current' \in [release : Known, previous : Known]
    BY <2>2 DEF UpdatesTypeOK, SupState
  <2>3. UpdatesTypeOK'
    BY <2>1, <2>a, <2>b DEF UpdatesTypeOK
  <2>4. CurrentConfirmed'
    BY <2>1, <2>2 DEF CurrentConfirmed
  <2>5. /\ sup'.pc \in {"settle", "rollback", "stop"} /\ sup'.healthy
        /\ sup'.release \in confirmed
    BY <2>1, <2>2 DEF UpdatesTypeOK, SupState, SupPlaces
  <2>6. DaemonIsActive' /\ SupervisorConfirmed'
    BY <2>1, <2>5 DEF DaemonIsActive, Launching, SupervisorConfirmed
  <2> QED BY <2>1, <2>3, <2>4, <2>6, <1>a DEF UpdateNeedsDaemon, Serving
<1>7. ASSUME SettleRequest PROVE UpdatesInv'
  <2>1. UNCHANGED <<gate, requested, update, cmd, current, confirmed, daemon>>
    BY <1>7 DEF SettleRequest, OnlySup
  <2>2. UpdatesTypeOK'
    BY <1>7, <2>1 DEF SettleRequest, NoRequest, UpdatesTypeOK, SupState, SupPlaces, Known
  <2>3. DaemonIsActive' /\ SupervisorConfirmed' /\ CurrentConfirmed'
    BY <1>7, <2>1 DEF SettleRequest, DaemonIsActive, Launching, SupervisorConfirmed,
       CurrentConfirmed, UpdatesTypeOK, SupState, SupPlaces
  <2> QED BY <2>1, <2>2, <2>3, <1>a DEF UpdateNeedsDaemon, Serving
<1>8. ASSUME RollBack PROVE UpdatesInv'
  <2>1. UNCHANGED <<request, current, confirmed>> /\ sup.pc = "rollback"
    BY <1>8 DEF RollBack
  <2>2. CASE sup.healthy /\ Alive
    BY <1>8, <2>1, <2>2, DaemonStopped DEF RollBack
  <2>3. CASE ~(sup.healthy /\ Alive)
    <3>1. /\ UNCHANGED <<gate, requested, update, cmd>>
          /\ daemon' = [release |-> None, pc |-> "none"]
          /\ sup' = [sup EXCEPT !.pc = "restore", !.active = sup.release, !.healthy = FALSE]
      BY <1>8, <2>3 DEF RollBack, inside, NoDaemon
    <3>2. update.pc = "none"
      BY <2>1, <2>3 DEF UpdateNeedsDaemon, Serving, DaemonIsActive, Alive
    <3>a. sup' \in SupState
      BY <3>1 DEF UpdatesTypeOK, SupState, SupPlaces
    <3>3. UpdatesTypeOK'
      BY <2>1, <3>1, <3>a DEF UpdatesTypeOK, Known
    <3>4. sup'.pc = "restore" /\ sup'.release = sup.release
      BY <3>1 DEF UpdatesTypeOK, SupState, SupPlaces
    <3>5. DaemonIsActive' /\ SupervisorConfirmed' /\ CurrentConfirmed'
      BY <2>1, <3>1, <3>4 DEF DaemonIsActive, Launching, SupervisorConfirmed, CurrentConfirmed
    <3> QED BY <3>1, <3>2, <3>3, <3>5, <1>a
  <2> QED BY <2>2, <2>3
<1>9. ASSUME HeartbeatFails PROVE UpdatesInv'
  <2>1. UNCHANGED <<gate, requested, update, cmd, current, confirmed, daemon, request>>
    BY <1>9 DEF HeartbeatFails, OnlySup, files
  <2>2. UpdatesTypeOK'
    BY <1>9, <2>1 DEF HeartbeatFails, UpdatesTypeOK, SupState, SupPlaces
  <2>3. DaemonIsActive' /\ SupervisorConfirmed' /\ CurrentConfirmed'
    BY <1>9, <2>1 DEF HeartbeatFails, DaemonIsActive, Launching, SupervisorConfirmed,
       CurrentConfirmed, UpdatesTypeOK, SupState, SupPlaces
  <2> QED BY <2>1, <2>2, <2>3, <1>a DEF UpdateNeedsDaemon, Serving
<1>10. ASSUME SupervisorStops PROVE UpdatesInv'
  <2>1. UNCHANGED <<request, current, confirmed>> /\ sup.pc \in {"stop", "watch"}
    BY <1>10 DEF SupervisorStops
  <2>2. CASE Alive
    BY <1>10, <2>1, <2>2, DaemonStopped DEF SupervisorStops
  <2>3. CASE ~Alive
    <3>1. /\ UNCHANGED <<gate, requested, update, cmd>>
          /\ daemon' = [release |-> None, pc |-> "none"]
          /\ sup' = [sup EXCEPT !.pc = "down"]
          /\ update.pc = "none"
      BY <1>10, <2>3 DEF SupervisorStops, inside, NoDaemon, Alive, UpdateNeedsDaemon, Serving
    <3>2. UpdatesTypeOK'
      BY <2>1, <3>1 DEF UpdatesTypeOK, SupState, SupPlaces, Known
    <3>3. DaemonIsActive' /\ SupervisorConfirmed' /\ CurrentConfirmed'
      BY <2>1, <3>1 DEF DaemonIsActive, Launching, SupervisorConfirmed, CurrentConfirmed,
         UpdatesTypeOK, SupState, SupPlaces
    <3> QED BY <3>1, <3>2, <3>3, <1>a
  <2> QED BY <2>2, <2>3
<1>11. ASSUME SupervisorDies PROVE UpdatesInv'
  <2>1. UNCHANGED <<gate, requested, update, cmd, current, confirmed, daemon, request>>
    BY <1>11 DEF SupervisorDies, OnlySup
  <2>2. UpdatesTypeOK'
    BY <1>11, <2>1 DEF SupervisorDies, UpdatesTypeOK, SupState, SupPlaces
  <2>3. DaemonIsActive' /\ SupervisorConfirmed' /\ CurrentConfirmed'
    BY <1>11, <2>1 DEF SupervisorDies, DaemonIsActive, Launching, SupervisorConfirmed,
       CurrentConfirmed, UpdatesTypeOK, SupState, SupPlaces
  <2> QED BY <2>1, <2>2, <2>3, <1>a DEF UpdateNeedsDaemon, Serving
<1>12. ASSUME StopDaemon PROVE UpdatesInv'
  BY <1>12, DaemonStopped DEF StopDaemon, files
<1>13. ASSUME NEW r \in Releases, AlterRelease(r) PROVE UpdatesInv'
  <2>1. UNCHANGED <<gate, requested, update, cmd, current, confirmed, daemon, request, sup>>
    BY <1>13 DEF AlterRelease, OnlySup
  <2> QED
    BY <2>1, <1>a DEF UpdatesTypeOK, SupState, SupPlaces, UpdateNeedsDaemon, Serving, DaemonIsActive, Launching,
       SupervisorConfirmed, CurrentConfirmed
<1> QED
  BY <1>1, <1>2, <1>3, <1>4, <1>5, <1>6, <1>7, <1>8, <1>9, <1>10, <1>11, <1>12, <1>13
  DEF Supervising

LEMMA UpdatesInvStep == UpdatesInv /\ [UpdatesNext]_updates => UpdatesInv'
<1> SUFFICES ASSUME UpdatesInv, [UpdatesNext]_updates PROVE UpdatesInv'
  OBVIOUS
<1>1. CASE Commanding
  BY <1>1, CommandStep DEF Commanding
<1>2. CASE Updating
  BY <1>2, UpdateStep
<1>3. CASE Supervising
  BY <1>3, SupervisorStep
<1>4. CASE UNCHANGED updates
  BY <1>4 DEF updates, UpdatesInv, UpdatesTypeOK, SupState, SupPlaces, QuietFromMaintenance, Maintenance, Handled,
     Leases, UpdateNeedsDaemon, Serving, DaemonIsActive, Launching, SupervisorConfirmed,
     CurrentConfirmed
<1> QED BY <1>1, <1>2, <1>3, <1>4 DEF UpdatesNext

\* Every reachable state of the daemon and its supervisor satisfies the invariant.
THEOREM UpdatesInvariant == UpdatesSpec => []UpdatesInv
<1>1. UpdatesInit => UpdatesInv
  BY InitUpdates
<1>2. UpdatesInv /\ [UpdatesNext]_updates => UpdatesInv'
  BY UpdatesInvStep
<1> QED BY <1>1, <1>2, PTL DEF UpdatesSpec

\* app_update, the gate of the server and the supervisor: from the acknowledgement
\* of an activation to the exit no command and no execution is interrupted, and
\* whatever dies, the current release and its predecessor have answered.
THEOREM UpdatesAreSafe == UpdatesSpec => []UpdatesSafe
<1>1. UpdatesInv => UpdatesSafe
  BY DEF UpdatesInv, QuietFromMaintenance, UpdatesSafe, UpdateInterruptsNothing
<1> QED BY <1>1, UpdatesInvariant, PTL

-----------------------------------------------------------------------------
(* Conversion and deletion: least files, greatest locks, what an operation     *)
(* changes.                                                                    *)

LEMMA SmallestOf ==
  ASSUME NEW S \in SUBSET Nat, S # {}
  PROVE  \E n \in S : \A m \in S : n <= m
<1>1. \E n \in S : \A m \in S : ~(<<m, n>> \in OpToRel(<, Nat))
  BY WFMin, NatLessThanWellFounded
<1>2. PICK n \in S : \A m \in S : ~(<<m, n>> \in OpToRel(<, Nat))
  BY <1>1
<1>3. \A m \in S : ~(m < n)
  BY <1>2 DEF OpToRel
<1>4. \A m \in S : n <= m
  BY <1>3
<1> QED BY <1>4

LEMMA GreatestOf ==
  ASSUME NEW S \in SUBSET Workspaces, S # {}
  PROVE  \E w \in S : \A v \in S : v <= w
<1> DEFINE Greatest(T) == \E w \in T : \A v \in T : v <= w
           Sizes == {n \in Nat : \E T \in SUBSET Workspaces :
                       T # {} /\ Cardinality(T) = n /\ ~Greatest(T)}
<1>1. \A T \in SUBSET Workspaces : IsFiniteSet(T) /\ Cardinality(T) \in Nat
  BY FS_Subset, FS_CardinalityType, LifecycleAssumption
<1>2. SUFFICES Sizes = {}
  BY <1>1
<1>3. SUFFICES ASSUME Sizes # {} PROVE FALSE
  OBVIOUS
<1>4. Sizes \in SUBSET Nat
  OBVIOUS
<1>5. \E n \in Sizes : \A m \in Sizes : n <= m
  BY <1>3, <1>4, SmallestOf
<1>6. PICK n \in Sizes : \A m \in Sizes : n <= m
  BY <1>5
<1>7. PICK T \in SUBSET Workspaces : T # {} /\ Cardinality(T) = n /\ ~Greatest(T)
  BY <1>6
<1>8. PICK x : x \in T
  BY <1>7
<1>9. x \in Nat /\ T \subseteq Nat
  BY <1>7, <1>8, LifecycleAssumption
<1>10. T \ {x} # {}
  <2>1. SUFFICES ASSUME T = {x} PROVE FALSE
    BY <1>8
  <2>2. \A v \in T : v <= x
    BY <2>1, <1>9
  <2> QED BY <2>2, <1>8, <1>7
<1>11. Cardinality(T \ {x}) = n - 1
  BY <1>1, <1>7, <1>8, FS_RemoveElement
<1>12. n \in Nat /\ n - 1 \in Nat
  BY <1>1, <1>6, <1>11
<1>13. n - 1 \notin Sizes
  BY <1>6, <1>12
<1>14. Greatest(T \ {x})
  BY <1>10, <1>11, <1>12, <1>13
<1>15. PICK y \in T \ {x} : \A v \in T \ {x} : v <= y
  BY <1>14
<1>16. CASE x <= y
  BY <1>7, <1>15, <1>16
<1>17. CASE ~(x <= y)
  <2>1. \A v \in T : v <= x
    BY <1>9, <1>15, <1>17
  <2> QED BY <2>1, <1>7, <1>8
<1> QED BY <1>16, <1>17

LEMMA LeastIn ==
  ASSUME NEW S \in SUBSET Workspaces, S # {}
  PROVE  Least(S) \in S /\ \A v \in S : Least(S) <= v
<1>1. S \in SUBSET Nat
  BY LifecycleAssumption
<1>2. \E w \in S : \A v \in S : w <= v
  BY <1>1, SmallestOf
<1> QED BY <1>2 DEF Least

\* The files of a flow: its source, its package and the bridges that import it.
FilesOf(f) ==
    {Legacy(f), Package(f)} \cup {Bridge(b) : b \in {c \in Bridges : Imported[c] = f}}

LEMMA FileNames ==
  /\ \A f, g : Legacy(f) = Legacy(g) => f = g
  /\ \A f, g : Package(f) = Package(g) => f = g
  /\ \A b, c : Bridge(b) = Bridge(c) => b = c
  /\ \A f, g : Legacy(f) # Package(g) /\ Legacy(f) # Bridge(g) /\ Package(f) # Bridge(g)
  BY DEF Legacy, Package, Bridge

LEMMA FileKinds ==
  /\ \A x \in Files : \/ \E f \in Flows : x = Legacy(f) \/ x = Package(f)
                      \/ \E b \in Bridges : x = Bridge(b)
  /\ \A f \in Flows : Legacy(f) \in Files /\ Package(f) \in Files
  /\ \A b \in Bridges : Bridge(b) \in Files
  BY DEF Files

LEMMA FilePlaces ==
  /\ \A f : Legacy(f)[1] = "legacy" /\ Package(f)[1] = "package"
  /\ \A f : Where(Legacy(f)) = Home[f] /\ Where(Package(f)) = Home[f]
  /\ \A b : Bridge(b)[1] = "bridge" /\ Where(Bridge(b)) = Place[b]
  /\ \A f : Rank(Legacy(f)) = -1 /\ Rank(Package(f)) = 0
  /\ \A b : Rank(Bridge(b)) = b
  BY DEF Legacy, Package, Bridge, Where, Rank

LEMMA FirstIn ==
  ASSUME NEW S \in SUBSET Files, S # {}
  PROVE  FirstFile(S) \in S
<1>1. PICK T : T = {Rank(x) + 1 : x \in S}
  OBVIOUS
<1>2. \A x \in S : Rank(x) \in Int /\ Rank(x) + 1 \in Nat
  BY FileKinds, FilePlaces, LifecycleAssumption
<1>3. T \in SUBSET Nat /\ T # {}
  BY <1>1, <1>2
<1>4. \E n \in T : \A m \in T : n <= m
  BY <1>3, SmallestOf
<1>5. PICK x \in S : \A y \in S : Rank(x) + 1 <= Rank(y) + 1
  BY <1>1, <1>4
<1>6. \A y \in S : Rank(x) <= Rank(y)
  BY <1>2, <1>5
<1> QED BY <1>6 DEF FirstFile

LEMMA IntentTypes ==
  ASSUME NEW o \in Intents
  PROVE  /\ o.id \in Ids /\ o.id \in Nat /\ o.id # 0 /\ o # NoIntent
         /\ o.kind \in {"convert", "delete"} /\ o.flow \in Flows /\ o.home \in Workspaces
         /\ o.parts \subseteq Workspaces /\ o.pre \in [Files -> Contents] /\ o.phase \in Phases
         /\ Pointer(o) \in Pointers /\ Pointer(o).id = o.id /\ Pointer(o).home = o.home
         /\ Pointer(o) # NoBarrier
<1>1. o.id \in 1..Operations /\ NoIntent.id = 0 /\ NoBarrier.id = 0
  BY DEF Intents, Ids, NoIntent, NoBarrier
<1>2. o.id \in Ids /\ o.id \in Nat /\ o.id # 0 /\ o # NoIntent
  BY <1>1, LifecycleAssumption DEF Ids
<1>3. Pointer(o) \in Pointers /\ Pointer(o).id = o.id /\ Pointer(o).home = o.home
  BY DEF Intents, Pointers, Pointer
<1>4. Pointer(o) # NoBarrier
  BY <1>1, <1>2, <1>3
<1> QED BY <1>2, <1>3, <1>4 DEF Intents

LEMMA MarkerTypes ==
  /\ NoIntent.id = 0 /\ NoBarrier.id = 0
  /\ \A p \in Pointers : /\ p.id \in Ids /\ p.id \in Nat /\ p.id # 0 /\ p.home \in Workspaces
                         /\ p # NoBarrier
<1>1. \A p \in Pointers : p.id \in 1..Operations /\ p.home \in Workspaces
  BY DEF Pointers, Ids
<1>2. NoIntent.id = 0 /\ NoBarrier.id = 0
  BY DEF NoIntent, NoBarrier
<1> QED BY <1>1, <1>2, LifecycleAssumption DEF Ids

LEMMA PointersDiffer ==
  ASSUME NEW o \in Intents, NEW p \in Pointers, p.id # o.id
  PROVE  p # Pointer(o)
  BY IntentTypes

LEMMA PointerOf ==
  ASSUME NEW o \in Intents, NEW p \in Pointers, p.id = o.id, p.home = o.home
  PROVE  p = Pointer(o)
  BY DEF Pointers, Pointer

\* What an operation changes belongs to its flow, at its participants.
LEMMA TargetPlaces ==
  ASSUME NEW o \in Intents, Closed(o), NEW x \in Targets(o)
  PROVE  x \in Files /\ x \in FilesOf(o.flow) /\ Where(x) \in o.parts
<1>1. \/ x = Legacy(o.flow) \/ x = Package(o.flow)
      \/ \E b \in Bridges : x = Bridge(b) /\ Imported[b] = o.flow /\ Place[b] \in o.parts
  BY DEF Targets
<1> QED BY <1>1, FileKinds, FilePlaces, IntentTypes DEF FilesOf, Closed

\* The files of another flow are not changed.
LEMMA FilesApart ==
  ASSUME NEW f \in Flows, NEW g \in Flows, f # g, NEW x, x \in FilesOf(f)
  PROVE  x \notin FilesOf(g)
  BY FileNames DEF FilesOf

\* The operation does change its targets, and never what an editor wrote.
LEMMA Conversion ==
  ASSUME NEW o \in Intents, Auditable(o), o.kind = "convert"
  PROVE  /\ Legacy(o.flow) \in Targets(o) /\ Package(o.flow) \in Targets(o)
         /\ o.pre[Legacy(o.flow)] = "old" /\ After(o, Legacy(o.flow)) = "absent"
         /\ o.pre[Package(o.flow)] = "absent" /\ After(o, Package(o.flow)) = "new"
         /\ \A x \in Targets(o) \ {Legacy(o.flow), Package(o.flow)} :
              /\ \E b \in Bridges : x = Bridge(b) /\ Imported[b] = o.flow /\ Place[b] \in o.parts
              /\ o.pre[x] = "old" /\ After(o, x) = "new"
         /\ \A b \in Bridges :
              Imported[b] = o.flow /\ Place[b] \in o.parts /\ o.pre[Bridge(b)] = "old" =>
                Bridge(b) \in Targets(o)
<1>1. Legacy(o.flow) \in Targets(o) /\ Package(o.flow) \in Targets(o)
  BY DEF Targets
<1>2. o.pre[Legacy(o.flow)] = "old" /\ o.pre[Package(o.flow)] = "absent"
  BY DEF Auditable
<1>3. After(o, Legacy(o.flow)) = "absent" /\ After(o, Package(o.flow)) = "new"
  BY FilePlaces DEF After
<1>4. ASSUME NEW x \in Targets(o), x # Legacy(o.flow), x # Package(o.flow)
      PROVE  /\ \E b \in Bridges : x = Bridge(b) /\ Imported[b] = o.flow /\ Place[b] \in o.parts
             /\ o.pre[x] = "old" /\ After(o, x) = "new"
  <2>1. PICK b \in Bridges : /\ x = Bridge(b) /\ Imported[b] = o.flow /\ Place[b] \in o.parts
                             /\ o.pre[Bridge(b)] = "old"
    BY <1>4 DEF Targets
  <2>2. After(o, x) = "new"
    BY <2>1, FilePlaces DEF After
  <2> QED BY <2>1, <2>2
<1>5. \A b \in Bridges :
        Imported[b] = o.flow /\ Place[b] \in o.parts /\ o.pre[Bridge(b)] = "old" =>
          Bridge(b) \in Targets(o)
  BY DEF Targets
<1> QED BY <1>1, <1>2, <1>3, <1>4, <1>5

LEMMA Deletion ==
  ASSUME NEW o \in Intents, Auditable(o), o.kind = "delete"
  PROVE  /\ Targets(o) = {Package(o.flow)} /\ o.pre[Package(o.flow)] = "new"
         /\ \A x : After(o, x) = "absent"
         /\ \A b \in Bridges : Imported[b] = o.flow => o.pre[Bridge(b)] # "new"
  BY DEF Auditable, Targets, After

LEMMA TargetContents ==
  ASSUME NEW o \in Intents, Auditable(o), NEW x \in Targets(o)
  PROVE  /\ o.pre[x] \in {"absent", "old", "new"} /\ After(o, x) \in {"absent", "new"}
         /\ o.pre[x] # After(o, x)
         /\ x \in Backups(o) <=> o.pre[x] # "absent"
         /\ x \in Staged(o) <=> After(o, x) = "new"
         /\ x[1] # "bridge" => o.pre[x] = "absent" \/ After(o, x) = "absent"
<1>1. x \in Backups(o) <=> o.pre[x] # "absent"
  BY DEF Backups
<1>2. After(o, x) \in {"absent", "new"}
  BY DEF After
<1>3. x \in Staged(o) <=> After(o, x) = "new"
  BY <1>2 DEF Staged
<1>4. CASE o.kind = "convert"
  <2>1. CASE x \in {Legacy(o.flow), Package(o.flow)}
    BY <1>1, <1>2, <1>3, <1>4, <2>1, Conversion
  <2>2. CASE x \notin {Legacy(o.flow), Package(o.flow)}
    <3>1. x[1] = "bridge"
      BY <1>4, <2>2, Conversion, FilePlaces
    <3>2. o.pre[x] = "old" /\ After(o, x) = "new"
      BY <1>4, <2>2, Conversion
    <3> QED BY <1>1, <1>3, <3>1, <3>2
  <2> QED BY <2>1, <2>2
<1>5. CASE o.kind = "delete"
  BY <1>1, <1>2, <1>3, <1>5, Deletion
<1> QED BY <1>4, <1>5, IntentTypes

\* What depends on an intent does not depend on its phase.
LEMMA SameTargets ==
  ASSUME NEW o, NEW p, SameIntent(o, p)
  PROVE  /\ Targets(o) = Targets(p) /\ Backups(o) = Backups(p) /\ Staged(o) = Staged(p)
         /\ \A x : After(o, x) = After(p, x)
         /\ Closed(o) <=> Closed(p)
         /\ Auditable(o) <=> Auditable(p)
         /\ FoundWhole(o) <=> FoundWhole(p)
         /\ Pointer(o) = Pointer(p)
         /\ AllMarked(o) <=> AllMarked(p)
         /\ \A x : ToMove(o, x) <=> ToMove(p, x)
         /\ \A x : Moved(o, x) <=> Moved(p, x)
<1>1. /\ o.id = p.id /\ o.kind = p.kind /\ o.flow = p.flow
      /\ o.home = p.home /\ o.parts = p.parts /\ o.pre = p.pre
  BY DEF SameIntent
<1>2. Targets(o) = Targets(p) /\ \A x : After(o, x) = After(p, x)
  BY <1>1 DEF Targets, After
<1>3. Backups(o) = Backups(p) /\ Staged(o) = Staged(p)
  BY <1>1, <1>2 DEF Backups, Staged
<1>4. (Closed(o) <=> Closed(p)) /\ (Auditable(o) <=> Auditable(p))
  BY <1>1 DEF Closed, Auditable
<1>5. (FoundWhole(o) <=> FoundWhole(p)) /\ Pointer(o) = Pointer(p)
  BY <1>1 DEF FoundWhole, Pointer
<1>6. AllMarked(o) <=> AllMarked(p)
  BY <1>1, <1>5 DEF AllMarked, MarkedFor
<1>7. \A x : (ToMove(o, x) <=> ToMove(p, x)) /\ (Moved(o, x) <=> Moved(p, x))
  BY <1>1, <1>2 DEF ToMove, Moved
<1> QED BY <1>2, <1>3, <1>4, <1>5, <1>6, <1>7

-----------------------------------------------------------------------------
(* How a step moves a worker, and what it spares the others.                   *)

Records == worker = [k \in Workers |-> [pc |-> worker[k].pc, o |-> worker[k].o,
                                        todo |-> worker[k].todo, fresh |-> worker[k].fresh]]

StepsTo(k, pc, o, todo, fresh) ==
    /\ Records'
    /\ worker'[k].pc = pc /\ worker'[k].o = o
    /\ worker'[k].todo = todo /\ worker'[k].fresh = fresh
    /\ \A j \in Workers \ {k} : worker'[j] = worker[j]

LEMMA Stepping ==
  ASSUME Records, NEW k \in Workers, NEW pc, NEW o, NEW todo, NEW fresh,
         worker' = [worker EXCEPT ![k] = [pc |-> pc, o |-> o, todo |-> todo, fresh |-> fresh]]
  PROVE  StepsTo(k, pc, o, todo, fresh)
<1>1. DOMAIN worker = Workers
  BY DEF Records
<1>2. \A j \in Workers \ {k} : worker'[j] = worker[j]
  BY <1>1
<1>3. worker'[k] = [pc |-> pc, o |-> o, todo |-> todo, fresh |-> fresh]
  BY <1>1
<1>4. \A j \in Workers : worker'[j] = [pc |-> worker'[j].pc, o |-> worker'[j].o,
                                        todo |-> worker'[j].todo, fresh |-> worker'[j].fresh]
  <2>1. \A j \in Workers : worker[j] = [pc |-> worker[j].pc, o |-> worker[j].o,
                                         todo |-> worker[j].todo, fresh |-> worker[j].fresh]
    BY DEF Records
  <2>2. worker'[k] = [pc |-> worker'[k].pc, o |-> worker'[k].o,
                       todo |-> worker'[k].todo, fresh |-> worker'[k].fresh]
    BY <1>3
  <2> QED BY <1>2, <2>1, <2>2
<1>5. worker' = [j \in Workers |-> worker'[j]]
  BY <1>1
<1>6. Records'
  BY <1>4, <1>5 DEF Records
<1> QED BY <1>2, <1>3, <1>6 DEF StepsTo

LEMMA RecordOf ==
  ASSUME Records, NEW k \in Workers
  PROVE  /\ worker[k] = [pc |-> worker[k].pc, o |-> worker[k].o,
                         todo |-> worker[k].todo, fresh |-> worker[k].fresh]
         /\ k \in DOMAIN worker
  BY DEF Records

LEMMA Going ==
  ASSUME Records, NEW k \in Workers, NEW pc, NEW todo, WorkerGoto(k, pc, todo)
  PROVE  StepsTo(k, pc, worker[k].o, todo, worker[k].fresh)
<1>1. PICK r : r = worker[k]
  OBVIOUS
<1>2. r = [pc |-> r.pc, o |-> r.o, todo |-> r.todo, fresh |-> r.fresh]
  BY <1>1, RecordOf
<1>3. [[r EXCEPT !.pc = pc] EXCEPT !.todo = todo]
        = [pc |-> pc, o |-> r.o, todo |-> todo, fresh |-> r.fresh]
  <2>1. PICK q : q = [r EXCEPT !.pc = pc]
    OBVIOUS
  <2>2. q = [pc |-> pc, o |-> r.o, todo |-> r.todo, fresh |-> r.fresh]
    BY <1>2, <2>1
  <2>3. [q EXCEPT !.todo = todo] = [pc |-> pc, o |-> r.o, todo |-> todo, fresh |-> r.fresh]
    BY <2>2
  <2> QED BY <2>1, <2>3
<1>4. worker' = [worker EXCEPT ![k] = [[r EXCEPT !.pc = pc] EXCEPT !.todo = todo]]
  BY <1>1, RecordOf DEF WorkerGoto
<1> QED BY <1>1, <1>3, <1>4, Stepping

LEMMA GoingOn ==
  ASSUME Records, NEW k \in Workers, NEW S, Remaining(k, S)
  PROVE  StepsTo(k, worker[k].pc, worker[k].o, S, worker[k].fresh)
<1>1. PICK r : r = worker[k]
  OBVIOUS
<1>2. r = [pc |-> r.pc, o |-> r.o, todo |-> r.todo, fresh |-> r.fresh]
  BY <1>1, RecordOf
<1>3. [r EXCEPT !.todo = S] = [pc |-> r.pc, o |-> r.o, todo |-> S, fresh |-> r.fresh]
  BY <1>2
<1>4. worker' = [worker EXCEPT ![k] = [r EXCEPT !.todo = S]]
  BY <1>1, RecordOf DEF Remaining
<1> QED BY <1>1, <1>3, <1>4, Stepping

\* A worker that gives up holds nothing.
Unlocks(k) == lock' = [w \in Workspaces |-> IF lock[w] = k THEN Nobody ELSE lock[w]]
Leaves(k) == StepsTo(k, "idle", NoIntent, {}, FALSE) /\ Unlocks(k)

LEMMA Releasing ==
  ASSUME Records, NEW k \in Workers, Release(k)
  PROVE  Leaves(k)
<1>1. worker' = [worker EXCEPT ![k] = [pc |-> "idle", o |-> NoIntent, todo |-> {}, fresh |-> FALSE]]
  BY DEF Release, Idle
<1> QED BY <1>1, Stepping DEF Leaves, Unlocks, Release

LEMMA LocksOfOthers ==
  ASSUME NEW k \in Workers, Unlocks(k)
  PROVE  /\ \A w \in Workspaces : lock'[w] # k
         /\ \A j \in Workers \ {k}, w \in Workspaces : lock'[w] = j <=> lock[w] = j
         /\ lock \in [Workspaces -> Workers \cup {Nobody}] =>
              lock' \in [Workspaces -> Workers \cup {Nobody}]
  BY LifecycleAssumption DEF Unlocks

\* What a worker relies on is as before.
Spared(j) ==
    /\ worker'[j] = worker[j] /\ edited' = edited
    /\ used \in Nat /\ used' \in Nat /\ used <= used'
    /\ \A w \in Workspaces : lock'[w] = j <=> lock[w] = j
    /\ Asks(j) => /\ \A w \in Workspaces : journal'[w].id # worker[j].o.id
                  /\ private'[worker[j].o.id] = private[worker[j].o.id]
    /\ worker[j].pc = "lock" /\ ~worker[j].fresh
         /\ journal'[worker[j].o.home].id = worker[j].o.id =>
         SameIntent(journal'[worker[j].o.home], worker[j].o)
    /\ Executes(j) =>
         /\ private'[worker[j].o.id] = private[worker[j].o.id]
         /\ \A w \in worker[j].o.parts : journal'[w] = journal[w] /\ barrier'[w] = barrier[w]
         /\ \A w \in Workspaces :
              barrier'[w] = Pointer(worker[j].o) => barrier[w] = Pointer(worker[j].o)
         /\ \A x \in Files : Where(x) \in worker[j].o.parts => disk'[x] = disk[x]

LEMMA SparedKept ==
  ASSUME NEW j \in Workers, WorkerKept(j), Spared(j)
  PROVE  WorkerKept(j)'
<1>1. WorkerShaped(j)'
  BY DEF WorkerKept, WorkerShaped, Spared, Phased, Outstanding
<1>2. OwnLocks(j)'
  BY DEF WorkerKept, OwnLocks, Spared, Holds, Collected, Executes
<1>3. OwnIntent(j)'
  <2>1. worker[j].o.id \in 0..used'
    BY DEF WorkerKept, OwnIntent, Spared
  <2>2. Executes(j) => worker[j].o \in Intents /\ Closed(worker[j].o)
    BY DEF WorkerKept, WorkerShaped, Executes, ExecutionSteps
  <2>3. Executes(j) => worker[j].o.home \in worker[j].o.parts
    BY <2>2 DEF Closed
  <2> QED BY <2>1, <2>3 DEF WorkerKept, OwnIntent, Spared, Asks, Executes
<1>4. ASSUME Executes(j)
      PROVE  /\ worker[j].o \in Intents /\ Closed(worker[j].o) /\ worker[j].o.home \in worker[j].o.parts
             /\ worker[j].o.parts \subseteq Workspaces
  <2>1. worker[j].o \in Intents /\ Closed(worker[j].o)
    BY <1>4 DEF WorkerKept, WorkerShaped, Executes, ExecutionSteps
  <2> QED BY <2>1, IntentTypes DEF Closed
<1>5. OwnMarks(j)'
  <2>1. CASE ~Executes(j)
    BY <2>1 DEF OwnMarks, Spared, Executes, ExecutionSteps
  <2>2. CASE Executes(j)
    <3>1. \A w \in worker[j].o.parts : MarkedFor(worker[j].o, w)' <=> MarkedFor(worker[j].o, w)
      BY <2>2 DEF Spared, MarkedFor
    <3>2. AllMarked(worker[j].o)' <=> AllMarked(worker[j].o)
      BY <1>4, <2>2, <3>1 DEF AllMarked, Spared
    <3> QED BY <1>4, <2>2, <3>1, <3>2 DEF OwnMarks, WorkerKept, Spared
  <2> QED BY <2>1, <2>2
<1>6. OwnFiles(j)'
  <2>1. CASE ~Executes(j)
    BY <2>1 DEF OwnFiles, Spared, Executes, ExecutionSteps
  <2>2. CASE Executes(j)
    <3>1. \A x \in Targets(worker[j].o) :
            disk'[x] = disk[x] /\ private'[worker[j].o.id][x] = private[worker[j].o.id][x]
      BY <1>4, <2>2, TargetPlaces DEF Spared
    <3>2. worker[j].pc = "move" => FirstFile(worker[j].todo) \in Targets(worker[j].o)
      <4>1. SUFFICES ASSUME worker[j].pc = "move" PROVE FirstFile(worker[j].todo) \in Targets(worker[j].o)
        OBVIOUS
      <4>2. worker[j].todo # {} /\ worker[j].todo \subseteq Targets(worker[j].o)
        BY <4>1 DEF WorkerKept, WorkerShaped, Outstanding
      <4>3. worker[j].todo \in SUBSET Files
        BY <1>4, <2>2, <4>2, TargetPlaces
      <4> QED BY <4>2, <4>3, FirstIn
    <3>3. Staged(worker[j].o) \subseteq Targets(worker[j].o)
      BY DEF Staged
    <3>4. worker'[j] = worker[j] /\ edited' = edited
      BY DEF Spared
    <3>5. OwnFiles(j)
      BY DEF WorkerKept
    <3>6. worker[j].pc = "prepare" =>
            \A x \in Staged(worker[j].o) \ worker[j].todo : private'[worker[j].o.id][x] = "new"
      BY <3>1, <3>3, <3>5 DEF OwnFiles
    <3>7. worker[j].pc = "move" =>
            LET x == FirstFile(worker[j].todo) IN
              /\ private'[worker[j].o.id][x] = After(worker[j].o, x)
              /\ disk'[x] = worker[j].o.pre[x] \/ (disk'[x] = "edited" /\ edited # {})
      BY <3>1, <3>2, <3>5 DEF OwnFiles
    <3>8. worker[j].pc \in {"look", "move"} /\ edited = {} =>
            \A x \in Targets(worker[j].o) \ worker[j].todo : Moved(worker[j].o, x)'
      BY <3>1, <3>4, <3>5 DEF OwnFiles, Moved
    <3> QED BY <3>4, <3>6, <3>7, <3>8 DEF OwnFiles
  <2> QED BY <2>1, <2>2
<1> QED BY <1>1, <1>2, <1>3, <1>5, <1>6 DEF WorkerKept

\* A worker in control holds the locks of all participants.
InControl(k) == Executes(k) \/ (worker[k].pc = "lock" /\ worker[k].todo = {} /\ worker[k].fresh)

Footprint(k) ==
    /\ edited' = edited /\ used' = used
    /\ \A j \in Workers \ {k} : worker'[j] = worker[j]
    /\ \A j \in Workers \ {k}, w \in Workspaces : lock'[w] = j <=> lock[w] = j
    /\ \A w \in Workspaces :
         \/ journal'[w] = journal[w]
         \/ /\ w = worker[k].o.home
            /\ journal'[w] = NoIntent \/ SameIntent(journal'[w], worker[k].o)
    /\ \A w \in Workspaces :
         \/ barrier'[w] = barrier[w]
         \/ w \in worker[k].o.parts /\ barrier'[w] \in {NoBarrier, Pointer(worker[k].o)}
    /\ \A i \in Ids : i # worker[k].o.id => private'[i] = private[i]
    /\ \A x \in Files : disk'[x] = disk[x] \/ Where(x) \in worker[k].o.parts

LEMMA ControlFacts ==
  ASSUME WorkersKept, NEW k \in Workers, InControl(k)
  PROVE  /\ worker[k].o \in Intents /\ Closed(worker[k].o) /\ worker[k].o.id \in Ids
         /\ worker[k].o.parts \subseteq Workspaces /\ worker[k].o.home \in worker[k].o.parts
         /\ worker[k].o.home \in Workspaces
         /\ \A w \in worker[k].o.parts : lock[w] = k
         /\ Executes(k) => journal[worker[k].o.home] = worker[k].o
<1>1. WorkerKept(k)
  BY DEF WorkersKept
<1>2. worker[k].o \in Intents /\ Closed(worker[k].o)
  BY <1>1 DEF WorkerKept, WorkerShaped, InControl, Executes, ExecutionSteps
<1>3. /\ worker[k].o.parts \subseteq Workspaces /\ worker[k].o.home \in worker[k].o.parts
      /\ worker[k].o.home \in Workspaces /\ worker[k].o.id \in Ids
  BY <1>2, IntentTypes DEF Closed
<1>4. \A w \in worker[k].o.parts : Holds(k, w)
  BY DEF Holds, InControl, Collected
<1>5. \A w \in worker[k].o.parts : lock[w] = k
  BY <1>1, <1>3, <1>4 DEF WorkerKept, OwnLocks
<1> QED BY <1>1, <1>2, <1>3, <1>5 DEF WorkerKept, OwnIntent

LEMMA ExecutionsApart ==
  ASSUME StoreKept, WorkersKept, NEW k \in Workers, InControl(k),
         NEW j \in Workers \ {k}, Executes(j)
  PROVE  /\ \A w \in worker[j].o.parts : w \notin worker[k].o.parts
         /\ worker[j].o.id # worker[k].o.id
<1>1. /\ \A w \in worker[j].o.parts : lock[w] = j
      /\ journal[worker[j].o.home] = worker[j].o /\ worker[j].o.home \in worker[j].o.parts
      /\ worker[j].o.home \in Workspaces /\ worker[j].o \in Intents
  BY ControlFacts DEF InControl
<1>2. \A w \in worker[k].o.parts : lock[w] = k
  BY ControlFacts
<1>3. \A w \in worker[j].o.parts : w \notin worker[k].o.parts
  BY <1>1, <1>2
<1>4. CASE Executes(k)
  <2>1. /\ journal[worker[k].o.home] = worker[k].o /\ worker[k].o.home \in worker[k].o.parts
        /\ worker[k].o.home \in Workspaces
    BY <1>4, ControlFacts
  <2>2. Journaled(worker[j].o.home)
    BY <1>1, IntentTypes DEF Journaled
  <2>3. worker[j].o.id = worker[k].o.id => worker[k].o.home = worker[j].o.home
    BY <1>1, <2>1, <2>2 DEF StoreKept, JournalsKept
  <2> QED BY <1>1, <1>3, <2>1, <2>3
<1>5. CASE ~Executes(k)
  <2>1. Asks(k)
    BY <1>5 DEF InControl, Asks
  <2> QED BY <1>3, <2>1 DEF WorkersKept
<1> QED BY <1>4, <1>5

LEMMA FootprintSpares ==
  ASSUME StoreKept, WorkersKept, NEW k \in Workers, InControl(k), Footprint(k),
         NEW j \in Workers \ {k}
  PROVE  Spared(j)
<1>1. WorkerKept(j) /\ WorkerKept(k)
  BY DEF WorkersKept
<1>2. PICK o : o = worker[k].o
  OBVIOUS
<1>3. PICK p : p = worker[j].o
  OBVIOUS
<1>4. o \in Intents /\ o.id \in Ids
  BY <1>2, ControlFacts
<1>5. /\ worker'[j] = worker[j] /\ edited' = edited /\ used' = used /\ used \in Nat /\ used <= used'
      /\ \A w \in Workspaces : lock'[w] = j <=> lock[w] = j
  <2>1. used \in 0..Operations
    BY DEF StoreKept, StoreTypeOK
  <2>2. used \in Nat
    BY <2>1, LifecycleAssumption
  <2> QED BY <2>2 DEF Footprint
<1>6. ASSUME Asks(j)
      PROVE  (\A w \in Workspaces : journal'[w].id # p.id) /\ private'[p.id] = private[p.id]
  <2>1. p \in Intents /\ p.id \in Ids /\ p.id # 0
    BY <1>1, <1>3, <1>6, IntentTypes DEF WorkerKept, WorkerShaped, Asks
  <2>2. p.id # o.id
    BY <1>2, <1>3, <1>6 DEF WorkersKept
  <2>3. \A w \in Workspaces : journal[w].id # p.id
    BY <1>1, <1>3, <1>6 DEF WorkerKept, OwnIntent
  <2>4. \A w \in Workspaces : journal'[w].id \in {journal[w].id, 0, o.id}
    BY <1>2, MarkerTypes DEF Footprint, SameIntent
  <2>5. private'[p.id] = private[p.id]
    BY <1>2, <2>1, <2>2 DEF Footprint
  <2> QED BY <2>1, <2>2, <2>3, <2>4, <2>5
<1>7. ASSUME worker[j].pc = "lock", ~worker[j].fresh, journal'[p.home].id = p.id
      PROVE  SameIntent(journal'[p.home], p)
  <2>1. p \in Intents /\ p.home \in Workspaces /\ p.id # 0
    BY <1>1, <1>3, <1>7, IntentTypes DEF WorkerKept, WorkerShaped
  <2>2. CASE journal'[p.home] = journal[p.home]
    BY <1>1, <1>3, <1>7, <2>2 DEF WorkerKept, OwnIntent
  <2>3. CASE journal'[p.home] # journal[p.home]
    <3>1. p.home = o.home /\ SameIntent(journal'[p.home], o)
      BY <1>2, <1>7, <2>1, <2>3, MarkerTypes DEF Footprint
    <3>2. p.id = o.id
      BY <1>7, <3>1 DEF SameIntent
    <3>3. Executes(k)
      <4>1. SUFFICES ASSUME ~Executes(k) PROVE FALSE
        OBVIOUS
      <4>2. Asks(k)
        BY <4>1 DEF InControl, Asks
      <4> QED BY <1>2, <1>3, <3>2, <4>2 DEF WorkersKept
    <3>4. journal[p.home] = o
      BY <1>2, <3>1, <3>3, ControlFacts
    <3>5. SameIntent(o, p)
      BY <1>1, <1>3, <1>7, <3>2, <3>4 DEF WorkerKept, OwnIntent
    <3> QED BY <3>1, <3>5 DEF SameIntent
  <2> QED BY <2>2, <2>3
<1>8. ASSUME Executes(j)
      PROVE  /\ private'[p.id] = private[p.id]
             /\ \A w \in p.parts : journal'[w] = journal[w] /\ barrier'[w] = barrier[w]
             /\ \A w \in Workspaces : barrier'[w] = Pointer(p) => barrier[w] = Pointer(p)
             /\ \A x \in Files : Where(x) \in p.parts => disk'[x] = disk[x]
  <2>1. p \in Intents /\ p.id \in Ids /\ p.parts \subseteq Workspaces
    BY <1>3, <1>8, ControlFacts DEF InControl
  <2>2. p.id # o.id /\ \A w \in p.parts : w \notin o.parts
    BY <1>2, <1>3, <1>8, ExecutionsApart
  <2>3. private'[p.id] = private[p.id]
    BY <1>2, <2>1, <2>2 DEF Footprint
  <2>4. o.home \in o.parts
    BY <1>2, ControlFacts
  <2>5. \A w \in p.parts : journal'[w] = journal[w] /\ barrier'[w] = barrier[w]
    BY <1>2, <2>1, <2>2, <2>4 DEF Footprint
  <2>6. Pointer(p) # Pointer(o) /\ Pointer(p) # NoBarrier
    BY <1>4, <2>1, <2>2, IntentTypes
  <2>7. \A w \in Workspaces : barrier'[w] = Pointer(p) => barrier[w] = Pointer(p)
    BY <1>2, <2>6 DEF Footprint
  <2>8. \A x \in Files : Where(x) \in p.parts => disk'[x] = disk[x]
    BY <1>2, <2>2 DEF Footprint
  <2> QED BY <2>3, <2>5, <2>7, <2>8
<1> QED BY <1>3, <1>5, <1>6, <1>7, <1>8 DEF Spared

\* Nothing that survives a crash changes.
StoreSame ==
    /\ disk' = disk /\ private' = private /\ journal' = journal /\ barrier' = barrier
    /\ edited' = edited /\ deleted' = deleted

LEMMA StoreStays ==
  ASSUME StoreKept, StoreSame, used' \in 0..Operations, used <= used',
         workerCrashes' \in 0..WorkerCrashes, conflicted' \in BOOLEAN,
         lock' \in [Workspaces -> Workers \cup {Nobody}]
  PROVE  StoreKept'
<1>1. StoreTypeOK'
  BY DEF StoreKept, StoreTypeOK, StoreSame
<1>2. used \in Nat /\ used' \in Nat /\ used <= used'
  BY LifecycleAssumption DEF StoreKept, StoreTypeOK
<1>3. JournalsKept'
  <2>1. \A w \in Workspaces : Journaled(w) => journal[w].id <= used'
    <3>1. \A w \in Workspaces : Journaled(w) => journal[w] \in Intents /\ journal[w].id <= used
      BY DEF StoreKept, StoreTypeOK, JournalsKept, Journaled
    <3> QED BY <1>2, <3>1, IntentTypes
  <2> QED BY <2>1 DEF StoreKept, StoreSame, JournalsKept, Journaled, Closed, Auditable, FoundWhole
<1>4. BarriersKept'
  BY DEF StoreKept, StoreSame, BarriersKept, BarrierHasJournal, Journaled, AllMarked, MarkedFor
<1>5. PrivateKept'
  <2>1. \A i \in Ids : i > used' => i > used
    BY <1>2, LifecycleAssumption DEF Ids
  <2> QED BY <2>1 DEF StoreKept, StoreSame, PrivateKept, Journaled
<1>6. PlacesKept'
  BY DEF StoreKept, StoreSame, PlacesKept, InPlace, Journaled, ToMove, Moved
<1>7. FlowsKept'
  BY DEF StoreKept, StoreSame, FlowsKept, Installing, FlowWhole, Journaled
<1>8. NothingDestroyed'
  BY DEF StoreKept, StoreSame, NothingDestroyed
<1> QED BY <1>1, <1>3, <1>4, <1>5, <1>6, <1>7, <1>8 DEF StoreKept

LEMMA OthersSpared ==
  ASSUME StoreKept, WorkersKept, StoreSame, NEW k \in Workers, NEW j \in Workers \ {k},
         worker'[j] = worker[j], \A w \in Workspaces : lock'[w] = j <=> lock[w] = j,
         used' \in 0..Operations, used <= used'
  PROVE  Spared(j)
<1>1. used \in Nat /\ used' \in Nat
  BY LifecycleAssumption DEF StoreKept, StoreTypeOK
<1>2. WorkerKept(j)
  BY DEF WorkersKept
<1> QED BY <1>1, <1>2 DEF Spared, StoreSame, WorkerKept, OwnIntent

LEMMA WorkersGo ==
  ASSUME WorkersKept, NEW k \in Workers, Records', \A j \in Workers \ {k} : Spared(j),
         WorkerKept(k)',
         Asks(k)' => \A j \in Workers \ {k} : worker[j].o.id # worker'[k].o.id,
         \A j \in Workers \ {k} : Asks(j) => worker'[k].o.id # worker[j].o.id
  PROVE  WorkersKept'
<1>1. \A j \in Workers \ {k} : WorkerKept(j)'
  BY SparedKept DEF WorkersKept
<1>2. \A j \in Workers \ {k} : worker'[j] = worker[j]
  BY DEF Spared
<1>3. \A i \in Workers : Asks(i)' => \A j \in Workers \ {i} : worker'[j].o.id # worker'[i].o.id
  <2>1. SUFFICES ASSUME NEW i \in Workers, Asks(i)', NEW j \in Workers \ {i}
                 PROVE  worker'[j].o.id # worker'[i].o.id
    OBVIOUS
  <2>2. CASE i = k
    BY <1>2, <2>1, <2>2
  <2>3. CASE i # k
    <3>1. Asks(i)
      BY <1>2, <2>1, <2>3 DEF Asks
    <3>2. worker'[i] = worker[i]
      BY <1>2, <2>3
    <3>3. CASE j = k
      BY <2>3, <3>1, <3>2, <3>3
    <3>4. CASE j # k
      BY <1>2, <2>3, <3>1, <3>2, <3>4 DEF WorkersKept
    <3> QED BY <3>3, <3>4
  <2> QED BY <2>2, <2>3
<1> QED BY <1>1, <1>3 DEF WorkersKept, Records

\* The intent a worker goes on with is no new request of another.
LEMMA KnownIds ==
  ASSUME WorkersKept, NEW k \in Workers, worker'[k].o.id \in {worker[k].o.id, 0}
  PROVE  \A j \in Workers \ {k} : Asks(j) => worker'[k].o.id # worker[j].o.id
<1>1. \A j \in Workers : Asks(j) => worker[j].o.id # 0
  BY IntentTypes DEF WorkersKept, WorkerKept, WorkerShaped, Asks
<1> QED BY <1>1 DEF WorkersKept

\* A step of one worker that changes nothing that survives.
LEMMA QuietStep ==
  ASSUME LifecycleInv, StoreSame, NEW k \in Workers, Records',
         \A j \in Workers \ {k} : worker'[j] = worker[j],
         \A j \in Workers \ {k}, w \in Workspaces : lock'[w] = j <=> lock[w] = j,
         used' \in 0..Operations, used <= used',
         workerCrashes' \in 0..WorkerCrashes, conflicted' = FALSE,
         lock' \in [Workspaces -> Workers \cup {Nobody}],
         WorkerKept(k)',
         Asks(k)' => \A j \in Workers \ {k} : worker[j].o.id # worker'[k].o.id,
         \A j \in Workers \ {k} : Asks(j) => worker'[k].o.id # worker[j].o.id
  PROVE  LifecycleInv'
<1>1. StoreKept'
  BY StoreStays DEF LifecycleInv
<1>2. \A j \in Workers \ {k} : Spared(j)
  BY OthersSpared DEF LifecycleInv
<1>3. WorkersKept'
  BY <1>2, WorkersGo DEF LifecycleInv
<1> QED BY <1>1, <1>3 DEF LifecycleInv, PreparedFinishes

\* A worker that gives up.
LEMMA IdleKept ==
  ASSUME NEW k \in Workers, StepsTo(k, "idle", NoIntent, {}, FALSE),
         \A w \in Workspaces : lock'[w] # k, used' \in 0..Operations
  PROVE  WorkerKept(k)'
<1>1. worker'[k].pc = "idle" /\ worker'[k].o = NoIntent /\ worker'[k].fresh = FALSE
  BY DEF StepsTo
<1>2. ~Executes(k)' /\ ~Asks(k)'
  BY <1>1 DEF Executes, ExecutionSteps, Asks
<1>3. WorkerShaped(k)'
  BY <1>1 DEF WorkerShaped
<1>4. OwnLocks(k)'
  BY <1>1, <1>2 DEF OwnLocks, Holds
<1>5. OwnIntent(k)'
  BY <1>1, <1>2, LifecycleAssumption, MarkerTypes DEF OwnIntent
<1>6. OwnMarks(k)' /\ OwnFiles(k)'
  BY <1>1 DEF OwnMarks, OwnFiles
<1> QED BY <1>3, <1>4, <1>5, <1>6 DEF WorkerKept

LEMMA LeavesQuietly ==
  ASSUME LifecycleInv, StoreSame, NEW k \in Workers, Leaves(k), used' = used,
         workerCrashes' \in 0..WorkerCrashes, conflicted' = FALSE
  PROVE  LifecycleInv'
<1>1. used' \in 0..Operations /\ used <= used' /\ lock \in [Workspaces -> Workers \cup {Nobody}]
  BY LifecycleAssumption DEF LifecycleInv, StoreKept, StoreTypeOK
<1>2. /\ \A w \in Workspaces : lock'[w] # k
      /\ \A j \in Workers \ {k}, w \in Workspaces : lock'[w] = j <=> lock[w] = j
      /\ lock' \in [Workspaces -> Workers \cup {Nobody}]
  BY <1>1, LocksOfOthers DEF Leaves
<1>3. WorkerKept(k)'
  BY <1>1, <1>2, IdleKept DEF Leaves
<1>4. /\ Records' /\ worker'[k].o.id = 0 /\ ~Asks(k)'
      /\ \A j \in Workers \ {k} : worker'[j] = worker[j]
  BY MarkerTypes DEF Leaves, StepsTo, Asks
<1>5. \A j \in Workers \ {k} : Asks(j) => worker'[k].o.id # worker[j].o.id
  BY <1>4, KnownIds DEF LifecycleInv
<1> QED BY <1>1, <1>2, <1>3, <1>4, <1>5, QuietStep

-----------------------------------------------------------------------------
(* The steps of a worker before it is in control.                              *)

LEMMA InvFacts ==
  ASSUME LifecycleInv, NEW k \in Workers
  PROVE  /\ Records /\ WorkerKept(k) /\ StoreTypeOK /\ conflicted = FALSE
         /\ used \in Nat /\ used \in 0..Operations /\ used <= used
         /\ workerCrashes \in 0..WorkerCrashes
         /\ lock \in [Workspaces -> Workers \cup {Nobody}]
         /\ \A w \in Workspaces : lock[w] = k <=> Holds(k, w)
<1>1. StoreTypeOK /\ Records /\ WorkerKept(k) /\ conflicted = FALSE
  <2>1. StoreTypeOK
    BY DEF LifecycleInv, StoreKept
  <2>2. Records /\ WorkerKept(k)
    BY DEF LifecycleInv, WorkersKept, Records
  <2>3. conflicted = FALSE
    BY <2>1 DEF LifecycleInv, PreparedFinishes, StoreTypeOK
  <2> QED BY <2>1, <2>2, <2>3
<1>2. \A w \in Workspaces : lock[w] = k <=> Holds(k, w)
  BY <1>1 DEF WorkerKept, OwnLocks
<1>3. /\ used \in 0..Operations /\ workerCrashes \in 0..WorkerCrashes
      /\ lock \in [Workspaces -> Workers \cup {Nobody}]
  BY <1>1 DEF StoreTypeOK
<1>4. Operations \in Nat
  BY LifecycleAssumption
<1>5. used \in Nat /\ used <= used
  BY <1>3, <1>4
<1> QED BY <1>1, <1>2, <1>3, <1>5

LEMMA UsedFacts ==
  ASSUME LifecycleInv
  PROVE  used \in Nat /\ Operations \in Nat /\ used <= Operations
<1>1. used \in 0..Operations /\ Operations \in Nat
  BY LifecycleAssumption DEF LifecycleInv, StoreKept, StoreTypeOK
<1> QED BY <1>1

LEMMA IdsKnown ==
  ASSUME LifecycleInv, NEW j \in Workers
  PROVE  worker[j].o.id \in Nat /\ worker[j].o.id <= used
<1>1. worker[j].o.id \in 0..used
  BY DEF LifecycleInv, WorkersKept, WorkerKept, OwnIntent
<1> QED BY <1>1, UsedFacts

LEMMA JournalIds ==
  ASSUME LifecycleInv, NEW w \in Workspaces
  PROVE  journal[w].id \in Nat /\ journal[w].id <= used /\ (journal[w].id # 0 <=> Journaled(w))
<1>1. CASE Journaled(w)
  <2>1. journal[w] \in Intents /\ journal[w].id <= used
    BY <1>1 DEF LifecycleInv, StoreKept, StoreTypeOK, JournalsKept, Journaled
  <2> QED BY <1>1, <2>1, IntentTypes
<1>2. CASE ~Journaled(w)
  BY <1>2, UsedFacts, MarkerTypes DEF Journaled
<1> QED BY <1>1, <1>2

\* A worker without locks gives up.
LEMMA Abandoning ==
  ASSUME LifecycleInv, StoreSame, NEW k \in Workers, worker[k].pc \in {"idle", "capture", "discover"},
         StepsTo(k, "idle", NoIntent, {}, FALSE), lock' = lock, used' = used,
         workerCrashes' = workerCrashes, conflicted' = conflicted
  PROVE  LifecycleInv'
<1>1. \A w \in Workspaces : lock[w] # k
  BY InvFacts DEF Holds, Executes, ExecutionSteps
<1>2. Unlocks(k)
  BY <1>1, InvFacts DEF Unlocks
<1> QED BY <1>2, InvFacts, LeavesQuietly DEF Leaves

LEMMA AskKeeps ==
  ASSUME LifecycleInv, NEW k \in Workers, NEW kind \in {"convert", "delete"}, NEW f \in Flows,
         Ask(k, kind, f)
  PROVE  LifecycleInv'
<1>1. PICK o : o = [id |-> used', kind |-> kind, flow |-> f, home |-> Home[f],
                    parts |-> Registered[k], pre |-> [x \in Files |-> "absent"],
                    phase |-> "staging"]
  OBVIOUS
<1>2. worker' = [worker EXCEPT ![k] =
         [pc |-> "capture", o |-> o, todo |-> Registered[k], fresh |-> TRUE]]
  BY <1>1 DEF Ask
<1>3. StepsTo(k, "capture", o, Registered[k], TRUE)
  BY <1>2, InvFacts, Stepping
<1>4. /\ used < Operations /\ used' = used + 1 /\ Home[f] \in Registered[k] /\ worker[k].pc = "idle"
      /\ lock' = lock /\ workerCrashes' = workerCrashes /\ conflicted' = conflicted /\ StoreSame
  BY DEF Ask, WorkerAt, StoreSame
<1>5. used' \in Nat /\ used' \in 1..Operations /\ used' \in 0..Operations /\ used <= used'
  BY <1>4, UsedFacts
<1>6. Registered[k] \subseteq Workspaces /\ Home[f] \in Workspaces
  BY LifecycleAssumption
<1>7. o \in Intents
  BY <1>1, <1>5, <1>6 DEF Intents, Ids, Contents, Phases
<1>8. Closed(o)
  BY <1>1, <1>4, LifecycleAssumption DEF Closed
<1>9. /\ worker'[k].pc = "capture" /\ worker'[k].o = o /\ worker'[k].todo = o.parts
      /\ worker'[k].fresh = TRUE /\ o.phase = "staging" /\ o.id = used'
  BY <1>1, <1>3 DEF StepsTo
<1>10. WorkerShaped(k)'
  BY <1>7, <1>8, <1>9 DEF WorkerShaped, Phased, Outstanding, Closed
<1>11. \A w \in Workspaces : lock[w] # k
  BY <1>4, InvFacts DEF Holds, Executes, ExecutionSteps
<1>12. OwnLocks(k)'
  BY <1>4, <1>9, <1>11 DEF OwnLocks, Holds, Executes, ExecutionSteps
<1>13. \A w \in Workspaces : journal[w].id # o.id
  <2>1. \A w \in Workspaces : journal[w].id \in Nat /\ journal[w].id <= used
    BY JournalIds
  <2> QED BY <1>4, <1>9, <2>1, UsedFacts
<1>14. \A x \in Files : private[o.id][x] = "absent"
  <2>1. o.id \in Ids /\ o.id > used
    BY <1>4, <1>5, <1>9, UsedFacts DEF Ids
  <2> QED BY <2>1 DEF LifecycleInv, StoreKept, PrivateKept
<1>15. OwnIntent(k)'
  BY <1>4, <1>5, <1>9, <1>13, <1>14 DEF OwnIntent, Asks, Executes, ExecutionSteps, StoreSame
<1>16. OwnMarks(k)' /\ OwnFiles(k)'
  BY <1>9 DEF OwnMarks, OwnFiles
<1>17. \A j \in Workers : worker[j].o.id # o.id
  <2>1. \A j \in Workers : worker[j].o.id \in Nat /\ worker[j].o.id <= used
    BY IdsKnown
  <2>2. o.id = used + 1
    BY <1>4, <1>9
  <2>3. \A n \in Nat : n <= used => n # used + 1
    BY UsedFacts
  <2> QED BY <2>1, <2>2, <2>3
<1>18. WorkerKept(k)'
  BY <1>10, <1>12, <1>15, <1>16 DEF WorkerKept
<1>19. Records' /\ \A j \in Workers \ {k} : worker'[j] = worker[j]
  BY <1>3 DEF StepsTo
<1>20. \A j \in Workers \ {k} : worker[j].o.id # worker'[k].o.id
  BY <1>9, <1>17
<1>21. /\ workerCrashes' \in 0..WorkerCrashes /\ conflicted' = FALSE
       /\ lock' \in [Workspaces -> Workers \cup {Nobody}]
  BY <1>4, InvFacts
<1> QED BY <1>4, <1>5, <1>18, <1>19, <1>20, <1>21, QuietStep

\* A step that keeps the locks and the identity of the intent.
LEMMA GoesQuietly ==
  ASSUME LifecycleInv, StoreSame, NEW k \in Workers, NEW pc, NEW o, NEW todo,
         StepsTo(k, pc, o, todo, worker[k].fresh), o.id = worker[k].o.id,
         lock' = lock, used' = used, workerCrashes' = workerCrashes, conflicted' = conflicted,
         WorkerKept(k)', Asks(k)' => Asks(k)
  PROVE  LifecycleInv'
<1>1. Records' /\ worker'[k].o = o /\ \A j \in Workers \ {k} : worker'[j] = worker[j]
  BY DEF StepsTo
<1>2. \A j \in Workers \ {k} : Asks(j) => worker'[k].o.id # worker[j].o.id
  BY <1>1 DEF LifecycleInv, WorkersKept
<1>3. Asks(k)' => \A j \in Workers \ {k} : worker[j].o.id # worker'[k].o.id
  BY <1>1 DEF LifecycleInv, WorkersKept
<1> QED BY <1>1, <1>2, <1>3, InvFacts, QuietStep

LEMMA AskerFacts ==
  ASSUME LifecycleInv, NEW k \in Workers, Asks(k)
  PROVE  /\ worker[k].o \in Intents /\ Closed(worker[k].o) /\ worker[k].o.phase = "staging"
         /\ worker[k].todo \in SUBSET Workspaces /\ worker[k].todo \subseteq worker[k].o.parts
         /\ worker[k].o.parts \subseteq Workspaces /\ worker[k].o.id \in 0..used
         /\ \A w \in Workspaces : journal[w].id # worker[k].o.id
         /\ \A x \in Files : private[worker[k].o.id][x] = "absent"
<1>1. WorkerShaped(k) /\ OwnIntent(k)
  BY DEF LifecycleInv, WorkersKept, WorkerKept
<1>2. worker[k].o \in Intents /\ Closed(worker[k].o) /\ worker[k].o.phase = "staging"
      /\ worker[k].todo \subseteq worker[k].o.parts
  BY <1>1 DEF WorkerShaped, Asks, Phased, Outstanding
<1>3. worker[k].o.parts \subseteq Workspaces
  BY <1>2, IntentTypes
<1> QED BY <1>1, <1>2, <1>3 DEF OwnIntent

LEMMA CaptureKeeps ==
  ASSUME LifecycleInv, NEW k \in Workers, Capture(k)
  PROVE  LifecycleInv'
<1>1. /\ worker[k].pc = "capture" /\ worker[k].todo # {} /\ StoreSame
      /\ lock' = lock /\ used' = used /\ workerCrashes' = workerCrashes /\ conflicted' = conflicted
  BY DEF Capture, WorkerAt, StoreSame, tallies
<1>2. PICK w : w = Least(worker[k].todo)
  OBVIOUS
<1>3. PICK o : o = worker[k].o
  OBVIOUS
<1>4. Asks(k) /\ o \in Intents /\ Closed(o) /\ o.phase = "staging" /\ o.id \in 0..used
      /\ o.parts \subseteq Workspaces
      /\ worker[k].todo \in SUBSET Workspaces /\ worker[k].todo \subseteq o.parts
  BY <1>1, <1>3, AskerFacts DEF Asks
<1>5. PICK found : found = [x \in Files |-> IF Where(x) = w THEN disk[x] ELSE o.pre[x]]
  OBVIOUS
<1>6. CASE Unmarked(w)
  <2>1. PICK r : r = worker[k]
    OBVIOUS
  <2>2. PICK p : p = [o EXCEPT !.pre = found]
    OBVIOUS
  <2>3. worker' = [worker EXCEPT ![k] = [pc |-> "capture", o |-> p, todo |-> r.todo \ {w},
                                          fresh |-> r.fresh]]
    <3>1. r = [pc |-> r.pc, o |-> r.o, todo |-> r.todo, fresh |-> r.fresh] /\ k \in DOMAIN worker
      BY <2>1, RecordOf, InvFacts
    <3>2. worker' = [worker EXCEPT ![k] = [r EXCEPT !.todo = r.todo \ {w}, !.o = p]]
      BY <1>2, <1>3, <1>5, <1>6, <2>1, <2>2, <3>1 DEF Capture
    <3>3. [r EXCEPT !.todo = r.todo \ {w}, !.o = p]
            = [pc |-> r.pc, o |-> p, todo |-> r.todo \ {w}, fresh |-> r.fresh]
      <4>1. PICK q : q = [r EXCEPT !.todo = r.todo \ {w}]
        OBVIOUS
      <4>2. q = [pc |-> r.pc, o |-> r.o, todo |-> r.todo \ {w}, fresh |-> r.fresh]
        BY <3>1, <4>1
      <4>3. [q EXCEPT !.o = p] = [pc |-> r.pc, o |-> p, todo |-> r.todo \ {w}, fresh |-> r.fresh]
        BY <4>2
      <4> QED BY <4>1, <4>3
    <3>4. r.pc = "capture"
      BY <1>1, <2>1
    <3> QED BY <3>2, <3>3, <3>4
  <2>4. StepsTo(k, "capture", p, worker[k].todo \ {w}, worker[k].fresh)
    BY <2>1, <2>3, Stepping, InvFacts
  <2>5. found \in [Files -> Contents]
    <3>1. disk \in [Files -> Contents \ {"part"}] /\ o.pre \in [Files -> Contents]
      BY <1>4, InvFacts, IntentTypes DEF StoreTypeOK
    <3> QED BY <1>5, <3>1
  <2>6. p \in Intents
    BY <1>4, <2>2, <2>5 DEF Intents
  <2>7. /\ p.id = o.id /\ p.home = o.home /\ p.parts = o.parts /\ p.flow = o.flow
        /\ p.phase = "staging"
    BY <1>4, <2>2 DEF Intents
  <2>8. Closed(p)
    BY <1>4, <2>7 DEF Closed
  <2>9. /\ worker'[k].pc = "capture" /\ worker'[k].o = p /\ worker'[k].fresh = worker[k].fresh
        /\ worker'[k].todo = worker[k].todo \ {w}
    BY <2>4 DEF StepsTo
  <2>10. WorkerShaped(k)'
    <3>1. worker[k].fresh \in BOOLEAN
      BY InvFacts DEF WorkerKept, WorkerShaped
    <3> QED BY <1>4, <2>6, <2>7, <2>8, <2>9, <3>1 DEF WorkerShaped, Phased, Outstanding, Closed
  <2>11. OwnLocks(k)'
    BY <1>1, <2>9, InvFacts DEF OwnLocks, Holds, Executes, ExecutionSteps
  <2>12. OwnIntent(k)'
    BY <1>1, <1>3, <1>4, <2>7, <2>9, AskerFacts DEF OwnIntent, Asks, Executes, ExecutionSteps, StoreSame
  <2>13. OwnMarks(k)' /\ OwnFiles(k)'
    BY <2>9 DEF OwnMarks, OwnFiles
  <2> QED BY <1>1, <1>3, <1>4, <2>4, <2>7, <2>10, <2>11, <2>12, <2>13, GoesQuietly DEF WorkerKept
<1>7. CASE ~Unmarked(w)
  <2>1. worker' = [worker EXCEPT ![k] = Idle]
    BY <1>2, <1>7 DEF Capture
  <2>2. StepsTo(k, "idle", NoIntent, {}, FALSE)
    BY <2>1, Stepping, InvFacts DEF Idle
  <2> QED BY <1>1, <2>2, Abandoning
<1> QED BY <1>6, <1>7

LEMMA AuditKeeps ==
  ASSUME LifecycleInv, NEW k \in Workers, Audit(k)
  PROVE  LifecycleInv'
<1>1. /\ worker[k].pc = "capture" /\ StoreSame
      /\ lock' = lock /\ used' = used /\ workerCrashes' = workerCrashes /\ conflicted' = conflicted
  BY DEF Audit, WorkerAt, StoreSame, tallies
<1>2. PICK o : o = worker[k].o
  OBVIOUS
<1>3. Asks(k) /\ o \in Intents /\ Closed(o) /\ o.phase = "staging" /\ o.id \in 0..used
      /\ o.parts \subseteq Workspaces
  BY <1>1, <1>2, AskerFacts DEF Asks
<1>4. CASE Auditable(o)
  <2>1. PICK r : r = worker[k]
    OBVIOUS
  <2>2. worker' = [worker EXCEPT ![k] = [pc |-> "lock", o |-> o, todo |-> o.parts,
                                          fresh |-> r.fresh]]
    <3>1. r = [pc |-> r.pc, o |-> r.o, todo |-> r.todo, fresh |-> r.fresh] /\ k \in DOMAIN worker
      BY <2>1, RecordOf, InvFacts
    <3>2. worker' = [worker EXCEPT ![k] = [r EXCEPT !.pc = "lock", !.todo = o.parts]]
      BY <1>2, <1>4, <2>1, <3>1 DEF Audit
    <3>3. [r EXCEPT !.pc = "lock", !.todo = o.parts]
            = [pc |-> "lock", o |-> r.o, todo |-> o.parts, fresh |-> r.fresh]
      <4>1. PICK q : q = [r EXCEPT !.pc = "lock"]
        OBVIOUS
      <4>2. q = [pc |-> "lock", o |-> r.o, todo |-> r.todo, fresh |-> r.fresh]
        BY <3>1, <4>1
      <4>3. [q EXCEPT !.todo = o.parts]
              = [pc |-> "lock", o |-> r.o, todo |-> o.parts, fresh |-> r.fresh]
        BY <4>2
      <4> QED BY <4>1, <4>3
    <3>4. r.o = o
      BY <1>2, <2>1
    <3> QED BY <3>2, <3>3, <3>4
  <2>3. StepsTo(k, "lock", o, o.parts, worker[k].fresh)
    BY <2>1, <2>2, Stepping, InvFacts
  <2>4. /\ worker'[k].pc = "lock" /\ worker'[k].o = o /\ worker'[k].fresh = worker[k].fresh
        /\ worker'[k].todo = o.parts
    BY <2>3 DEF StepsTo
  <2>5. worker[k].fresh \in BOOLEAN
    BY InvFacts DEF WorkerKept, WorkerShaped
  <2>6. WorkerShaped(k)'
    BY <1>3, <2>4, <2>5, IntentTypes DEF WorkerShaped, Phased, Outstanding, Closed
  <2>7. OwnLocks(k)'
    BY <1>1, <2>4, InvFacts DEF OwnLocks, Holds, Executes, ExecutionSteps, Collected
  <2>8. OwnIntent(k)'
    <3>1. /\ \A w \in Workspaces : journal'[w].id # o.id
          /\ \A x \in Files : private'[o.id][x] = "absent"
      BY <1>1, <1>2, <1>3, AskerFacts DEF StoreSame
    <3>2. o.home \in Workspaces /\ o.id \in 0..used'
      BY <1>1, <1>3, IntentTypes
    <3> QED BY <1>4, <2>4, <3>1, <3>2 DEF OwnIntent, Asks, Executes, ExecutionSteps
  <2>9. OwnMarks(k)' /\ OwnFiles(k)'
    BY <2>4 DEF OwnMarks, OwnFiles
  <2> QED BY <1>1, <1>2, <1>3, <2>3, <2>6, <2>7, <2>8, <2>9, GoesQuietly DEF WorkerKept
<1>5. CASE ~Auditable(o)
  <2>1. worker' = [worker EXCEPT ![k] = Idle]
    BY <1>2, <1>5 DEF Audit
  <2>2. StepsTo(k, "idle", NoIntent, {}, FALSE)
    BY <2>1, Stepping, InvFacts DEF Idle
  <2> QED BY <1>1, <2>2, Abandoning
<1> QED BY <1>4, <1>5

LEMMA LockKeeps ==
  ASSUME LifecycleInv, NEW k \in Workers, Lock(k)
  PROVE  LifecycleInv'
<1>1. /\ worker[k].pc = "lock" /\ worker[k].todo # {} /\ StoreSame
      /\ used' = used /\ workerCrashes' = workerCrashes /\ conflicted' = conflicted
  BY DEF Lock, WorkerAt, StoreSame, tallies
<1>2. PICK w : w = Least(worker[k].todo)
  OBVIOUS
<1>3. PICK o : o = worker[k].o
  OBVIOUS
<1>4. Free(w) /\ lock' = [lock EXCEPT ![w] = k] /\ Remaining(k, worker[k].todo \ {w})
  BY <1>2 DEF Lock
<1>5. WorkerShaped(k) /\ OwnLocks(k) /\ OwnIntent(k) /\ lock \in [Workspaces -> Workers \cup {Nobody}]
  BY InvFacts DEF WorkerKept
<1>6. /\ o \in Intents /\ Closed(o) /\ o.parts \subseteq Workspaces
      /\ worker[k].todo \subseteq o.parts /\ worker[k].todo \in SUBSET Workspaces
  <2>1. o \in Intents /\ Closed(o) /\ worker[k].todo \subseteq o.parts
    BY <1>1, <1>3, <1>5 DEF WorkerShaped, Outstanding
  <2> QED BY <2>1, IntentTypes
<1>7. w \in worker[k].todo /\ \A v \in worker[k].todo : w <= v
  BY <1>1, <1>2, <1>6, LeastIn
<1>8. StepsTo(k, "lock", o, worker[k].todo \ {w}, worker[k].fresh)
  <2>1. StepsTo(k, worker[k].pc, worker[k].o, worker[k].todo \ {w}, worker[k].fresh)
    BY <1>4, InvFacts, GoingOn
  <2> QED BY <1>1, <1>3, <2>1
<1>9. /\ worker'[k].pc = "lock" /\ worker'[k].o = o /\ worker'[k].fresh = worker[k].fresh
      /\ worker'[k].todo = worker[k].todo \ {w}
      /\ Records' /\ \A j \in Workers \ {k} : worker'[j] = worker[j]
  BY <1>8 DEF StepsTo
<1>10. /\ \A j \in Workers \ {k}, v \in Workspaces : lock'[v] = j <=> lock[v] = j
       /\ lock' \in [Workspaces -> Workers \cup {Nobody}]
       /\ \A v \in Workspaces : lock'[v] = k <=> lock[v] = k \/ v = w
  <2>1. w \in Workspaces /\ lock[w] = Nobody /\ Nobody \notin Workers
    BY <1>4, <1>6, <1>7, LifecycleAssumption DEF Free
  <2> QED BY <1>4, <1>5, <2>1
<1>11. WorkerShaped(k)'
  BY <1>1, <1>3, <1>5, <1>6, <1>9 DEF WorkerShaped, Phased, Outstanding, Closed
<1>12. OwnLocks(k)'
  <2>1. \A v \in Workspaces : lock[v] = k <=> v \in o.parts \ worker[k].todo
    BY <1>1, <1>3, <1>5 DEF OwnLocks, Holds, Collected, Executes, ExecutionSteps
  <2>2. \A v \in Workspaces : lock'[v] = k <=> v \in o.parts \ (worker[k].todo \ {w})
    BY <1>6, <1>7, <1>10, <2>1
  <2>3. \A v \in o.parts \ worker[k].todo, u \in worker[k].todo : v < u
    BY <1>1, <1>3, <1>5 DEF OwnLocks, Collected
  <2>4. \A u \in worker[k].todo \ {w} : w < u
    <3>1. worker[k].todo \subseteq Nat
      BY <1>6, LifecycleAssumption
    <3> QED BY <1>7, <3>1
  <2>5. \A v \in o.parts \ (worker[k].todo \ {w}), u \in worker[k].todo \ {w} : v < u
    BY <2>3, <2>4
  <2> QED BY <1>9, <2>2, <2>5 DEF OwnLocks, Holds, Collected, Executes, ExecutionSteps
<1>13. OwnIntent(k)'
  BY <1>1, <1>3, <1>5, <1>9 DEF OwnIntent, Asks, Executes, ExecutionSteps, StoreSame, Auditable
<1>14. OwnMarks(k)' /\ OwnFiles(k)'
  BY <1>9 DEF OwnMarks, OwnFiles
<1>15. WorkerKept(k)'
  BY <1>11, <1>12, <1>13, <1>14 DEF WorkerKept
<1>16. /\ Asks(k)' => \A j \in Workers \ {k} : worker[j].o.id # worker'[k].o.id
       /\ \A j \in Workers \ {k} : Asks(j) => worker'[k].o.id # worker[j].o.id
  BY <1>1, <1>3, <1>9 DEF LifecycleInv, WorkersKept, Asks
<1> QED BY <1>1, <1>9, <1>10, <1>15, <1>16, InvFacts, QuietStep

LEMMA LookupKeeps ==
  ASSUME LifecycleInv, NEW k \in Workers, NEW w \in Workspaces, Lookup(k, w)
  PROVE  LifecycleInv'
<1>1. /\ worker[k].pc = "idle" /\ StoreSame /\ ~Unmarked(w)
      /\ lock' = lock /\ used' = used /\ workerCrashes' = workerCrashes /\ conflicted' = conflicted
  BY DEF Lookup, WorkerAt, StoreSame, tallies
<1>2. PICK p : p = IF journal[w] # NoIntent THEN Pointer(journal[w]) ELSE barrier[w]
  OBVIOUS
<1>3. StepsTo(k, "discover", p, {w}, FALSE)
  BY <1>2, Stepping, InvFacts DEF Lookup
<1>4. /\ worker'[k].pc = "discover" /\ worker'[k].o = p /\ worker'[k].fresh = FALSE
      /\ Records' /\ \A j \in Workers \ {k} : worker'[j] = worker[j]
  BY <1>3 DEF StepsTo
<1>5. p \in Pointers /\ \E v \in Workspaces : journal[v].id = p.id
  <2>1. CASE journal[w] # NoIntent
    <3>1. journal[w] \in Intents
      BY <2>1, InvFacts DEF StoreTypeOK
    <3> QED BY <1>2, <2>1, <3>1, IntentTypes
  <2>2. CASE journal[w] = NoIntent
    <3>1. barrier[w] # NoBarrier /\ p = barrier[w]
      BY <1>1, <1>2, <2>2 DEF Unmarked
    <3>2. p \in Pointers
      BY <3>1, InvFacts DEF StoreTypeOK
    <3>3. journal[p.home].id = p.id
      BY <3>1 DEF LifecycleInv, StoreKept, BarriersKept, BarrierHasJournal
    <3> QED BY <3>2, <3>3, MarkerTypes
  <2> QED BY <2>1, <2>2
<1>6. p.id \in 0..used
  <2>1. p.id \in Nat /\ p.id <= used
    BY <1>5, JournalIds
  <2> QED BY <2>1, UsedFacts
<1>7. ~Executes(k)' /\ ~Asks(k)'
  BY <1>4 DEF Executes, ExecutionSteps, Asks
<1>8. WorkerShaped(k)'
  BY <1>4, <1>5 DEF WorkerShaped
<1>9. OwnLocks(k)'
  <2>1. \A v \in Workspaces : lock[v] # k
    BY <1>1, InvFacts DEF Holds, Executes, ExecutionSteps
  <2> QED BY <1>1, <1>4, <1>7, <2>1 DEF OwnLocks, Holds
<1>10. OwnIntent(k)'
  BY <1>1, <1>4, <1>6, <1>7 DEF OwnIntent
<1>11. OwnMarks(k)' /\ OwnFiles(k)'
  BY <1>4 DEF OwnMarks, OwnFiles
<1>12. WorkerKept(k)'
  BY <1>8, <1>9, <1>10, <1>11 DEF WorkerKept
<1>13. \A j \in Workers \ {k} : Asks(j) => worker'[k].o.id # worker[j].o.id
  BY <1>4, <1>5, AskerFacts
<1> QED BY <1>1, <1>4, <1>7, <1>12, <1>13, InvFacts, QuietStep

LEMMA JournalFacts ==
  ASSUME LifecycleInv, NEW w \in Workspaces, journal[w].id # 0
  PROVE  /\ journal[w] \in Intents /\ Closed(journal[w]) /\ journal[w].home = w
         /\ Auditable(journal[w]) /\ FoundWhole(journal[w]) /\ Journaled(w)
         /\ \A v \in Workspaces : journal[v].id = journal[w].id => v = w
<1>1. Journaled(w)
  BY JournalIds
<1>2. journal[w] \in Intents
  BY <1>1, InvFacts DEF LifecycleInv, StoreKept, StoreTypeOK, Journaled
<1> QED BY <1>1, <1>2 DEF LifecycleInv, StoreKept, JournalsKept

LEMMA DiscoverKeeps ==
  ASSUME LifecycleInv, NEW k \in Workers, Discover(k)
  PROVE  LifecycleInv'
<1>1. /\ worker[k].pc = "discover" /\ StoreSame
      /\ lock' = lock /\ used' = used /\ workerCrashes' = workerCrashes /\ conflicted' = conflicted
  BY DEF Discover, WorkerAt, StoreSame, tallies
<1>2. PICK p : p = worker[k].o
  OBVIOUS
<1>3. PICK o : o = journal[p.home]
  OBVIOUS
<1>4. p \in Pointers /\ p.home \in Workspaces /\ p.id # 0 /\ worker[k].fresh = FALSE
      /\ p.id \in 0..used
  <2>1. WorkerShaped(k) /\ OwnIntent(k)
    BY InvFacts DEF WorkerKept
  <2>2. p \in Pointers /\ worker[k].fresh = FALSE /\ p.id \in 0..used
    BY <1>1, <1>2, <2>1 DEF WorkerShaped, OwnIntent
  <2> QED BY <2>2, MarkerTypes
<1>5. CASE o.id = p.id /\ worker[k].todo \subseteq o.parts
  <2>1. o \in Intents /\ Closed(o) /\ o.home = p.home
    BY <1>3, <1>4, <1>5, JournalFacts
  <2>2. PICK r : r = worker[k]
    OBVIOUS
  <2>3. r = [pc |-> r.pc, o |-> r.o, todo |-> r.todo, fresh |-> r.fresh] /\ k \in DOMAIN worker
    BY <2>2, RecordOf, InvFacts
  <2>4. worker' = [worker EXCEPT ![k] = [r EXCEPT !.pc = "lock", !.o = o, !.todo = o.parts]]
    BY <1>2, <1>3, <1>5, <2>2, <2>3 DEF Discover
  <2>5. [r EXCEPT !.pc = "lock", !.o = o, !.todo = o.parts]
          = [pc |-> "lock", o |-> o, todo |-> o.parts, fresh |-> r.fresh]
    <3>1. PICK q : q = [r EXCEPT !.pc = "lock"]
      OBVIOUS
    <3>2. q = [pc |-> "lock", o |-> r.o, todo |-> r.todo, fresh |-> r.fresh]
      BY <2>3, <3>1
    <3>3. PICK t : t = [q EXCEPT !.o = o]
      OBVIOUS
    <3>4. t = [pc |-> "lock", o |-> o, todo |-> r.todo, fresh |-> r.fresh]
      BY <3>2, <3>3
    <3>5. [t EXCEPT !.todo = o.parts] = [pc |-> "lock", o |-> o, todo |-> o.parts, fresh |-> r.fresh]
      BY <3>4
    <3> QED BY <3>1, <3>3, <3>5
  <2>6. StepsTo(k, "lock", o, o.parts, worker[k].fresh)
    BY <2>2, <2>4, <2>5, Stepping, InvFacts
  <2>7. /\ worker'[k].pc = "lock" /\ worker'[k].o = o /\ worker'[k].fresh = FALSE
        /\ worker'[k].todo = o.parts
    BY <1>4, <2>6 DEF StepsTo
  <2>8. WorkerShaped(k)'
    BY <2>1, <2>7, IntentTypes DEF WorkerShaped, Phased, Outstanding, Closed
  <2>9. OwnLocks(k)'
    <3>1. \A v \in Workspaces : lock[v] # k
      BY <1>1, InvFacts DEF Holds, Executes, ExecutionSteps
    <3> QED BY <1>1, <2>7, <3>1 DEF OwnLocks, Holds, Collected, Executes, ExecutionSteps
  <2>10. OwnIntent(k)'
    BY <1>1, <1>3, <1>4, <1>5, <2>1, <2>7
    DEF OwnIntent, Asks, Executes, ExecutionSteps, StoreSame, SameIntent
  <2>11. OwnMarks(k)' /\ OwnFiles(k)'
    BY <2>7 DEF OwnMarks, OwnFiles
  <2>12. WorkerKept(k)' /\ ~Asks(k)'
    BY <2>7, <2>8, <2>9, <2>10, <2>11 DEF WorkerKept, Asks
  <2> QED BY <1>1, <1>2, <1>5, <2>6, <2>12, GoesQuietly
<1>6. CASE ~(o.id = p.id /\ worker[k].todo \subseteq o.parts)
  <2>1. worker' = [worker EXCEPT ![k] = Idle]
    BY <1>2, <1>3, <1>6 DEF Discover
  <2>2. StepsTo(k, "idle", NoIntent, {}, FALSE)
    BY <2>1, Stepping, InvFacts DEF Idle
  <2> QED BY <1>1, <2>2, Abandoning
<1> QED BY <1>5, <1>6

LEMMA CrashKeeps ==
  ASSUME LifecycleInv, NEW k \in Workers, WorkerCrash(k)
  PROVE  LifecycleInv'
<1>1. StoreSame /\ Release(k) /\ used' = used /\ conflicted' = conflicted
      /\ workerCrashes < WorkerCrashes /\ workerCrashes' = workerCrashes + 1
  BY DEF WorkerCrash, StoreSame
<1>2. Leaves(k)
  BY <1>1, Releasing, InvFacts
<1>3. workerCrashes' \in 0..WorkerCrashes
  <2>1. workerCrashes \in 0..WorkerCrashes /\ WorkerCrashes \in Nat
    BY InvFacts, LifecycleAssumption
  <2> QED BY <1>1, <2>1
<1> QED BY <1>1, <1>2, <1>3, LeavesQuietly, InvFacts

\* Like JournalFacts, for what the store keeps of a journal.
LEMMA JournalMarks ==
  ASSUME LifecycleInv, NEW v \in Workspaces, Journaled(v), NEW q, q = journal[v]
  PROVE  /\ q \in Intents /\ q.home = v /\ q.id # 0 /\ Closed(q) /\ Auditable(q)
         /\ q.parts \subseteq Workspaces /\ q.home \in q.parts /\ q.id \in Ids
         /\ (q.phase \in {"ready", "installed"} => AllMarked(q))
<1>1. journal[v].id # 0
  BY JournalIds
<1>2. q \in Intents /\ q.home = v /\ Closed(q) /\ Auditable(q)
  BY <1>1, JournalFacts
<1>3. BarriersKept
  BY DEF LifecycleInv, StoreKept
<1>4. journal[v].phase \in {"ready", "installed"} => AllMarked(journal[v])
  BY <1>3 DEF BarriersKept
<1> QED BY <1>1, <1>2, <1>4, IntentTypes DEF Closed

-----------------------------------------------------------------------------
(* The steps of a worker in control.                                           *)

LEMMA ExecFacts ==
  ASSUME LifecycleInv, NEW k \in Workers, Executes(k), NEW o, o = worker[k].o
  PROVE  /\ o \in Intents /\ Closed(o) /\ Auditable(o) /\ FoundWhole(o)
         /\ o.home \in Workspaces /\ o.parts \subseteq Workspaces /\ o.home \in o.parts
         /\ o.id \in Ids /\ o.id \in 0..used /\ o.id # 0 /\ o.flow \in Flows
         /\ o.home = Home[o.flow]
         /\ journal[o.home] = o /\ Journaled(o.home)
         /\ InControl(k) /\ ~Asks(k) /\ worker[k].fresh \in BOOLEAN
         /\ Phased(k) /\ worker[k].todo \subseteq Outstanding(k)
         /\ (edited = {} => InPlace(o))
         /\ (o.phase \in {"ready", "installed"} => AllMarked(o))
         /\ \A w \in o.parts : lock[w] = k
         /\ \A w \in Workspaces : lock[w] = k <=> w \in o.parts
<1>1. WorkersKept /\ StoreKept /\ InControl(k)
  BY DEF LifecycleInv, InControl
<1>2. /\ o \in Intents /\ Closed(o) /\ o.id \in Ids /\ o.parts \subseteq Workspaces
      /\ o.home \in o.parts /\ o.home \in Workspaces /\ journal[o.home] = o
      /\ \A w \in o.parts : lock[w] = k
  BY <1>1, ControlFacts
<1>3. o.id # 0 /\ o.flow \in Flows /\ o.home = Home[o.flow]
  BY <1>2, IntentTypes DEF Closed
<1>4. Auditable(o) /\ FoundWhole(o) /\ Journaled(o.home)
  BY <1>2, <1>3, JournalFacts
<1>5. worker[k].pc \in ExecutionSteps /\ WorkerKept(k)
  BY <1>1 DEF Executes, WorkersKept
<1>6. /\ o.id \in 0..used /\ ~Asks(k) /\ worker[k].fresh \in BOOLEAN
      /\ Phased(k) /\ worker[k].todo \subseteq Outstanding(k)
  BY <1>5 DEF WorkerKept, OwnIntent, WorkerShaped, Asks, ExecutionSteps
<1>7. edited = {} => InPlace(o)
  BY <1>1, <1>2, <1>4 DEF StoreKept, PlacesKept
<1>8. o.phase \in {"ready", "installed"} => AllMarked(o)
  BY <1>1, <1>2, <1>4 DEF StoreKept, BarriersKept
<1>9. \A w \in Workspaces : lock[w] = k <=> w \in o.parts
  BY <1>5 DEF WorkerKept, OwnLocks, Holds, Executes, ExecutionSteps
<1> QED BY <1>1, <1>2, <1>3, <1>4, <1>6, <1>7, <1>8, <1>9

LEMMA ExecutionKept ==
  ASSUME NEW k \in Workers, NEW pc \in ExecutionSteps, NEW o \in Intents, NEW todo,
         NEW fresh \in BOOLEAN, StepsTo(k, pc, o, todo, fresh), Closed(o), o.id \in 0..used',
         journal'[o.home] = o, \A w \in Workspaces : lock'[w] = k <=> w \in o.parts,
         Phased(k)', todo \subseteq Outstanding(k)', pc = "move" => todo # {},
         OwnMarks(k)', OwnFiles(k)'
  PROVE  WorkerKept(k)' /\ ~Asks(k)'
<1>1. /\ worker'[k].pc = pc /\ worker'[k].o = o /\ worker'[k].todo = todo /\ worker'[k].fresh = fresh
  BY DEF StepsTo
<1>2. Executes(k)' /\ ~Asks(k)' /\ pc \notin {"idle", "capture", "lock", "discover"}
  BY <1>1 DEF Executes, Asks, ExecutionSteps
<1>3. WorkerShaped(k)'
  BY <1>1, <1>2 DEF WorkerShaped, Closed
<1>4. OwnLocks(k)'
  BY <1>1, <1>2 DEF OwnLocks, Holds
<1>5. OwnIntent(k)'
  BY <1>1, <1>2 DEF OwnIntent
<1> QED BY <1>2, <1>3, <1>4, <1>5 DEF WorkerKept

LEMMA ControlGoes ==
  ASSUME LifecycleInv, NEW k \in Workers, InControl(k), Footprint(k), Records', StoreKept',
         WorkerKept(k)', ~Asks(k)', worker'[k].o.id \in {worker[k].o.id, 0}, conflicted' = FALSE
  PROVE  LifecycleInv'
<1>1. StoreKept /\ WorkersKept
  BY DEF LifecycleInv
<1>2. \A j \in Workers \ {k} : Spared(j)
  BY <1>1, FootprintSpares
<1>3. \A j \in Workers \ {k} : Asks(j) => worker'[k].o.id # worker[j].o.id
  BY <1>1, KnownIds
<1>4. WorkersKept'
  BY <1>1, <1>2, <1>3, WorkersGo
<1> QED BY <1>4 DEF LifecycleInv, PreparedFinishes

\* A conflict before anything is ready, or after an edit.
LEMMA ConflictKeeps ==
  ASSUME LifecycleInv, StoreSame, NEW k \in Workers, Conflict(k),
         used' = used, workerCrashes' = workerCrashes,
         edited = {} => worker[k].o.phase = "staging"
  PROVE  LifecycleInv'
<1>1. Leaves(k)
  BY InvFacts, Releasing DEF Conflict
<1>2. conflicted' = FALSE
  BY InvFacts DEF Conflict
<1> QED BY <1>1, <1>2, InvFacts, LeavesQuietly

\* A step within control that changes nothing that survives.
LEMMA ControlGoesQuietly ==
  ASSUME LifecycleInv, StoreSame, NEW k \in Workers, Executes(k), NEW pc \in ExecutionSteps,
         NEW todo, StepsTo(k, pc, worker[k].o, todo, worker[k].fresh),
         lock' = lock, used' = used, workerCrashes' = workerCrashes, conflicted' = conflicted,
         Phased(k)', todo \subseteq Outstanding(k)', pc = "move" => todo # {},
         OwnMarks(k)', OwnFiles(k)'
  PROVE  LifecycleInv'
<1>1. PICK o : o = worker[k].o
  OBVIOUS
<1>2. /\ o \in Intents /\ Closed(o) /\ o.id \in 0..used /\ journal[o.home] = o
      /\ worker[k].fresh \in BOOLEAN
      /\ \A w \in Workspaces : lock[w] = k <=> w \in o.parts
  BY <1>1, ExecFacts
<1>3. StepsTo(k, pc, o, todo, worker[k].fresh)
  BY <1>1
<1>4. o.id \in 0..used' /\ journal'[o.home] = o /\ \A w \in Workspaces : lock'[w] = k <=> w \in o.parts
  BY <1>2 DEF StoreSame
<1>5. WorkerKept(k)' /\ ~Asks(k)'
  BY <1>2, <1>3, <1>4, ExecutionKept
<1> QED BY <1>1, <1>3, <1>5, GoesQuietly

LEMMA RereadKeeps ==
  ASSUME LifecycleInv, NEW k \in Workers, Reread(k)
  PROVE  LifecycleInv'
<1>1. /\ worker[k].pc = "lock" /\ worker[k].todo = {} /\ ~worker[k].fresh /\ StoreSame
      /\ used' = used /\ workerCrashes' = workerCrashes /\ conflicted' = conflicted
  BY DEF Reread, WorkerAt, StoreSame, tallies
<1>2. PICK p : p = worker[k].o
  OBVIOUS
<1>3. PICK o : o = journal[p.home]
  OBVIOUS
<1>4. WorkerShaped(k) /\ OwnLocks(k) /\ OwnIntent(k)
  BY InvFacts DEF WorkerKept
<1>5. /\ p \in Intents /\ p.home \in Workspaces /\ p.id # 0 /\ p.id \in 0..used
      /\ worker[k].fresh \in BOOLEAN
  <2>1. p \in Intents /\ p.id \in 0..used /\ worker[k].fresh \in BOOLEAN
    BY <1>1, <1>2, <1>4 DEF WorkerShaped, OwnIntent
  <2> QED BY <2>1, IntentTypes
<1>6. \A w \in Workspaces : lock[w] = k <=> w \in p.parts
  BY <1>1, <1>2, <1>4 DEF OwnLocks, Holds, Collected, Executes, ExecutionSteps
<1>7. CASE o.id = p.id
  <2>1. o \in Intents /\ Closed(o) /\ o.home = p.home /\ SameIntent(o, p)
    BY <1>1, <1>2, <1>3, <1>4, <1>5, <1>7, JournalFacts DEF OwnIntent
  <2>2. o.parts = p.parts /\ o.home \in o.parts
    BY <2>1 DEF SameIntent, Closed
  <2>3. PICK pc : pc = IF o.phase = "finishing" THEN "clean" ELSE "mark"
    OBVIOUS
  <2>4. PICK todo : todo = IF o.phase = "finishing" THEN Backups(o) ELSE o.parts \ {o.home}
    OBVIOUS
  <2>5. PICK r : r = worker[k]
    OBVIOUS
  <2>6. r = [pc |-> r.pc, o |-> r.o, todo |-> r.todo, fresh |-> r.fresh] /\ k \in DOMAIN worker
    BY <2>5, RecordOf, InvFacts
  <2>7. lock' = lock /\ worker' = [worker EXCEPT ![k].o = o, ![k].pc = pc, ![k].todo = todo]
    BY <1>2, <1>3, <1>7, <2>3, <2>4 DEF Reread
  <2>8. worker' = [worker EXCEPT ![k] = [r EXCEPT !.o = o, !.pc = pc, !.todo = todo]]
    BY <2>5, <2>6, <2>7
  <2>9. [r EXCEPT !.o = o, !.pc = pc, !.todo = todo]
          = [pc |-> pc, o |-> o, todo |-> todo, fresh |-> r.fresh]
    <3>1. PICK q : q = [r EXCEPT !.o = o]
      OBVIOUS
    <3>2. q = [pc |-> r.pc, o |-> o, todo |-> r.todo, fresh |-> r.fresh]
      BY <2>6, <3>1
    <3>3. PICK t : t = [q EXCEPT !.pc = pc]
      OBVIOUS
    <3>4. t = [pc |-> pc, o |-> o, todo |-> r.todo, fresh |-> r.fresh]
      BY <3>2, <3>3
    <3>5. [t EXCEPT !.todo = todo] = [pc |-> pc, o |-> o, todo |-> todo, fresh |-> r.fresh]
      BY <3>4
    <3> QED BY <3>1, <3>3, <3>5
  <2>10. StepsTo(k, pc, o, todo, worker[k].fresh)
    BY <2>5, <2>8, <2>9, Stepping, InvFacts
  <2>11. /\ worker'[k].pc = pc /\ worker'[k].o = o /\ worker'[k].fresh = worker[k].fresh
         /\ worker'[k].todo = todo
    BY <2>10 DEF StepsTo
  <2>12. Phased(k)' /\ todo \subseteq Outstanding(k)'
    BY <2>1, <2>3, <2>4, <2>11, IntentTypes DEF Phased, Outstanding, Phases
  <2>13. OwnMarks(k)' /\ OwnFiles(k)'
    BY <2>2, <2>3, <2>4, <2>11 DEF OwnMarks, OwnFiles
  <2>14. /\ o.id \in 0..used' /\ journal'[o.home] = o /\ pc \in ExecutionSteps /\ pc # "move"
         /\ \A w \in Workspaces : lock'[w] = k <=> w \in o.parts
    BY <1>1, <1>3, <1>5, <1>6, <1>7, <2>1, <2>2, <2>3, <2>7 DEF StoreSame, ExecutionSteps
  <2>15. WorkerKept(k)' /\ ~Asks(k)'
    BY <1>5, <2>1, <2>10, <2>12, <2>13, <2>14, ExecutionKept
  <2> QED BY <1>1, <1>2, <1>7, <2>7, <2>10, <2>15, GoesQuietly
<1>8. CASE o.id # p.id
  <2>1. Release(k)
    BY <1>2, <1>3, <1>8 DEF Reread
  <2>2. Leaves(k)
    BY <2>1, InvFacts, Releasing
  <2> QED BY <1>1, <2>2, InvFacts, LeavesQuietly
<1> QED BY <1>7, <1>8

LEMMA MarkedKeeps ==
  ASSUME LifecycleInv, NEW k \in Workers, Marked(k)
  PROVE  LifecycleInv'
<1>1. /\ worker[k].pc = "mark" /\ worker[k].todo = {} /\ Executes(k) /\ StoreSame
      /\ used' = used /\ workerCrashes' = workerCrashes
  BY DEF Marked, WorkerAt, StoreSame, tallies, Executes, ExecutionSteps
<1>2. PICK o : o = worker[k].o
  OBVIOUS
<1>3. /\ o \in Intents /\ o.phase \in {"staging", "ready", "installed"}
      /\ (o.phase \in {"ready", "installed"} => AllMarked(o))
  BY <1>1, <1>2, ExecFacts DEF Phased
<1>4. \A w \in o.parts \ {o.home} : MarkedFor(o, w)
  BY <1>1, <1>2, InvFacts DEF WorkerKept, OwnMarks
<1>5. CASE barrier[o.home] = NoBarrier /\ (o.phase = "staging" => Unchanged(o))
  <2>1. AllMarked(o)
    BY <1>4, <1>5 DEF AllMarked
  <2>2. PICK pc, todo :
           /\ pc \in {"prepare", "approve", "check"}
           /\ WorkerGoto(k, pc, todo) /\ lock' = lock /\ conflicted' = conflicted
           /\ pc = "prepare" => o.phase = "staging" /\ todo = Staged(o)
           /\ pc = "approve" => o.phase = "ready" /\ todo = {}
           /\ pc = "check" => o.phase = "installed" /\ todo = {}
    <3>1. CASE o.phase = "staging"
      <4>1. WorkerGoto(k, "prepare", Staged(o)) /\ lock' = lock /\ conflicted' = conflicted
        BY <1>2, <1>5, <3>1 DEF Marked, Staged
      <4> QED BY <3>1, <4>1
    <3>2. CASE o.phase = "ready"
      <4>1. WorkerGoto(k, "approve", {}) /\ lock' = lock /\ conflicted' = conflicted
        BY <1>2, <1>5, <3>2 DEF Marked
      <4> QED BY <3>2, <4>1
    <3>3. CASE o.phase = "installed"
      <4>1. WorkerGoto(k, "check", {}) /\ lock' = lock /\ conflicted' = conflicted
        BY <1>2, <1>5, <3>3 DEF Marked
      <4> QED BY <3>3, <4>1
    <3> QED BY <1>3, <3>1, <3>2, <3>3
  <2>3. StepsTo(k, pc, worker[k].o, todo, worker[k].fresh)
    BY <2>2, InvFacts, Going
  <2>4. worker'[k].pc = pc /\ worker'[k].o = o /\ worker'[k].todo = todo
    BY <1>2, <2>3 DEF StepsTo
  <2>5. Phased(k)' /\ todo \subseteq Outstanding(k)'
    BY <2>2, <2>4 DEF Phased, Outstanding
  <2>6. AllMarked(o)'
    BY <1>1, <2>1 DEF AllMarked, MarkedFor, StoreSame
  <2>7. OwnMarks(k)' /\ OwnFiles(k)'
    BY <2>2, <2>4, <2>6 DEF OwnMarks, OwnFiles
  <2>8. pc \in ExecutionSteps /\ pc # "move"
    BY <2>2 DEF ExecutionSteps
  <2> QED BY <1>1, <2>2, <2>3, <2>5, <2>7, <2>8, ControlGoesQuietly
<1>6. CASE ~(barrier[o.home] = NoBarrier /\ (o.phase = "staging" => Unchanged(o)))
  <2>1. Conflict(k)
    BY <1>2, <1>6 DEF Marked
  <2>2. worker[k].o.phase = "staging"
    BY <1>2, <1>3, <1>6 DEF AllMarked
  <2> QED BY <1>1, <2>1, <2>2, ConflictKeeps
<1> QED BY <1>5, <1>6

LEMMA ApproveKeeps ==
  ASSUME LifecycleInv, NEW k \in Workers, Approve(k)
  PROVE  LifecycleInv'
<1>1. /\ worker[k].pc = "approve" /\ Executes(k) /\ StoreSame
      /\ used' = used /\ workerCrashes' = workerCrashes
  BY DEF Approve, WorkerAt, StoreSame, tallies, Executes, ExecutionSteps
<1>2. PICK o : o = worker[k].o
  OBVIOUS
<1>3. o \in Intents /\ o.phase = "ready" /\ (edited = {} => InPlace(o))
  BY <1>1, <1>2, ExecFacts DEF Phased
<1>4. CASE Progressing(o)
  <2>1. WorkerGoto(k, "look", Targets(o)) /\ lock' = lock /\ conflicted' = conflicted
    BY <1>2, <1>4 DEF Approve
  <2>2. StepsTo(k, "look", worker[k].o, Targets(o), worker[k].fresh)
    BY <2>1, InvFacts, Going
  <2>3. worker'[k].pc = "look" /\ worker'[k].o = o /\ worker'[k].todo = Targets(o)
    BY <1>2, <2>2 DEF StepsTo
  <2>4. Phased(k)' /\ Targets(o) \subseteq Outstanding(k)'
    BY <1>3, <2>3 DEF Phased, Outstanding
  <2>5. OwnMarks(k)' /\ OwnFiles(k)'
    BY <2>3 DEF OwnMarks, OwnFiles
  <2>6. "look" \in ExecutionSteps
    BY DEF ExecutionSteps
  <2> QED BY <1>1, <2>1, <2>2, <2>4, <2>5, <2>6, ControlGoesQuietly
<1>5. CASE ~Progressing(o)
  <2>1. Conflict(k)
    BY <1>2, <1>5 DEF Approve
  <2>2. InPlace(o) => Progressing(o)
    BY <1>3 DEF InPlace, Progressing, ToMove, Moved
  <2> QED BY <1>1, <1>3, <1>5, <2>1, <2>2, ConflictKeeps
<1> QED BY <1>4, <1>5

\* The file a worker is about to look at or to move.
LEMMA NextTarget ==
  ASSUME LifecycleInv, NEW k \in Workers, worker[k].pc \in {"look", "move"}, worker[k].todo # {},
         NEW o, o = worker[k].o, NEW x, x = FirstFile(worker[k].todo)
  PROVE  /\ x \in worker[k].todo /\ x \in Targets(o) /\ x \in Files /\ Where(x) \in o.parts
         /\ x \in FilesOf(o.flow) /\ worker[k].todo \subseteq Targets(o) /\ o.phase = "ready"
         /\ o.pre[x] # After(o, x)
<1>1. Executes(k)
  BY DEF Executes, ExecutionSteps
<1>2. /\ o \in Intents /\ Closed(o) /\ Auditable(o) /\ o.phase = "ready"
      /\ worker[k].todo \subseteq Targets(o)
  BY <1>1, ExecFacts DEF Phased, Outstanding
<1>3. worker[k].todo \in SUBSET Files
  BY <1>2, TargetPlaces
<1>4. x \in worker[k].todo
  BY <1>3, FirstIn
<1> QED BY <1>2, <1>4, TargetPlaces, TargetContents

LEMMA LookKeeps ==
  ASSUME LifecycleInv, NEW k \in Workers, Look(k)
  PROVE  LifecycleInv'
<1>1. /\ worker[k].pc = "look" /\ worker[k].todo # {} /\ Executes(k) /\ StoreSame
      /\ used' = used /\ workerCrashes' = workerCrashes
  BY DEF Look, WorkerAt, StoreSame, tallies, Executes, ExecutionSteps
<1>2. PICK o : o = worker[k].o
  OBVIOUS
<1>3. PICK x : x = FirstFile(worker[k].todo)
  OBVIOUS
<1>4. /\ x \in worker[k].todo /\ x \in Targets(o) /\ worker[k].todo \subseteq Targets(o)
      /\ o.phase = "ready" /\ o.pre[x] # After(o, x)
  BY <1>1, <1>2, <1>3, NextTarget
<1>5. edited = {} => \A y \in Targets(o) \ worker[k].todo : Moved(o, y)
  BY <1>1, <1>2, InvFacts DEF WorkerKept, OwnFiles
<1>6. CASE disk[x] = o.pre[x] /\ private[o.id][x] = After(o, x)
  <2>1. WorkerGoto(k, "move", worker[k].todo) /\ lock' = lock /\ conflicted' = conflicted
    BY <1>2, <1>3, <1>4, <1>6 DEF Look
  <2>2. StepsTo(k, "move", worker[k].o, worker[k].todo, worker[k].fresh)
    BY <2>1, InvFacts, Going
  <2>3. worker'[k].pc = "move" /\ worker'[k].o = o /\ worker'[k].todo = worker[k].todo
    BY <1>2, <2>2 DEF StepsTo
  <2>4. Phased(k)' /\ worker[k].todo \subseteq Outstanding(k)'
    BY <1>4, <2>3 DEF Phased, Outstanding
  <2>5. OwnMarks(k)'
    BY <2>3 DEF OwnMarks
  <2>6. OwnFiles(k)'
    BY <1>1, <1>3, <1>5, <1>6, <2>3 DEF OwnFiles, StoreSame, Moved
  <2>7. "move" \in ExecutionSteps
    BY DEF ExecutionSteps
  <2> QED BY <1>1, <2>1, <2>2, <2>4, <2>5, <2>6, <2>7, ControlGoesQuietly
<1>7. CASE disk[x] = After(o, x) /\ private[o.id][x] = o.pre[x]
  <2>1. Remaining(k, worker[k].todo \ {x}) /\ lock' = lock /\ conflicted' = conflicted
    BY <1>2, <1>3, <1>4, <1>7 DEF Look
  <2>2. StepsTo(k, "look", worker[k].o, worker[k].todo \ {x}, worker[k].fresh)
    <3>1. StepsTo(k, worker[k].pc, worker[k].o, worker[k].todo \ {x}, worker[k].fresh)
      BY <2>1, InvFacts, GoingOn
    <3> QED BY <1>1, <3>1
  <2>3. worker'[k].pc = "look" /\ worker'[k].o = o /\ worker'[k].todo = worker[k].todo \ {x}
    BY <1>2, <2>2 DEF StepsTo
  <2>4. Phased(k)' /\ worker[k].todo \ {x} \subseteq Outstanding(k)'
    BY <1>4, <2>3 DEF Phased, Outstanding
  <2>5. OwnMarks(k)'
    BY <2>3 DEF OwnMarks
  <2>6. OwnFiles(k)'
    <3>1. Moved(o, x)
      BY <1>7 DEF Moved
    <3>2. edited = {} => \A y \in Targets(o) \ (worker[k].todo \ {x}) : Moved(o, y)
      BY <1>5, <3>1
    <3> QED BY <1>1, <2>3, <3>2 DEF OwnFiles, StoreSame, Moved
  <2>7. "look" \in ExecutionSteps
    BY DEF ExecutionSteps
  <2> QED BY <1>1, <2>1, <2>2, <2>4, <2>5, <2>6, <2>7, ControlGoesQuietly
<1>8. CASE /\ ~(disk[x] = o.pre[x] /\ private[o.id][x] = After(o, x))
           /\ ~(disk[x] = After(o, x) /\ private[o.id][x] = o.pre[x])
  <2>1. Conflict(k)
    BY <1>2, <1>3, <1>8 DEF Look
  <2>2. edited # {}
    <3>1. edited = {} => InPlace(o)
      BY <1>1, <1>2, ExecFacts
    <3> QED BY <1>4, <1>8, <3>1 DEF InPlace, ToMove, Moved
  <2> QED BY <1>1, <2>1, <2>2, ConflictKeeps
<1> QED BY <1>6, <1>7, <1>8

LEMMA CleanedKeeps ==
  ASSUME LifecycleInv, NEW k \in Workers, Cleaned(k)
  PROVE  LifecycleInv'
<1>1. /\ worker[k].pc = "clean" /\ Executes(k) /\ StoreSame
      /\ lock' = lock /\ used' = used /\ workerCrashes' = workerCrashes /\ conflicted' = conflicted
  BY DEF Cleaned, WorkerAt, StoreSame, tallies, Executes, ExecutionSteps
<1>2. PICK o : o = worker[k].o
  OBVIOUS
<1>3. PICK todo : todo = o.parts \ {o.home}
  OBVIOUS
<1>4. /\ o \in Intents /\ o.phase = "finishing" /\ journal[o.home] = o
  BY <1>1, <1>2, ExecFacts DEF Phased
<1>5. StepsTo(k, "unmark", worker[k].o, todo, worker[k].fresh)
  BY <1>2, <1>3, InvFacts, Going DEF Cleaned
<1>6. worker'[k].pc = "unmark" /\ worker'[k].o = o /\ worker'[k].todo = todo
  BY <1>2, <1>5 DEF StepsTo
<1>7. Phased(k)' /\ todo \subseteq Outstanding(k)'
  BY <1>3, <1>4, <1>6 DEF Phased, Outstanding
<1>8. \A w \in Workspaces : barrier[w] = Pointer(o) => w \in todo
  <2>1. ASSUME NEW w \in Workspaces, barrier[w] = Pointer(o) PROVE w \in todo
    <3>1. barrier[w] # NoBarrier /\ barrier[w].home = o.home
      BY <1>4, <2>1, IntentTypes
    <3>2. w \in o.parts
      BY <1>4, <3>1 DEF LifecycleInv, StoreKept, BarriersKept, BarrierHasJournal
    <3>3. w # o.home
      BY <3>1 DEF LifecycleInv, StoreKept, BarriersKept
    <3> QED BY <1>3, <3>2, <3>3
  <2> QED BY <2>1
<1>9. OwnMarks(k)' /\ OwnFiles(k)'
  BY <1>1, <1>6, <1>8 DEF OwnMarks, OwnFiles, StoreSame
<1>10. "unmark" \in ExecutionSteps
  BY DEF ExecutionSteps
<1> QED BY <1>1, <1>5, <1>7, <1>9, <1>10, ControlGoesQuietly

\* A step of an executing worker that keeps its locks.
LEMMA ExecutionGoes ==
  ASSUME LifecycleInv, NEW k \in Workers, Executes(k), Footprint(k), StoreKept',
         NEW pc \in ExecutionSteps, NEW o \in Intents, NEW todo,
         StepsTo(k, pc, o, todo, worker[k].fresh), SameIntent(o, worker[k].o),
         journal'[o.home] = o, lock' = lock, conflicted' = conflicted,
         Phased(k)', todo \subseteq Outstanding(k)', pc = "move" => todo # {},
         OwnMarks(k)', OwnFiles(k)'
  PROVE  LifecycleInv'
<1>1. PICK p : p = worker[k].o
  OBVIOUS
<1>2. /\ Closed(p) /\ p.id \in 0..used /\ worker[k].fresh \in BOOLEAN /\ InControl(k)
      /\ \A w \in Workspaces : lock[w] = k <=> w \in p.parts
  BY <1>1, ExecFacts
<1>3. o.id = p.id /\ o.parts = p.parts
  BY <1>1 DEF SameIntent
<1>4. Closed(o)
  BY <1>1, <1>2, SameTargets
<1>5. o.id \in 0..used' /\ \A w \in Workspaces : lock'[w] = k <=> w \in o.parts
  BY <1>2, <1>3 DEF Footprint
<1>6. WorkerKept(k)' /\ ~Asks(k)'
  BY <1>2, <1>4, <1>5, ExecutionKept
<1>7. Records' /\ worker'[k].o.id \in {worker[k].o.id, 0}
  BY <1>1, <1>3 DEF StepsTo
<1>8. conflicted' = FALSE
  BY InvFacts
<1> QED BY <1>2, <1>6, <1>7, <1>8, ControlGoes

\* Only barriers change.
LEMMA BarriersChange ==
  ASSUME StoreKept, barrier' \in [Workspaces -> Pointers \cup {NoBarrier}], BarriersKept',
         disk' = disk, private' = private, journal' = journal, lock' = lock, tallies' = tallies,
         conflicted' = conflicted
  PROVE  StoreKept'
<1>1. used' = used /\ workerCrashes' = workerCrashes /\ edited' = edited /\ deleted' = deleted
  BY DEF tallies
<1>2. StoreTypeOK'
  BY <1>1 DEF StoreKept, StoreTypeOK
<1>3. JournalsKept'
  BY <1>1 DEF StoreKept, JournalsKept, Journaled, Closed, Auditable, FoundWhole
<1>4. PrivateKept'
  BY <1>1 DEF StoreKept, PrivateKept, Journaled
<1>5. PlacesKept'
  BY <1>1 DEF StoreKept, PlacesKept, InPlace, Journaled, ToMove, Moved
<1>6. FlowsKept'
  BY <1>1 DEF StoreKept, FlowsKept, Installing, FlowWhole, Journaled
<1>7. NothingDestroyed'
  BY <1>1 DEF StoreKept, NothingDestroyed
<1> QED BY <1>2, <1>3, <1>4, <1>5, <1>6, <1>7 DEF StoreKept

LEMMA InstallMarkerKeeps ==
  ASSUME LifecycleInv, NEW k \in Workers, InstallMarker(k)
  PROVE  LifecycleInv'
<1>1. /\ worker[k].pc = "mark" /\ worker[k].todo # {} /\ Executes(k)
      /\ disk' = disk /\ private' = private /\ journal' = journal /\ tallies' = tallies
      /\ used' = used /\ workerCrashes' = workerCrashes /\ edited' = edited /\ deleted' = deleted
  BY DEF InstallMarker, WorkerAt, tallies, Executes, ExecutionSteps
<1>2. PICK o : o = worker[k].o
  OBVIOUS
<1>3. PICK w : w = Least(worker[k].todo)
  OBVIOUS
<1>4. /\ o \in Intents /\ o.parts \subseteq Workspaces /\ o.home \in o.parts
      /\ o.home \in Workspaces /\ journal[o.home] = o
      /\ o.phase \in {"staging", "ready", "installed"}
      /\ (o.phase \in {"ready", "installed"} => AllMarked(o))
      /\ worker[k].todo \subseteq o.parts \ {o.home}
  BY <1>1, <1>2, ExecFacts DEF Phased, Outstanding
<1>5. w \in worker[k].todo /\ w \in o.parts /\ w # o.home /\ w \in Workspaces
  <2>1. worker[k].todo \in SUBSET Workspaces
    BY <1>4
  <2> QED BY <1>1, <1>3, <1>4, <2>1, LeastIn
<1>6. CASE journal[w] = NoIntent /\ barrier[w] \in {NoBarrier, Pointer(o)}
  <2>1. PICK p : p = Pointer(o)
    OBVIOUS
  <2>2. p \in Pointers /\ p # NoBarrier /\ p.id = o.id /\ p.home = o.home
    BY <1>4, <2>1, IntentTypes
  <2>3. /\ barrier' = [barrier EXCEPT ![w] = p] /\ Remaining(k, worker[k].todo \ {w})
        /\ lock' = lock /\ conflicted' = conflicted
    BY <1>2, <1>3, <1>6, <2>1 DEF InstallMarker
  <2>4. barrier \in [Workspaces -> Pointers \cup {NoBarrier}]
    BY InvFacts DEF StoreTypeOK
  <2>5. /\ barrier' \in [Workspaces -> Pointers \cup {NoBarrier}] /\ barrier'[w] = p
        /\ \A v \in Workspaces \ {w} : barrier'[v] = barrier[v]
    BY <1>5, <2>2, <2>3, <2>4
  <2>6. BarriersKept /\ JournalsKept /\ StoreKept
    BY DEF LifecycleInv, StoreKept
  <2>7. BarrierHasJournal'
    BY <1>1, <1>4, <1>5, <2>2, <2>5, <2>6 DEF BarriersKept, BarrierHasJournal
  <2>8. \A v \in Workspaces : barrier'[v] # NoBarrier => barrier'[v].home # v
    BY <1>5, <2>2, <2>5, <2>6 DEF BarriersKept
  <2>9. ASSUME NEW v \in Workspaces, Journaled(v), journal[v].phase \in {"ready", "installed"}
        PROVE  AllMarked(journal[v])'
    <3>1. PICK q : q = journal[v]
      OBVIOUS
    <3>2. /\ q.home = v /\ AllMarked(q) /\ q \in Intents
      BY <2>9, <3>1, JournalMarks
    <3>3. q.parts \subseteq Workspaces /\ v # w /\ Pointer(q) # NoBarrier
      BY <1>6, <2>9, <3>2, IntentTypes DEF Journaled
    <3>4. barrier'[q.home] = NoBarrier
      BY <2>5, <3>2, <3>3 DEF AllMarked
    <3>5. \A u \in q.parts \ {q.home} : MarkedFor(q, u)'
      <4>1. SUFFICES ASSUME NEW u \in q.parts \ {q.home} PROVE MarkedFor(q, u)'
        OBVIOUS
      <4>2. journal[u] = NoIntent /\ barrier[u] = Pointer(q)
        BY <3>2 DEF AllMarked, MarkedFor
      <4>3. u = w => Pointer(q) = p
        BY <1>6, <2>1, <3>3, <4>2
      <4>4. barrier'[u] = Pointer(q)
        BY <2>5, <3>3, <4>2, <4>3
      <4> QED BY <1>1, <4>2, <4>4 DEF MarkedFor
    <3>6. AllMarked(q)'
      BY <3>4, <3>5 DEF AllMarked
    <3> QED BY <1>1, <3>1, <3>6
  <2>10. BarriersKept'
    BY <1>1, <2>7, <2>8, <2>9 DEF BarriersKept, Journaled
  <2>11. StoreKept'
    BY <1>1, <2>3, <2>5, <2>6, <2>10, BarriersChange
  <2>12. StepsTo(k, "mark", o, worker[k].todo \ {w}, worker[k].fresh)
    <3>1. StepsTo(k, worker[k].pc, worker[k].o, worker[k].todo \ {w}, worker[k].fresh)
      BY <2>3, InvFacts, GoingOn
    <3> QED BY <1>1, <1>2, <3>1
  <2>13. /\ worker'[k].pc = "mark" /\ worker'[k].o = o /\ worker'[k].todo = worker[k].todo \ {w}
         /\ \A j \in Workers \ {k} : worker'[j] = worker[j]
    BY <2>12 DEF StepsTo
  <2>14. Footprint(k)
    BY <1>1, <1>2, <1>5, <2>1, <2>3, <2>5, <2>13 DEF Footprint
  <2>15. Phased(k)' /\ worker[k].todo \ {w} \subseteq Outstanding(k)'
    BY <1>4, <2>13 DEF Phased, Outstanding
  <2>16. OwnMarks(k)'
    <3>1. \A v \in o.parts \ {o.home} : v \in worker[k].todo \/ MarkedFor(o, v)
      BY <1>1, <1>2, InvFacts DEF WorkerKept, OwnMarks
    <3>2. \A v \in o.parts \ {o.home} : v \in worker[k].todo \ {w} \/ MarkedFor(o, v)'
      BY <1>1, <1>4, <1>6, <2>1, <2>5, <3>1 DEF MarkedFor
    <3> QED BY <2>13, <3>2 DEF OwnMarks
  <2>17. OwnFiles(k)'
    BY <2>13 DEF OwnFiles
  <2>18. SameIntent(o, worker[k].o) /\ journal'[o.home] = o /\ "mark" \in ExecutionSteps
    BY <1>1, <1>2, <1>4 DEF SameIntent, ExecutionSteps
  <2> QED BY <1>1, <1>4, <2>3, <2>11, <2>12, <2>14, <2>15, <2>16, <2>17, <2>18, ExecutionGoes
<1>7. CASE ~(journal[w] = NoIntent /\ barrier[w] \in {NoBarrier, Pointer(o)})
  <2>1. Conflict(k) /\ barrier' = barrier
    BY <1>2, <1>3, <1>7 DEF InstallMarker
  <2>2. o.phase = "staging"
    BY <1>4, <1>5, <1>7 DEF AllMarked, MarkedFor
  <2> QED BY <1>1, <1>2, <2>1, <2>2, ConflictKeeps DEF StoreSame
<1> QED BY <1>6, <1>7

LEMMA RemoveMarkerKeeps ==
  ASSUME LifecycleInv, NEW k \in Workers, RemoveMarker(k)
  PROVE  LifecycleInv'
<1>1. /\ worker[k].pc = "unmark" /\ worker[k].todo # {} /\ Executes(k)
      /\ disk' = disk /\ private' = private /\ journal' = journal /\ tallies' = tallies
      /\ lock' = lock /\ conflicted' = conflicted
      /\ used' = used /\ edited' = edited /\ deleted' = deleted
  BY DEF RemoveMarker, WorkerAt, tallies, Executes, ExecutionSteps
<1>2. PICK o : o = worker[k].o
  OBVIOUS
<1>3. PICK w : w = Least(worker[k].todo)
  OBVIOUS
<1>4. /\ o \in Intents /\ o.parts \subseteq Workspaces /\ o.home \in o.parts
      /\ o.home \in Workspaces /\ journal[o.home] = o /\ o.phase = "finishing"
      /\ worker[k].todo \subseteq o.parts \ {o.home}
  BY <1>1, <1>2, ExecFacts DEF Phased, Outstanding
<1>5. w \in worker[k].todo /\ w \in o.parts /\ w # o.home /\ w \in Workspaces
  <2>1. worker[k].todo \in SUBSET Workspaces
    BY <1>4
  <2> QED BY <1>1, <1>3, <1>4, <2>1, LeastIn
<1>6. PICK m : m = IF barrier[w] = Pointer(o) THEN NoBarrier ELSE barrier[w]
  OBVIOUS
<1>7. barrier' = [barrier EXCEPT ![w] = m] /\ Remaining(k, worker[k].todo \ {w})
  BY <1>2, <1>3, <1>6 DEF RemoveMarker
<1>8. barrier \in [Workspaces -> Pointers \cup {NoBarrier}]
  BY InvFacts DEF StoreTypeOK
<1>9. /\ barrier' \in [Workspaces -> Pointers \cup {NoBarrier}] /\ barrier'[w] = m
      /\ \A v \in Workspaces \ {w} : barrier'[v] = barrier[v]
      /\ \A v \in Workspaces : barrier'[v] # NoBarrier => barrier'[v] = barrier[v]
      /\ barrier'[w] # Pointer(o)
  <2>1. Pointer(o) # NoBarrier
    BY <1>4, IntentTypes
  <2> QED BY <1>5, <1>6, <1>7, <1>8, <2>1
<1>10. BarriersKept /\ JournalsKept /\ StoreKept
  BY DEF LifecycleInv, StoreKept
<1>11. BarrierHasJournal'
  BY <1>1, <1>9, <1>10 DEF BarriersKept, BarrierHasJournal
<1>12. \A v \in Workspaces : barrier'[v] # NoBarrier => barrier'[v].home # v
  BY <1>9, <1>10 DEF BarriersKept
<1>13. ASSUME NEW v \in Workspaces, Journaled(v), journal[v].phase \in {"ready", "installed"}
       PROVE  AllMarked(journal[v])'
  <2>1. PICK q : q = journal[v]
    OBVIOUS
  <2>2. /\ q.home = v /\ AllMarked(q) /\ q \in Intents
    BY <1>13, <2>1, JournalMarks
  <2>3. q.parts \subseteq Workspaces /\ q.home # o.home
    BY <1>4, <1>13, <2>1, <2>2, IntentTypes
  <2>4. Pointer(q) # Pointer(o)
    BY <1>4, <2>2, <2>3, IntentTypes
  <2>5. barrier'[q.home] = NoBarrier
    BY <1>9, <2>2 DEF AllMarked
  <2>6. \A u \in q.parts \ {q.home} : MarkedFor(q, u)'
    <3>1. SUFFICES ASSUME NEW u \in q.parts \ {q.home} PROVE MarkedFor(q, u)'
      OBVIOUS
    <3>2. journal[u] = NoIntent /\ barrier[u] = Pointer(q)
      BY <2>2 DEF AllMarked, MarkedFor
    <3>3. barrier'[u] = Pointer(q)
      BY <1>6, <1>9, <2>3, <2>4, <3>2
    <3> QED BY <1>1, <3>2, <3>3 DEF MarkedFor
  <2>7. AllMarked(q)'
    BY <2>5, <2>6 DEF AllMarked
  <2> QED BY <1>1, <2>1, <2>7
<1>14. BarriersKept'
  BY <1>1, <1>11, <1>12, <1>13 DEF BarriersKept, Journaled
<1>15. StoreKept'
  BY <1>1, <1>9, <1>10, <1>14, BarriersChange
<1>16. StepsTo(k, "unmark", o, worker[k].todo \ {w}, worker[k].fresh)
  <2>1. StepsTo(k, worker[k].pc, worker[k].o, worker[k].todo \ {w}, worker[k].fresh)
    BY <1>7, InvFacts, GoingOn
  <2> QED BY <1>1, <1>2, <2>1
<1>17. /\ worker'[k].pc = "unmark" /\ worker'[k].o = o /\ worker'[k].todo = worker[k].todo \ {w}
       /\ \A j \in Workers \ {k} : worker'[j] = worker[j]
  BY <1>16 DEF StepsTo
<1>18. Footprint(k)
  <2>1. barrier'[w] = barrier[w] \/ barrier'[w] = NoBarrier
    BY <1>6, <1>9
  <2> QED BY <1>1, <1>2, <1>5, <1>9, <1>17, <2>1 DEF Footprint
<1>19. Phased(k)' /\ worker[k].todo \ {w} \subseteq Outstanding(k)'
  BY <1>4, <1>17 DEF Phased, Outstanding
<1>20. OwnMarks(k)'
  <2>1. \A v \in Workspaces : barrier[v] = Pointer(o) => v \in worker[k].todo
    BY <1>1, <1>2, InvFacts DEF WorkerKept, OwnMarks
  <2>2. \A v \in Workspaces : barrier'[v] = Pointer(o) => v \in worker[k].todo \ {w}
    BY <1>9, <2>1
  <2> QED BY <1>17, <2>2 DEF OwnMarks
<1>21. OwnFiles(k)'
  BY <1>17 DEF OwnFiles
<1>22. SameIntent(o, worker[k].o) /\ journal'[o.home] = o /\ "unmark" \in ExecutionSteps
  BY <1>1, <1>2, <1>4 DEF SameIntent, ExecutionSteps
<1> QED BY <1>1, <1>4, <1>15, <1>16, <1>18, <1>19, <1>20, <1>21, <1>22, ExecutionGoes

\* One file of an operation's private copies changes, while it is prepared or
\* cleaned up.
Keeps(i, x, c) == private' = [private EXCEPT ![i][x] = c]

LEMMA PrivateChange ==
  ASSUME StoreTypeOK, NEW i \in Ids, NEW x \in Files, NEW c \in Contents, Keeps(i, x, c)
  PROVE  /\ private' \in [Ids -> [Files -> Contents]]
         /\ private'[i][x] = c
         /\ \A y \in Files \ {x} : private'[i][y] = private[i][y]
         /\ \A j \in Ids \ {i} : private'[j] = private[j]
         /\ \A j \in Ids, y \in Files : private'[j][y] # private[j][y] => j = i /\ y = x
<1>1. private \in [Ids -> [Files -> Contents]]
  BY DEF StoreTypeOK
<1>2. PICK h : h = private[i]
  OBVIOUS
<1>3. h \in [Files -> Contents] /\ private' = [private EXCEPT ![i] = [h EXCEPT ![x] = c]]
  BY <1>1, <1>2 DEF Keeps
<1>4. PICK g : g = [h EXCEPT ![x] = c]
  OBVIOUS
<1>5. g \in [Files -> Contents] /\ g[x] = c /\ \A y \in Files \ {x} : g[y] = h[y]
  BY <1>3, <1>4
<1>6. private' = [private EXCEPT ![i] = g]
  BY <1>3, <1>4
<1>7. private'[i] = g /\ (\A j \in Ids \ {i} : private'[j] = private[j])
      /\ private' \in [Ids -> [Files -> Contents]]
  BY <1>1, <1>5, <1>6
<1> QED BY <1>2, <1>5, <1>7

LEMMA PrivateChanges ==
  ASSUME LifecycleInv, NEW k \in Workers, Executes(k), NEW o, o = worker[k].o,
         NEW x \in Targets(o), NEW c \in Contents, Keeps(o.id, x, c),
         disk' = disk, journal' = journal, barrier' = barrier, lock' = lock, tallies' = tallies,
         conflicted' = conflicted, o.phase \in {"staging", "finishing"},
         o.phase = "staging" => x \in Staged(o) /\ c \in {"part", "new"},
         o.phase = "finishing" => c \in {"absent", "part"},
         private[o.id][x] # "edited",
         \A f \in Flows \ deleted : x = Legacy(f) =>
           disk[Legacy(f)] # "absent" \/ disk[Package(f)] # "absent"
  PROVE  StoreKept'
<1>1. used' = used /\ workerCrashes' = workerCrashes /\ edited' = edited /\ deleted' = deleted
  BY DEF tallies
<1>2. /\ o \in Intents /\ Closed(o) /\ o.id \in Ids /\ o.id \in 0..used /\ o.home \in Workspaces
      /\ journal[o.home] = o /\ Journaled(o.home)
  BY ExecFacts
<1>3. x \in Files /\ StoreTypeOK /\ StoreKept
  BY <1>2, TargetPlaces DEF LifecycleInv, StoreKept
<1>4. PICK i : i = o.id
  OBVIOUS
<1>5. /\ private' \in [Ids -> [Files -> Contents]]
      /\ private'[i][x] = c
      /\ \A y \in Files \ {x} : private'[i][y] = private[i][y]
      /\ \A j \in Ids \ {i} : private'[j] = private[j]
      /\ \A j \in Ids, y \in Files : private'[j][y] # private[j][y] => j = i /\ y = x
  BY <1>2, <1>3, <1>4, PrivateChange
<1>6. StoreTypeOK'
  BY <1>1, <1>3, <1>5 DEF StoreTypeOK
<1>7. JournalsKept'
  BY <1>1, <1>3 DEF StoreKept, JournalsKept, Journaled, Closed, Auditable, FoundWhole
<1>8. BarriersKept'
  BY <1>1, <1>3 DEF StoreKept, BarriersKept, BarrierHasJournal, Journaled, AllMarked, MarkedFor
<1>9. \A w \in Workspaces : Journaled(w) /\ journal[w] # o => journal[w].id # i /\ journal[w].id \in Ids
  BY <1>2, <1>4, JournalMarks, JournalFacts
<1>10. PrivateKept'
  <2>1. \A j \in Ids : j > used => \A y \in Files : private'[j][y] = "absent"
    <3>1. \A j \in Ids : j > used => j # i
      BY <1>2, <1>4, UsedFacts
    <3> QED BY <1>3, <1>5, <3>1 DEF StoreKept, PrivateKept
  <2>2. ASSUME NEW w \in Workspaces, Journaled(w), journal[w].phase = "staging", NEW y \in Files
        PROVE  private'[journal[w].id][y] \in
                 {"absent"} \cup (IF y \in Staged(journal[w]) THEN {"part", "new"} ELSE {})
    <3>1. private[journal[w].id][y] \in
                 {"absent"} \cup (IF y \in Staged(journal[w]) THEN {"part", "new"} ELSE {})
      BY <1>3, <2>2 DEF StoreKept, PrivateKept
    <3>2. CASE journal[w] # o
      BY <1>5, <1>9, <2>2, <3>1, <3>2
    <3>3. CASE journal[w] = o
      BY <1>4, <1>5, <2>2, <3>1, <3>3
    <3> QED BY <3>2, <3>3
  <2> QED BY <1>1, <2>1, <2>2 DEF PrivateKept, Journaled
<1>11. PlacesKept'
  <2>1. SUFFICES ASSUME edited = {}, NEW w \in Workspaces, Journaled(w) PROVE InPlace(journal[w])'
    BY <1>1 DEF PlacesKept, Journaled
  <2>2. PICK q : q = journal[w]
    OBVIOUS
  <2>3. InPlace(q) /\ q \in Intents /\ Closed(q) /\ Auditable(q) /\ q.id \in Ids
    BY <1>3, <2>1, <2>2, JournalMarks DEF StoreKept, PlacesKept
  <2>4. CASE q # o
    <3>1. private'[q.id] = private[q.id]
      BY <1>5, <1>9, <2>1, <2>2, <2>4
    <3> QED BY <2>2, <2>3, <3>1 DEF InPlace, ToMove, Moved
  <2>5. CASE q = o
    <3>1. o.phase = "finishing" =>
            \A y \in Backups(o) : private'[o.id][y] \in {"absent", "part", o.pre[y]}
      <4>1. SUFFICES ASSUME o.phase = "finishing", NEW y \in Backups(o)
                     PROVE  private'[o.id][y] \in {"absent", "part", o.pre[y]}
        OBVIOUS
      <4>2. private[o.id][y] \in {"absent", "part", o.pre[y]}
        BY <2>3, <2>5, <4>1 DEF InPlace
      <4>3. y \in Files
        BY <1>2, TargetPlaces DEF Backups
      <4> QED BY <1>4, <1>5, <4>1, <4>2, <4>3
    <3> QED BY <2>2, <2>5, <3>1 DEF InPlace
  <2> QED BY <2>4, <2>5
<1>12. FlowsKept'
  BY <1>1, <1>3 DEF StoreKept, FlowsKept, Installing, FlowWhole, Journaled
<1>13. NothingDestroyed'
  <2>1. ASSUME NEW y \in edited
        PROVE  disk[y] = "edited" \/ \E j \in Ids : private'[j][y] = "edited"
    <3>1. disk[y] = "edited" \/ \E j \in Ids : private[j][y] = "edited"
      BY <1>3 DEF StoreKept, NothingDestroyed
    <3>2. \A j \in Ids : private[j][y] = "edited" => private'[j][y] = "edited"
      <4>1. y \in Files
        BY <1>3 DEF StoreTypeOK
      <4> QED BY <1>4, <1>5, <4>1
    <3> QED BY <3>1, <3>2
  <2>2. ASSUME NEW f \in Flows \ deleted
        PROVE  \/ disk[Legacy(f)] # "absent" \/ disk[Package(f)] # "absent"
               \/ \E j \in Ids : private'[j][Legacy(f)] # "absent"
    <3>1. \/ disk[Legacy(f)] # "absent" \/ disk[Package(f)] # "absent"
          \/ \E j \in Ids : private[j][Legacy(f)] # "absent"
      BY <1>3 DEF StoreKept, NothingDestroyed
    <3>2. Legacy(f) \in Files
      BY FileKinds
    <3>3. x # Legacy(f) => \A j \in Ids : private'[j][Legacy(f)] = private[j][Legacy(f)]
      BY <1>5, <3>2
    <3> QED BY <3>1, <3>3
  <2> QED BY <1>1, <2>1, <2>2 DEF NothingDestroyed
<1> QED BY <1>6, <1>7, <1>8, <1>10, <1>11, <1>12, <1>13 DEF StoreKept

\* What is private while a package is staged.
LEMMA StagedFacts ==
  ASSUME LifecycleInv, NEW k \in Workers, worker[k].pc = "prepare", worker[k].todo # {},
         NEW o, o = worker[k].o, NEW x, x = FirstFile(worker[k].todo)
  PROVE  /\ Executes(k) /\ x \in worker[k].todo /\ x \in Staged(o) /\ x \in Targets(o)
         /\ x \in Files /\ o \in Intents /\ o.phase = "staging" /\ o.id \in Ids
         /\ After(o, x) = "new" /\ private[o.id][x] \in {"absent", "part", "new"}
         /\ \A f : x # Legacy(f)
         /\ worker[k].todo \subseteq Staged(o) /\ AllMarked(o)
<1>1. Executes(k)
  BY DEF Executes, ExecutionSteps
<1>2. /\ o \in Intents /\ Closed(o) /\ Auditable(o) /\ o.phase = "staging" /\ o.id \in Ids
      /\ worker[k].todo \subseteq Staged(o) /\ o.home \in Workspaces /\ journal[o.home] = o
      /\ Journaled(o.home)
  BY <1>1, ExecFacts DEF Phased, Outstanding
<1>3. Staged(o) \subseteq Targets(o) /\ Targets(o) \in SUBSET Files
  BY <1>2, TargetPlaces DEF Staged
<1>4. worker[k].todo \in SUBSET Files
  BY <1>2, <1>3
<1>5. x \in worker[k].todo /\ x \in Staged(o) /\ x \in Targets(o) /\ x \in Files
  BY <1>2, <1>3, <1>4, FirstIn
<1>6. After(o, x) = "new"
  BY <1>2, <1>5, TargetContents
<1>7. private[o.id][x] \in {"absent", "part", "new"}
  BY <1>2, <1>5 DEF LifecycleInv, StoreKept, PrivateKept
<1>8. \A f : x # Legacy(f)
  BY <1>6, FilePlaces DEF After
<1>9. AllMarked(o)
  BY InvFacts DEF WorkerKept, OwnMarks
<1> QED BY <1>1, <1>2, <1>5, <1>6, <1>7, <1>8, <1>9

LEMMA PreparePartlyKeeps ==
  ASSUME LifecycleInv, NEW k \in Workers, PreparePartly(k)
  PROVE  LifecycleInv'
<1>1. /\ worker[k].pc = "prepare" /\ worker[k].todo # {} /\ worker' = worker
      /\ disk' = disk /\ journal' = journal /\ barrier' = barrier /\ lock' = lock
      /\ tallies' = tallies /\ conflicted' = conflicted /\ used' = used /\ edited' = edited
  BY DEF PreparePartly, WorkerAt, tallies
<1>2. PICK o : o = worker[k].o
  OBVIOUS
<1>3. PICK x : x = FirstFile(worker[k].todo)
  OBVIOUS
<1>4. Keeps(o.id, x, "part")
  BY <1>2, <1>3 DEF PreparePartly, Keeps
<1>5. /\ Executes(k) /\ x \in worker[k].todo /\ x \in Staged(o) /\ x \in Targets(o)
      /\ x \in Files /\ o \in Intents /\ o.phase = "staging" /\ o.id \in Ids
      /\ private[o.id][x] \in {"absent", "part", "new"} /\ \A f : x # Legacy(f)
      /\ worker[k].todo \subseteq Staged(o) /\ AllMarked(o)
  BY <1>1, <1>2, <1>3, StagedFacts
<1>6. "part" \in Contents /\ "edited" \notin {"absent", "part", "new"}
  BY DEF Contents
<1>7. StoreKept'
  BY <1>1, <1>2, <1>4, <1>5, <1>6, PrivateChanges
<1>8. /\ \A y \in Files \ {x} : private'[o.id][y] = private[o.id][y]
      /\ \A i \in Ids \ {o.id} : private'[i] = private[i]
  BY <1>4, <1>5, <1>6, InvFacts, PrivateChange
<1>9. Footprint(k)
  BY <1>1, <1>2, <1>8 DEF Footprint
<1>10. StepsTo(k, "prepare", o, worker[k].todo, worker[k].fresh)
  <2>1. Records /\ Records'
    BY <1>1, InvFacts DEF Records
  <2> QED BY <1>1, <1>2, <2>1 DEF StepsTo
<1>11. /\ Phased(k)' /\ worker[k].todo \subseteq Outstanding(k)'
  BY <1>1, <1>2, <1>5 DEF Phased, Outstanding
<1>12. OwnMarks(k)'
  BY <1>1, <1>2, <1>5 DEF OwnMarks, AllMarked, MarkedFor
<1>13. OwnFiles(k)'
  <2>1. \A y \in Staged(o) \ worker[k].todo : private[o.id][y] = "new"
    BY <1>1, <1>2, InvFacts DEF WorkerKept, OwnFiles
  <2>2. \A y \in Staged(o) : y \in Files
    BY <1>1, <1>2, <1>5, ExecFacts, TargetPlaces DEF Staged
  <2>3. \A y \in Staged(o) \ worker[k].todo : private'[o.id][y] = "new"
    BY <1>5, <1>8, <2>1, <2>2
  <2> QED BY <1>1, <1>2, <2>3 DEF OwnFiles
<1>14. SameIntent(o, worker[k].o) /\ journal'[o.home] = o /\ "prepare" \in ExecutionSteps
  BY <1>1, <1>2, <1>5, ExecFacts DEF SameIntent, ExecutionSteps
<1> QED BY <1>1, <1>5, <1>7, <1>9, <1>10, <1>11, <1>12, <1>13, <1>14, ExecutionGoes

LEMMA PrepareKeeps ==
  ASSUME LifecycleInv, NEW k \in Workers, Prepare(k)
  PROVE  LifecycleInv'
<1>1. /\ worker[k].pc = "prepare" /\ worker[k].todo # {}
      /\ disk' = disk /\ journal' = journal /\ barrier' = barrier /\ lock' = lock
      /\ tallies' = tallies /\ conflicted' = conflicted /\ used' = used /\ edited' = edited
  BY DEF Prepare, WorkerAt, tallies
<1>2. PICK o : o = worker[k].o
  OBVIOUS
<1>3. PICK x : x = FirstFile(worker[k].todo)
  OBVIOUS
<1>4. /\ Executes(k) /\ x \in worker[k].todo /\ x \in Staged(o) /\ x \in Targets(o)
      /\ x \in Files /\ o \in Intents /\ o.phase = "staging" /\ o.id \in Ids
      /\ After(o, x) = "new"
      /\ private[o.id][x] \in {"absent", "part", "new"} /\ \A f : x # Legacy(f)
      /\ worker[k].todo \subseteq Staged(o) /\ AllMarked(o)
  BY <1>1, <1>2, <1>3, StagedFacts
<1>5. Keeps(o.id, x, "new") /\ Remaining(k, worker[k].todo \ {x})
  BY <1>2, <1>3, <1>4 DEF Prepare, Keeps
<1>6. "new" \in Contents /\ "edited" \notin {"absent", "part", "new"}
  BY DEF Contents
<1>7. StoreKept'
  BY <1>1, <1>2, <1>4, <1>5, <1>6, PrivateChanges
<1>8. /\ private'[o.id][x] = "new"
      /\ \A y \in Files \ {x} : private'[o.id][y] = private[o.id][y]
      /\ \A i \in Ids \ {o.id} : private'[i] = private[i]
  <2>1. StoreTypeOK /\ o.id \in Ids /\ x \in Files /\ "new" \in Contents
    BY <1>4, <1>6, InvFacts
  <2> QED BY <1>5, <2>1, PrivateChange
<1>9. StepsTo(k, "prepare", o, worker[k].todo \ {x}, worker[k].fresh)
  <2>1. StepsTo(k, worker[k].pc, worker[k].o, worker[k].todo \ {x}, worker[k].fresh)
    BY <1>5, InvFacts, GoingOn
  <2> QED BY <1>1, <1>2, <2>1
<1>10. /\ worker'[k].pc = "prepare" /\ worker'[k].o = o /\ worker'[k].todo = worker[k].todo \ {x}
       /\ \A j \in Workers \ {k} : worker'[j] = worker[j]
  BY <1>9 DEF StepsTo
<1>11. Footprint(k)
  BY <1>1, <1>2, <1>8, <1>10 DEF Footprint
<1>12. Phased(k)' /\ worker[k].todo \ {x} \subseteq Outstanding(k)'
  BY <1>4, <1>10 DEF Phased, Outstanding
<1>13. OwnMarks(k)'
  BY <1>1, <1>4, <1>10 DEF OwnMarks, AllMarked, MarkedFor
<1>14. OwnFiles(k)'
  <2>1. \A y \in Staged(o) \ worker[k].todo : private[o.id][y] = "new"
    BY <1>1, <1>2, InvFacts DEF WorkerKept, OwnFiles
  <2>2. \A y \in Staged(o) : y \in Files
    BY <1>2, <1>4, ExecFacts, TargetPlaces DEF Staged
  <2>3. \A y \in Staged(o) \ (worker[k].todo \ {x}) : private'[o.id][y] = "new"
    BY <1>8, <2>1, <2>2
  <2> QED BY <1>10, <2>3 DEF OwnFiles
<1>15. SameIntent(o, worker[k].o) /\ journal'[o.home] = o /\ "prepare" \in ExecutionSteps
  BY <1>1, <1>2, <1>4, ExecFacts DEF SameIntent, ExecutionSteps
<1> QED BY <1>1, <1>4, <1>7, <1>9, <1>11, <1>12, <1>13, <1>14, <1>15, ExecutionGoes

\* What is private while an operation is cleaned up.
LEMMA CleanFacts ==
  ASSUME LifecycleInv, NEW k \in Workers, worker[k].pc = "clean", worker[k].todo # {},
         NEW o, o = worker[k].o, NEW x, x = FirstFile(worker[k].todo)
  PROVE  /\ Executes(k) /\ x \in worker[k].todo /\ x \in Backups(o) /\ x \in Targets(o)
         /\ x \in Files /\ o \in Intents /\ o.phase = "finishing" /\ o.id \in Ids
         /\ o.pre[x] \in {"old", "new"}
         /\ (edited = {} => private[o.id][x] \in {"absent", "part", o.pre[x]})
         /\ \A f \in Flows \ deleted : x = Legacy(f) =>
              disk[Legacy(f)] # "absent" \/ disk[Package(f)] # "absent"
         /\ worker[k].todo \subseteq Backups(o)
<1>1. Executes(k)
  BY DEF Executes, ExecutionSteps
<1>2. /\ o \in Intents /\ Closed(o) /\ Auditable(o) /\ o.phase = "finishing" /\ o.id \in Ids
      /\ worker[k].todo \subseteq Backups(o) /\ o.home \in Workspaces /\ journal[o.home] = o
      /\ Journaled(o.home) /\ (edited = {} => InPlace(o))
  BY <1>1, ExecFacts DEF Phased, Outstanding
<1>3. Backups(o) \subseteq Targets(o) /\ Targets(o) \in SUBSET Files
  BY <1>2, TargetPlaces DEF Backups
<1>4. worker[k].todo \in SUBSET Files
  BY <1>2, <1>3
<1>5. x \in worker[k].todo /\ x \in Backups(o) /\ x \in Targets(o) /\ x \in Files
  BY <1>2, <1>3, <1>4, FirstIn
<1>6. o.pre[x] \in {"old", "new"}
  BY <1>2, <1>5, TargetContents
<1>7. edited = {} => private[o.id][x] \in {"absent", "part", o.pre[x]}
  BY <1>2, <1>5 DEF InPlace
<1>8. ASSUME NEW f, x = Legacy(f)
      PROVE  disk[Package(f)] # "absent"
  <2>1. o.kind # "delete"
    BY <1>5, <1>8, FileNames DEF Targets
  <2>2. f = o.flow
    BY <1>5, <1>8, <2>1, FileNames DEF Targets
  <2>3. o.kind = "convert"
    BY <1>2, <2>1, IntentTypes
  <2> QED BY <1>2, <2>2, <2>3 DEF LifecycleInv, StoreKept, FlowsKept
<1> QED BY <1>1, <1>2, <1>5, <1>6, <1>7, <1>8

LEMMA CleanFilePartlyKeeps ==
  ASSUME LifecycleInv, NEW k \in Workers, CleanFilePartly(k)
  PROVE  LifecycleInv'
<1>1. /\ worker[k].pc = "clean" /\ worker[k].todo # {} /\ worker' = worker
      /\ disk' = disk /\ journal' = journal /\ barrier' = barrier /\ lock' = lock
      /\ tallies' = tallies /\ conflicted' = conflicted /\ used' = used /\ edited' = edited
  BY DEF CleanFilePartly, WorkerAt, tallies
<1>2. PICK o : o = worker[k].o
  OBVIOUS
<1>3. PICK x : x = FirstFile(worker[k].todo)
  OBVIOUS
<1>4. Keeps(o.id, x, "part") /\ private[o.id][x] = o.pre[x]
  BY <1>2, <1>3 DEF CleanFilePartly, Keeps
<1>5. /\ Executes(k) /\ x \in worker[k].todo /\ x \in Backups(o) /\ x \in Targets(o)
      /\ x \in Files /\ o \in Intents /\ o.phase = "finishing" /\ o.id \in Ids
      /\ o.pre[x] \in {"old", "new"} /\ worker[k].todo \subseteq Backups(o)
      /\ \A f \in Flows \ deleted : x = Legacy(f) =>
              disk[Legacy(f)] # "absent" \/ disk[Package(f)] # "absent"
  BY <1>1, <1>2, <1>3, CleanFacts
<1>6. "part" \in Contents /\ private[o.id][x] # "edited"
  BY <1>4, <1>5 DEF Contents
<1>7. StoreKept'
  BY <1>1, <1>2, <1>4, <1>5, <1>6, PrivateChanges
<1>8. \A i \in Ids \ {o.id} : private'[i] = private[i]
  BY <1>4, <1>5, <1>6, InvFacts, PrivateChange
<1>9. Footprint(k)
  BY <1>1, <1>2, <1>8 DEF Footprint
<1>10. StepsTo(k, "clean", o, worker[k].todo, worker[k].fresh)
  <2>1. Records /\ Records'
    BY <1>1, InvFacts DEF Records
  <2> QED BY <1>1, <1>2, <2>1 DEF StepsTo
<1>11. /\ Phased(k)' /\ worker[k].todo \subseteq Outstanding(k)'
  BY <1>1, <1>2, <1>5 DEF Phased, Outstanding
<1>12. OwnMarks(k)' /\ OwnFiles(k)'
  BY <1>1 DEF OwnMarks, OwnFiles
<1>13. SameIntent(o, worker[k].o) /\ journal'[o.home] = o /\ "clean" \in ExecutionSteps
  BY <1>1, <1>2, <1>5, ExecFacts DEF SameIntent, ExecutionSteps
<1> QED BY <1>1, <1>5, <1>7, <1>9, <1>10, <1>11, <1>12, <1>13, ExecutionGoes

LEMMA CleanFileKeeps ==
  ASSUME LifecycleInv, NEW k \in Workers, CleanFile(k)
  PROVE  LifecycleInv'
<1>1. /\ worker[k].pc = "clean" /\ worker[k].todo # {}
      /\ disk' = disk /\ journal' = journal /\ barrier' = barrier /\ tallies' = tallies
      /\ used' = used /\ workerCrashes' = workerCrashes /\ edited' = edited /\ deleted' = deleted
  BY DEF CleanFile, WorkerAt, tallies
<1>2. PICK o : o = worker[k].o
  OBVIOUS
<1>3. PICK x : x = FirstFile(worker[k].todo)
  OBVIOUS
<1>4. /\ Executes(k) /\ x \in worker[k].todo /\ x \in Backups(o) /\ x \in Targets(o)
      /\ x \in Files /\ o \in Intents /\ o.phase = "finishing" /\ o.id \in Ids
      /\ o.pre[x] \in {"old", "new"} /\ worker[k].todo \subseteq Backups(o)
      /\ (edited = {} => private[o.id][x] \in {"absent", "part", o.pre[x]})
      /\ \A f \in Flows \ deleted : x = Legacy(f) =>
              disk[Legacy(f)] # "absent" \/ disk[Package(f)] # "absent"
  BY <1>1, <1>2, <1>3, CleanFacts
<1>5. CASE private[o.id][x] \in {"absent", "part", o.pre[x]}
  <2>1. /\ Keeps(o.id, x, "absent")
        /\ Remaining(k, worker[k].todo \ {x}) /\ lock' = lock /\ conflicted' = conflicted
    BY <1>2, <1>3, <1>5 DEF CleanFile, Keeps
  <2>2. "absent" \in Contents /\ private[o.id][x] # "edited"
    BY <1>4, <1>5 DEF Contents
  <2>3. StoreKept'
    BY <1>1, <1>2, <1>4, <2>1, <2>2, PrivateChanges
  <2>4. \A i \in Ids \ {o.id} : private'[i] = private[i]
    BY <1>4, <2>1, <2>2, InvFacts, PrivateChange
  <2>5. StepsTo(k, "clean", o, worker[k].todo \ {x}, worker[k].fresh)
    <3>1. StepsTo(k, worker[k].pc, worker[k].o, worker[k].todo \ {x}, worker[k].fresh)
      BY <2>1, InvFacts, GoingOn
    <3> QED BY <1>1, <1>2, <3>1
  <2>6. /\ worker'[k].pc = "clean" /\ worker'[k].o = o /\ worker'[k].todo = worker[k].todo \ {x}
        /\ \A j \in Workers \ {k} : worker'[j] = worker[j]
    BY <2>5 DEF StepsTo
  <2>7. Footprint(k)
    BY <1>1, <1>2, <2>1, <2>4, <2>6 DEF Footprint
  <2>8. Phased(k)' /\ worker[k].todo \ {x} \subseteq Outstanding(k)'
    BY <1>4, <2>6 DEF Phased, Outstanding
  <2>9. OwnMarks(k)' /\ OwnFiles(k)'
    BY <2>6 DEF OwnMarks, OwnFiles
  <2>10. SameIntent(o, worker[k].o) /\ journal'[o.home] = o /\ "clean" \in ExecutionSteps
    BY <1>1, <1>2, <1>4, ExecFacts DEF SameIntent, ExecutionSteps
  <2> QED BY <1>4, <2>1, <2>3, <2>5, <2>7, <2>8, <2>9, <2>10, ExecutionGoes
<1>6. CASE private[o.id][x] \notin {"absent", "part", o.pre[x]}
  <2>1. Conflict(k) /\ private' = private
    BY <1>2, <1>3, <1>6 DEF CleanFile
  <2> QED BY <1>1, <1>4, <1>6, <2>1, ConflictKeeps DEF StoreSame
<1> QED BY <1>5, <1>6

\* The phase of an operation is saved, and its worker goes on with it.
LEMMA Phasing ==
  ASSUME Records, NEW k \in Workers, worker[k].o \in Intents, NEW phase, NEW pc, NEW todo,
         GotoPhase(k, phase, pc, todo)
  PROVE  StepsTo(k, pc, [worker[k].o EXCEPT !.phase = phase], todo, worker[k].fresh)
<1>1. PICK r : r = worker[k]
  OBVIOUS
<1>2. r = [pc |-> r.pc, o |-> r.o, todo |-> r.todo, fresh |-> r.fresh] /\ k \in DOMAIN worker
  BY <1>1, RecordOf
<1>3. PICK p : p = [r.o EXCEPT !.phase = phase]
  OBVIOUS
<1>4. PICK q : q = [r EXCEPT !.pc = pc]
  OBVIOUS
<1>5. q = [pc |-> pc, o |-> r.o, todo |-> r.todo, fresh |-> r.fresh]
  BY <1>2, <1>4
<1>6. PICK t : t = [q EXCEPT !.todo = todo]
  OBVIOUS
<1>7. t = [pc |-> pc, o |-> r.o, todo |-> todo, fresh |-> r.fresh]
  BY <1>5, <1>6
<1>8. [t EXCEPT !.o = p] = [pc |-> pc, o |-> p, todo |-> todo, fresh |-> r.fresh]
  BY <1>7
<1>9. PICK W : W = [worker EXCEPT ![k].pc = pc]
  OBVIOUS
<1>10. W = [worker EXCEPT ![k] = q]
  BY <1>1, <1>2, <1>4, <1>9
<1>11. PICK V : V = [W EXCEPT ![k].todo = todo]
  OBVIOUS
<1>12. V = [worker EXCEPT ![k] = t]
  BY <1>2, <1>6, <1>10, <1>11
<1>13. worker' = [V EXCEPT ![k].o.phase = phase]
  BY <1>9, <1>11 DEF GotoPhase
<1>14. V[k] = t /\ DOMAIN V = DOMAIN worker
  BY <1>2, <1>12
<1>15. t.o = r.o
  BY <1>7
<1>16. [V EXCEPT ![k].o.phase = phase] = [V EXCEPT ![k] = [t EXCEPT !.o = p]]
  BY <1>2, <1>3, <1>14, <1>15
<1>17. worker' = [worker EXCEPT ![k] = [t EXCEPT !.o = p]]
  BY <1>2, <1>12, <1>13, <1>16
<1> QED BY <1>1, <1>3, <1>8, <1>17, Stepping

LEMMA InPhase ==
  ASSUME NEW o \in Intents, NEW phase \in Phases, NEW p, p = [o EXCEPT !.phase = phase]
  PROVE  p \in Intents /\ p.phase = phase /\ SameIntent(p, o)
  BY DEF Intents, SameIntent

LEMMA PhaseStored ==
  ASSUME LifecycleInv, NEW k \in Workers, Executes(k), NEW o, o = worker[k].o,
         NEW phase \in Phases \ {"staging"}, NEW p, p = [o EXCEPT !.phase = phase],
         SavePhase(k, phase), disk' = disk, private' = private, barrier' = barrier,
         lock' = lock, tallies' = tallies, conflicted' = conflicted,
         phase \in {"ready", "installed"} => AllMarked(o),
         edited = {} => InPlace(p),
         phase = "finishing" => /\ FlowWhole(o.flow)
                                /\ o.kind = "convert" => disk[Package(o.flow)] # "absent"
  PROVE  StoreKept' /\ journal'[o.home] = p /\ \A w \in Workspaces \ {o.home} : journal'[w] = journal[w]
<1>1. used' = used /\ workerCrashes' = workerCrashes /\ edited' = edited /\ deleted' = deleted
  BY DEF tallies
<1>2. /\ o \in Intents /\ Closed(o) /\ o.home \in Workspaces /\ journal[o.home] = o
      /\ Journaled(o.home) /\ o.home = Home[o.flow] /\ o.flow \in Flows
  BY ExecFacts
<1>3. StoreKept /\ StoreTypeOK
  BY DEF LifecycleInv, StoreKept
<1>4. p \in Intents /\ p.phase = phase /\ SameIntent(p, o)
  BY <1>2, InPhase
<1>5. /\ p.id = o.id /\ p.kind = o.kind /\ p.flow = o.flow
      /\ p.home = o.home /\ p.parts = o.parts /\ p.pre = o.pre
  BY <1>4 DEF SameIntent
<1>6. /\ journal' \in [Workspaces -> Intents \cup {NoIntent}]
      /\ journal'[o.home] = p /\ \A w \in Workspaces \ {o.home} : journal'[w] = journal[w]
  <2>1. journal \in [Workspaces -> Intents \cup {NoIntent}]
    BY <1>3 DEF StoreTypeOK
  <2>2. journal' = [journal EXCEPT ![o.home] = p]
    BY <1>2, <2>1 DEF SavePhase
  <2> QED BY <1>2, <1>4, <2>1, <2>2
<1>7. StoreTypeOK'
  BY <1>1, <1>3, <1>6 DEF StoreTypeOK
<1>8. \A w \in Workspaces : Journaled(w)' <=> Journaled(w)
  BY <1>2, <1>4, <1>6, IntentTypes DEF Journaled
<1>9. \A w \in Workspaces : /\ journal'[w].id = journal[w].id /\ journal'[w].parts = journal[w].parts
                            /\ journal'[w].home = journal[w].home
                            /\ journal'[w].kind = journal[w].kind
                            /\ journal'[w].flow = journal[w].flow
  BY <1>2, <1>5, <1>6
<1>10. JournalsKept'
  <2>1. \A w \in Workspaces : /\ Closed(journal'[w]) <=> Closed(journal[w])
                              /\ Auditable(journal'[w]) <=> Auditable(journal[w])
                              /\ FoundWhole(journal'[w]) <=> FoundWhole(journal[w])
    BY <1>2, <1>4, <1>6, SameTargets
  <2>2. \A w \in Workspaces : Closed(journal[w])' <=> Closed(journal'[w])
    BY DEF Closed
  <2>3. \A w \in Workspaces : Auditable(journal[w])' <=> Auditable(journal'[w])
    BY DEF Auditable
  <2>4. \A w \in Workspaces : FoundWhole(journal[w])' <=> FoundWhole(journal'[w])
    BY DEF FoundWhole
  <2>5. JournalsKept
    BY <1>3 DEF StoreKept
  <2> QED BY <1>1, <1>8, <1>9, <2>1, <2>2, <2>3, <2>4, <2>5 DEF JournalsKept
<1>11. BarriersKept'
  <2>1. BarriersKept
    BY <1>3 DEF StoreKept
  <2>2. \A w \in Workspaces : barrier[w] # NoBarrier => barrier[w].home \in Workspaces
    BY <1>3, MarkerTypes DEF StoreTypeOK
  <2>3. BarrierHasJournal'
    BY <1>9, <2>1, <2>2 DEF BarriersKept, BarrierHasJournal
  <2>4. ASSUME NEW q \in Intents, AllMarked(q) PROVE AllMarked(q)'
    <3>1. q.parts \subseteq Workspaces
      BY <2>4, IntentTypes
    <3>2. ASSUME NEW w \in q.parts \ {q.home} PROVE MarkedFor(q, w)'
      <4>1. journal[w] = NoIntent /\ barrier[w] = Pointer(q)
        BY <2>4, <3>2 DEF AllMarked, MarkedFor
      <4>2. journal'[w] = NoIntent
        BY <1>2, <1>6, <3>1, <3>2, <4>1 DEF Journaled
      <4> QED BY <4>1, <4>2 DEF MarkedFor
    <3> QED BY <2>4, <3>2 DEF AllMarked
  <2>5. ASSUME NEW w \in Workspaces, NEW q, q = journal'[w], Journaled(w)',
               q.phase \in {"ready", "installed"}
        PROVE  AllMarked(q)'
    <3>1. CASE w = o.home
      <4>1. AllMarked(p) /\ q = p
        BY <1>4, <1>6, <2>5, <3>1, SameTargets
      <4> QED BY <1>4, <2>4, <4>1
    <3>2. CASE w # o.home
      <4>1. q = journal[w] /\ Journaled(w)
        BY <1>6, <1>8, <2>5, <3>2
      <4>2. q \in Intents /\ AllMarked(q)
        BY <2>5, <4>1, JournalMarks
      <4> QED BY <2>4, <4>2
    <3> QED BY <3>1, <3>2
  <2>6. \A w \in Workspaces : Journaled(w)' /\ journal'[w].phase \in {"ready", "installed"} =>
          AllMarked(journal[w])'
    BY <2>5 DEF AllMarked, MarkedFor
  <2>7. \A w \in Workspaces : barrier'[w] # NoBarrier => barrier'[w].home # w
    BY <2>1 DEF BarriersKept
  <2> QED BY <2>3, <2>6, <2>7 DEF BarriersKept
<1>12. PrivateKept'
  <2>1. PrivateKept
    BY <1>3 DEF StoreKept
  <2>2. \A w \in Workspaces : Journaled(w)' /\ journal'[w].phase = "staging" =>
          Journaled(w) /\ journal'[w] = journal[w]
    BY <1>4, <1>6, <1>8
  <2> QED BY <1>1, <2>1, <2>2 DEF PrivateKept
<1>13. PlacesKept'
  <2>1. SUFFICES ASSUME edited = {}, NEW w \in Workspaces, Journaled(w)
                 PROVE  InPlace(journal'[w])
    BY <1>1, <1>8 DEF PlacesKept, InPlace, ToMove, Moved
  <2>2. InPlace(journal[w])
    BY <1>3, <2>1 DEF StoreKept, PlacesKept
  <2> QED BY <1>6, <2>1, <2>2
<1>14. FlowsKept'
  <2>1. FlowsKept
    BY <1>3 DEF StoreKept
  <2>2. ASSUME NEW f \in Flows PROVE Installing(f)' \/ FlowWhole(f)'
    <3>1. FlowWhole(f) => FlowWhole(f)'
      BY <1>1 DEF FlowWhole
    <3>2. CASE f = o.flow /\ phase = "finishing"
      BY <3>1, <3>2
    <3>3. CASE f = o.flow /\ phase # "finishing"
      BY <1>2, <1>4, <1>5, <1>6, <1>8, <3>3 DEF Installing
    <3>4. CASE f # o.flow
      <4>1. Home[f] \in Workspaces
        BY LifecycleAssumption
      <4>2. Installing(f) => Installing(f)'
        BY <1>2, <1>6, <1>8, <3>4, <4>1 DEF Installing
      <4> QED BY <2>1, <3>1, <4>2 DEF FlowsKept
    <3> QED BY <3>2, <3>3, <3>4
  <2>3. ASSUME NEW w \in Workspaces, Journaled(w)', journal'[w].phase = "finishing",
               journal'[w].kind = "convert"
        PROVE  disk[Package(journal'[w].flow)] # "absent"
    <3>1. CASE w = o.home
      <4>1. journal'[w] = p
        BY <1>6, <3>1
      <4>2. phase = "finishing" /\ o.kind = "convert" /\ journal'[w].flow = o.flow
        BY <1>4, <1>5, <2>3, <4>1
      <4>3. disk[Package(o.flow)] # "absent"
        BY <4>2
      <4> QED BY <4>2, <4>3
    <3>2. CASE w # o.home
      BY <1>6, <1>8, <2>1, <2>3, <3>2 DEF FlowsKept
    <3> QED BY <3>1, <3>2
  <2> QED BY <2>2, <2>3 DEF FlowsKept
<1>15. NothingDestroyed'
  BY <1>1, <1>3 DEF StoreKept, NothingDestroyed
<1> QED BY <1>6, <1>7, <1>10, <1>11, <1>12, <1>13, <1>14, <1>15 DEF StoreKept

LEMMA PhaseGoes ==
  ASSUME LifecycleInv, NEW k \in Workers, Executes(k), NEW o, o = worker[k].o,
         NEW phase \in Phases \ {"staging"}, NEW p, p = [o EXCEPT !.phase = phase],
         NEW pc \in {"approve", "check", "clean"}, NEW todo, GotoPhase(k, phase, pc, todo),
         SavePhase(k, phase), disk' = disk, private' = private, barrier' = barrier,
         lock' = lock, tallies' = tallies, conflicted' = conflicted,
         phase \in {"ready", "installed"} => AllMarked(o),
         edited = {} => InPlace(p),
         phase = "finishing" => /\ FlowWhole(o.flow)
                                /\ o.kind = "convert" => disk[Package(o.flow)] # "absent",
         pc = "approve" => phase = "ready" /\ todo = {},
         pc = "check" => phase = "installed" /\ todo = {},
         pc = "clean" => phase = "finishing" /\ todo = Backups(o)
  PROVE  LifecycleInv'
<1>1. used' = used /\ workerCrashes' = workerCrashes /\ edited' = edited /\ deleted' = deleted
  BY DEF tallies
<1>2. StoreKept' /\ journal'[o.home] = p /\ \A w \in Workspaces \ {o.home} : journal'[w] = journal[w]
  BY PhaseStored
<1>3. o \in Intents /\ o.home \in Workspaces
  BY ExecFacts
<1>4. p \in Intents /\ p.phase = phase /\ SameIntent(p, o)
  BY <1>3, InPhase
<1>5. StepsTo(k, pc, p, todo, worker[k].fresh)
  <2>1. StepsTo(k, pc, [worker[k].o EXCEPT !.phase = phase], todo, worker[k].fresh)
    BY <1>3, InvFacts, Phasing
  <2> QED BY <2>1
<1>6. /\ worker'[k].pc = pc /\ worker'[k].o = p /\ worker'[k].todo = todo
      /\ \A j \in Workers \ {k} : worker'[j] = worker[j]
  BY <1>5 DEF StepsTo
<1>7. Footprint(k)
  BY <1>1, <1>2, <1>4, <1>6 DEF Footprint
<1>8. Backups(p) = Backups(o)
  BY <1>4, SameTargets
<1>9. Phased(k)' /\ todo \subseteq Outstanding(k)'
  BY <1>4, <1>6, <1>8 DEF Phased, Outstanding
<1>10. OwnMarks(k)' /\ OwnFiles(k)'
  BY <1>6 DEF OwnMarks, OwnFiles
<1>11. journal'[p.home] = p /\ pc \in ExecutionSteps /\ pc # "move" /\ SameIntent(p, worker[k].o)
  BY <1>2, <1>4 DEF SameIntent, ExecutionSteps
<1> QED BY <1>2, <1>4, <1>5, <1>7, <1>9, <1>10, <1>11, ExecutionGoes

LEMMA ReadyKeeps ==
  ASSUME LifecycleInv, NEW k \in Workers, Ready(k)
  PROVE  LifecycleInv'
<1>1. /\ worker[k].pc = "prepare" /\ worker[k].todo = {} /\ Executes(k)
      /\ disk' = disk /\ private' = private /\ barrier' = barrier /\ tallies' = tallies
      /\ used' = used /\ workerCrashes' = workerCrashes /\ edited' = edited /\ deleted' = deleted
  BY DEF Ready, WorkerAt, tallies, Executes, ExecutionSteps
<1>2. PICK o : o = worker[k].o
  OBVIOUS
<1>3. /\ o \in Intents /\ Closed(o) /\ Auditable(o) /\ o.phase = "staging"
      /\ o.home \in Workspaces /\ journal[o.home] = o /\ Journaled(o.home)
  BY <1>1, <1>2, ExecFacts DEF Phased
<1>4. CASE Unchanged(o)
  <2>1. /\ SavePhase(k, "ready") /\ GotoPhase(k, "ready", "approve", {})
        /\ lock' = lock /\ conflicted' = conflicted
    BY <1>2, <1>4 DEF Ready
  <2>2. AllMarked(o) /\ \A x \in Staged(o) : private[o.id][x] = "new"
    BY <1>1, <1>2, InvFacts DEF WorkerKept, OwnMarks, OwnFiles
  <2>3. PICK p : p = [o EXCEPT !.phase = "ready"]
    OBVIOUS
  <2>4. p.phase = "ready" /\ SameIntent(p, o)
    BY <1>3, <2>3, InPhase DEF Phases
  <2>5. \A x \in Files \ Targets(o) : Where(x) \in o.parts => disk[x] = o.pre[x]
    BY <1>4 DEF Unchanged
  <2>6. ASSUME NEW x \in Targets(o) PROVE ToMove(o, x)
    <3>1. x \in Files /\ disk[x] = o.pre[x]
      BY <1>3, <1>4, <2>6, TargetPlaces DEF Unchanged
    <3>2. CASE x \in Staged(o)
      BY <1>3, <2>2, <2>6, <3>1, <3>2, TargetContents DEF ToMove
    <3>3. CASE x \notin Staged(o)
      <4>1. After(o, x) = "absent"
        BY <1>3, <2>6, <3>3, TargetContents
      <4>2. private[o.id][x] = "absent"
        BY <1>3, <3>1, <3>3 DEF LifecycleInv, StoreKept, PrivateKept
      <4> QED BY <3>1, <4>1, <4>2 DEF ToMove
    <3> QED BY <3>2, <3>3
  <2>7. InPlace(p)
    <3>1. Targets(p) = Targets(o) /\ \A x : ToMove(p, x) <=> ToMove(o, x)
      BY <2>4, SameTargets
    <3>2. p.parts = o.parts /\ p.pre = o.pre
      BY <2>4 DEF SameIntent
    <3> QED BY <2>4, <2>5, <2>6, <3>1, <3>2 DEF InPlace
  <2>8. "ready" \in Phases \ {"staging"}
    BY DEF Phases
  <2> QED BY <1>1, <1>2, <2>1, <2>2, <2>3, <2>7, <2>8, PhaseGoes
<1>5. CASE ~Unchanged(o)
  <2>1. Conflict(k) /\ journal' = journal
    BY <1>2, <1>5 DEF Ready
  <2> QED BY <1>1, <1>2, <1>3, <2>1, ConflictKeeps DEF StoreSame
<1> QED BY <1>4, <1>5

LEMMA SaveInstalledKeeps ==
  ASSUME LifecycleInv, NEW k \in Workers, SaveInstalled(k)
  PROVE  LifecycleInv'
<1>1. /\ worker[k].pc = "look" /\ worker[k].todo = {} /\ Executes(k)
      /\ disk' = disk /\ private' = private /\ barrier' = barrier /\ tallies' = tallies
      /\ lock' = lock /\ conflicted' = conflicted
      /\ SavePhase(k, "installed") /\ GotoPhase(k, "installed", "check", {})
  BY DEF SaveInstalled, WorkerAt, Executes, ExecutionSteps
<1>2. PICK o : o = worker[k].o
  OBVIOUS
<1>3. /\ o \in Intents /\ o.phase = "ready" /\ AllMarked(o) /\ (edited = {} => InPlace(o))
  BY <1>1, <1>2, ExecFacts DEF Phased
<1>4. PICK p : p = [o EXCEPT !.phase = "installed"]
  OBVIOUS
<1>5. p.phase = "installed" /\ SameIntent(p, o)
  BY <1>3, <1>4, InPhase DEF Phases
<1>6. edited = {} => \A x \in Targets(o) : Moved(o, x)
  BY <1>1, <1>2, InvFacts DEF WorkerKept, OwnFiles
<1>7. edited = {} => InPlace(p)
  <2>1. Targets(p) = Targets(o) /\ \A x : Moved(p, x) <=> Moved(o, x)
    BY <1>5, SameTargets
  <2>2. p.parts = o.parts /\ p.pre = o.pre
    BY <1>5 DEF SameIntent
  <2> QED BY <1>3, <1>5, <1>6, <2>1, <2>2 DEF InPlace
<1>8. "installed" \in Phases \ {"staging"}
  BY DEF Phases
<1> QED BY <1>1, <1>2, <1>3, <1>4, <1>7, <1>8, PhaseGoes

\* What was installed completely is whole.
LEMMA CompleteWhole ==
  ASSUME NEW o \in Intents, Closed(o), Auditable(o), FoundWhole(o), Complete(o)
  PROVE  FlowWhole(o.flow) /\ (o.kind = "convert" => disk[Package(o.flow)] # "absent")
<1>1. PICK f : f = o.flow
  OBVIOUS
<1>2. f \in Flows /\ o.home = Home[f] /\ o.home \in o.parts
  BY <1>1, IntentTypes DEF Closed
<1>3. \A b \in Bridges : Imported[b] = f => Place[b] \in o.parts
  BY <1>1 DEF Closed
<1>4. ASSUME NEW x \in Files, Where(x) \in o.parts
      PROVE  disk[x] = o.pre[x] \/ (x \in Targets(o) /\ disk[x] = After(o, x))
  BY <1>4 DEF Complete, Progressing
<1>5. CASE o.kind = "convert"
  <2>1. disk[Legacy(f)] = "absent" /\ disk[Package(f)] = "new"
    BY <1>1, <1>5, Conversion DEF Complete
  <2>2. ASSUME NEW b \in Bridges, Imported[b] = f PROVE disk[Bridge(b)] # "old"
    <3>1. Bridge(b) \in Files /\ Where(Bridge(b)) \in o.parts
      BY <1>3, <2>2, FileKinds, FilePlaces
    <3>2. CASE Bridge(b) \in Targets(o)
      <4>1. disk[Bridge(b)] = After(o, Bridge(b))
        BY <3>2 DEF Complete
      <4> QED BY <3>2, <4>1, TargetContents
    <3>3. CASE Bridge(b) \notin Targets(o)
      <4>1. o.pre[Bridge(b)] # "old"
        BY <1>1, <1>3, <1>5, <2>2, <3>3, Conversion
      <4> QED BY <1>4, <3>1, <3>3, <4>1
    <3> QED BY <3>2, <3>3
  <2> QED BY <1>1, <2>1, <2>2 DEF FlowWhole
<1>6. CASE o.kind = "delete"
  <2>1. disk[Package(f)] = "absent" /\ Targets(o) = {Package(f)}
    <3>1. Package(f) \in Targets(o) /\ Targets(o) = {Package(f)} /\ After(o, Package(f)) = "absent"
      BY <1>1, <1>6, Deletion
    <3> QED BY <3>1 DEF Complete
  <2>2. ASSUME NEW b \in Bridges, Imported[b] = f
        PROVE  disk[Bridge(b)] = o.pre[Bridge(b)] /\ disk[Bridge(b)] # "new"
    <3>1. Bridge(b) \in Files /\ Where(Bridge(b)) \in o.parts /\ Bridge(b) \notin Targets(o)
      BY <1>3, <2>1, <2>2, FileKinds, FilePlaces, FileNames
    <3>2. o.pre[Bridge(b)] # "new"
      BY <1>1, <1>6, <2>2, Deletion
    <3> QED BY <1>4, <3>1, <3>2
  <2>3. disk[Legacy(f)] = o.pre[Legacy(f)]
    <3>1. Legacy(f) \in Files /\ Where(Legacy(f)) \in o.parts /\ Legacy(f) \notin Targets(o)
      BY <1>2, <2>1, FileKinds, FilePlaces, FileNames
    <3> QED BY <1>4, <3>1
  <2>4. ASSUME NEW b \in Bridges, Imported[b] = f, disk[Bridge(b)] = "old"
        PROVE  disk[Legacy(f)] # "absent"
    <3>1. o.pre[Bridge(b)] = "old"
      BY <2>2, <2>4
    <3> QED BY <1>1, <1>6, <2>3, <2>4, <3>1 DEF FoundWhole
  <2> QED BY <1>1, <1>6, <2>1, <2>2, <2>4 DEF FlowWhole
<1> QED BY <1>5, <1>6, IntentTypes

LEMMA CheckKeeps ==
  ASSUME LifecycleInv, NEW k \in Workers, Check(k)
  PROVE  LifecycleInv'
<1>1. /\ worker[k].pc = "check" /\ Executes(k)
      /\ disk' = disk /\ private' = private /\ barrier' = barrier /\ tallies' = tallies
      /\ used' = used /\ workerCrashes' = workerCrashes /\ edited' = edited /\ deleted' = deleted
  BY DEF Check, WorkerAt, tallies, Executes, ExecutionSteps
<1>2. PICK o : o = worker[k].o
  OBVIOUS
<1>3. /\ o \in Intents /\ Closed(o) /\ Auditable(o) /\ FoundWhole(o) /\ o.phase = "installed"
      /\ (edited = {} => InPlace(o))
  BY <1>1, <1>2, ExecFacts DEF Phased
<1>4. CASE Complete(o)
  <2>1. /\ SavePhase(k, "finishing") /\ GotoPhase(k, "finishing", "clean", Backups(o))
        /\ lock' = lock /\ conflicted' = conflicted
    BY <1>2, <1>4 DEF Check
  <2>2. PICK p : p = [o EXCEPT !.phase = "finishing"]
    OBVIOUS
  <2>3. p.phase = "finishing" /\ SameIntent(p, o)
    BY <1>3, <2>2, InPhase DEF Phases
  <2>4. InPlace(p)
    <3>1. Backups(p) = Backups(o) /\ p.id = o.id /\ p.pre = o.pre
      BY <2>3, SameTargets DEF SameIntent
    <3> QED BY <1>4, <2>3, <3>1 DEF InPlace, Complete
  <2>5. FlowWhole(o.flow) /\ (o.kind = "convert" => disk[Package(o.flow)] # "absent")
    BY <1>3, <1>4, CompleteWhole
  <2>6. "finishing" \in Phases \ {"staging"}
    BY DEF Phases
  <2> QED BY <1>1, <1>2, <2>1, <2>2, <2>4, <2>5, <2>6, PhaseGoes
<1>5. CASE ~Complete(o)
  <2>1. Conflict(k) /\ journal' = journal
    BY <1>2, <1>5 DEF Check
  <2>2. InPlace(o) => Complete(o)
    <3>1. Backups(o) \subseteq Targets(o)
      BY DEF Backups
    <3> QED BY <1>3, <3>1 DEF InPlace, Complete, Progressing, Moved
  <2> QED BY <1>1, <1>3, <1>5, <2>1, <2>2, ConflictKeeps DEF StoreSame
<1> QED BY <1>4, <1>5

\* Two operations whose participants are all marked have none in common.
LEMMA MarkedApart ==
  ASSUME NEW o \in Intents, NEW q \in Intents, AllMarked(o), AllMarked(q), o.home # q.home,
         journal[o.home] # NoIntent, journal[q.home] # NoIntent, NEW w \in o.parts
  PROVE  w \notin q.parts
<1>1. SUFFICES ASSUME w \in q.parts PROVE FALSE
  OBVIOUS
<1>2. w # o.home => journal[w] = NoIntent /\ barrier[w] = Pointer(o)
  BY DEF AllMarked, MarkedFor
<1>3. w # q.home => journal[w] = NoIntent /\ barrier[w] = Pointer(q)
  BY <1>1 DEF AllMarked, MarkedFor
<1>4. w # o.home /\ w # q.home
  BY <1>2, <1>3
<1>5. Pointer(o).home = o.home /\ Pointer(q).home = q.home
  BY IntentTypes
<1> QED BY <1>2, <1>3, <1>4, <1>5

\* A public file changes places with its private counterpart.
Exchanges(o, x) ==
    /\ disk' = [disk EXCEPT ![x] = private[o.id][x]]
    /\ private' = [private EXCEPT ![o.id][x] = disk[x]]

LEMMA Exchange ==
  ASSUME LifecycleInv, NEW k \in Workers, worker[k].pc = "move",
         NEW o, o = worker[k].o, NEW x, x = FirstFile(worker[k].todo),
         Exchanges(o, x), journal' = journal, barrier' = barrier, tallies' = tallies,
         conflicted' \in BOOLEAN, lock' \in [Workspaces -> Workers \cup {Nobody}]
  PROVE  /\ StoreKept'
         /\ \A i \in Ids : i # o.id => private'[i] = private[i]
         /\ \A y \in Files : disk'[y] = disk[y] \/ Where(y) \in o.parts
         /\ \A y \in Targets(o) \ {x} : Moved(o, y) => Moved(o, y)'
         /\ disk[x] = o.pre[x] => Moved(o, x)'
<1>1. used' = used /\ workerCrashes' = workerCrashes /\ edited' = edited /\ deleted' = deleted
  BY DEF tallies
<1>2. /\ Executes(k) /\ worker[k].todo # {} /\ private[o.id][x] = After(o, x)
      /\ disk[x] = o.pre[x] \/ (disk[x] = "edited" /\ edited # {})
  BY InvFacts DEF WorkerKept, WorkerShaped, OwnFiles, Executes, ExecutionSteps
<1>3. /\ o \in Intents /\ Closed(o) /\ Auditable(o) /\ o.id \in Ids /\ o.id \in 0..used
      /\ o.home \in Workspaces /\ o.home = Home[o.flow] /\ o.flow \in Flows
      /\ journal[o.home] = o /\ Journaled(o.home) /\ o.parts \subseteq Workspaces
  BY <1>2, ExecFacts
<1>4. /\ x \in Targets(o) /\ x \in Files /\ Where(x) \in o.parts /\ x \in FilesOf(o.flow)
      /\ o.phase = "ready"
  BY <1>2, NextTarget
<1>5. o.pre[x] \in {"absent", "old", "new"} /\ After(o, x) \in {"absent", "new"}
  BY <1>3, <1>4, TargetContents
<1>6. AllMarked(o)
  BY <1>2, <1>4, ExecFacts
<1>7. StoreKept /\ StoreTypeOK
  BY DEF LifecycleInv, StoreKept
<1>8. disk[x] \in Contents /\ After(o, x) \in Contents \ {"part"}
  BY <1>2, <1>5 DEF Contents
<1>9. /\ disk' \in [Files -> Contents \ {"part"}]
      /\ disk'[x] = After(o, x) /\ \A y \in Files \ {x} : disk'[y] = disk[y]
  BY <1>2, <1>4, <1>7, <1>8 DEF StoreTypeOK, Exchanges
<1>10. PICK i : i = o.id
  OBVIOUS
<1>11. PICK c : c = disk[x]
  OBVIOUS
<1>12. Keeps(i, x, c) /\ i \in Ids /\ c \in Contents
  BY <1>3, <1>8, <1>10, <1>11 DEF Exchanges, Keeps
<1>13. private' \in [Ids -> [Files -> Contents]]
  BY <1>4, <1>7, <1>12, PrivateChange
<1>14. private'[i][x] = c
  BY <1>4, <1>7, <1>12, PrivateChange
<1>15. \A y \in Files \ {x} : private'[i][y] = private[i][y]
  BY <1>4, <1>7, <1>12, PrivateChange
<1>16. \A j \in Ids \ {i} : private'[j] = private[j]
  BY <1>4, <1>7, <1>12, PrivateChange
<1>17. StoreTypeOK'
  BY <1>1, <1>7, <1>9, <1>13 DEF StoreTypeOK
<1>18. JournalsKept'
  BY <1>1, <1>7 DEF StoreKept, JournalsKept, Journaled, Closed, Auditable, FoundWhole
<1>19. BarriersKept'
  BY <1>1, <1>7 DEF StoreKept, BarriersKept, BarrierHasJournal, Journaled, AllMarked, MarkedFor
<1>20. \A w \in Workspaces : Journaled(w) /\ w # o.home => journal[w].id # i /\ journal[w].id \in Ids
  BY <1>3, <1>10, JournalMarks, JournalFacts
<1>21. PrivateKept'
  <2>1. \A j \in Ids : j > used => j # i
    BY <1>3, <1>10, UsedFacts
  <2>2. \A w \in Workspaces : Journaled(w) /\ journal[w].phase = "staging" => w # o.home
    BY <1>3, <1>4
  <2>3. \A w \in Workspaces : Journaled(w) /\ journal[w].phase = "staging" =>
          private'[journal[w].id] = private[journal[w].id]
    BY <1>16, <1>20, <2>2
  <2> QED BY <1>1, <1>7, <1>16, <2>1, <2>3 DEF StoreKept, PrivateKept, Journaled
<1>22. ASSUME NEW y \in Targets(o) \ {x}, Moved(o, y) PROVE Moved(o, y)'
  <2>1. y \in Files
    BY <1>3, <1>22, TargetPlaces
  <2>2. disk[y] = After(o, y) /\ private[i][y] = o.pre[y]
    BY <1>10, <1>22 DEF Moved
  <2>3. disk'[y] = After(o, y) /\ private'[i][y] = o.pre[y]
    BY <1>9, <1>15, <1>22, <2>1, <2>2
  <2> QED BY <1>10, <2>3 DEF Moved
<1>23. ASSUME NEW y \in Targets(o) \ {x}, ToMove(o, y) PROVE ToMove(o, y)'
  <2>1. y \in Files
    BY <1>3, <1>23, TargetPlaces
  <2>2. disk[y] = o.pre[y] /\ private[i][y] = After(o, y)
    BY <1>10, <1>23 DEF ToMove
  <2>3. disk'[y] = o.pre[y] /\ private'[i][y] = After(o, y)
    BY <1>9, <1>15, <1>23, <2>1, <2>2
  <2> QED BY <1>10, <2>3 DEF ToMove
<1>24. disk[x] = o.pre[x] => Moved(o, x)'
  BY <1>9, <1>10, <1>11, <1>14 DEF Moved
<1>25. PlacesKept'
  <2>1. SUFFICES ASSUME edited = {}, NEW w \in Workspaces, Journaled(w) PROVE InPlace(journal[w])'
    BY <1>1 DEF PlacesKept, Journaled
  <2>2. PICK q : q = journal[w]
    OBVIOUS
  <2>3. InPlace(q) /\ q \in Intents /\ Closed(q) /\ q.id \in Ids /\ q.home = w
        /\ (q.phase \in {"ready", "installed"} => AllMarked(q))
    BY <1>7, <2>1, <2>2, JournalMarks DEF StoreKept, PlacesKept
  <2>4. CASE w = o.home
    <3>1. q = o
      BY <1>3, <2>2, <2>4
    <3>2. Moved(o, x)'
      BY <1>2, <1>24, <2>1
    <3>3. \A y \in Targets(o) : ToMove(o, y)' \/ Moved(o, y)'
      BY <1>4, <1>22, <1>23, <2>3, <3>1, <3>2 DEF InPlace
    <3>4. \A y \in Files \ Targets(o) : Where(y) \in o.parts => disk'[y] = o.pre[y]
      BY <1>4, <1>9, <2>3, <3>1 DEF InPlace
    <3>5. InPlace(o)'
      BY <1>4, <3>3, <3>4 DEF InPlace
    <3> QED BY <2>2, <3>1, <3>5
  <2>5. CASE w # o.home
    <3>1. private'[q.id] = private[q.id]
      BY <1>16, <1>20, <2>1, <2>2, <2>5
    <3>2. q.phase \in {"ready", "installed"} => Where(x) \notin q.parts
      BY <1>3, <1>4, <1>6, <2>1, <2>2, <2>3, <2>5, MarkedApart DEF Journaled
    <3>3. q.phase \in {"ready", "installed"} =>
            \A y \in Files : Where(y) \in q.parts => disk'[y] = disk[y]
      BY <1>9, <3>2
    <3>4. \A y \in Targets(q) : y \in Files /\ Where(y) \in q.parts
      BY <2>3, TargetPlaces
    <3>5. InPlace(q)'
      BY <2>3, <3>1, <3>3, <3>4 DEF InPlace, ToMove, Moved
    <3> QED BY <2>2, <3>5
  <2> QED BY <2>4, <2>5
<1>26. \A f \in Flows \ {o.flow} : \A y \in FilesOf(f) : y # x
  BY <1>3, <1>4, FilesApart
<1>27. \A f \in Flows \ {o.flow} :
         /\ disk'[Legacy(f)] = disk[Legacy(f)] /\ disk'[Package(f)] = disk[Package(f)]
         /\ \A j \in Ids : private'[j][Legacy(f)] = private[j][Legacy(f)]
         /\ \A b \in Bridges : Imported[b] = f => disk'[Bridge(b)] = disk[Bridge(b)]
  <2>1. SUFFICES ASSUME NEW f \in Flows \ {o.flow}
                 PROVE  /\ disk'[Legacy(f)] = disk[Legacy(f)] /\ disk'[Package(f)] = disk[Package(f)]
                        /\ \A j \in Ids : private'[j][Legacy(f)] = private[j][Legacy(f)]
                        /\ \A b \in Bridges : Imported[b] = f => disk'[Bridge(b)] = disk[Bridge(b)]
    OBVIOUS
  <2>2. Legacy(f) \in Files \ {x} /\ Package(f) \in Files \ {x}
    BY <1>26, FileKinds DEF FilesOf
  <2>3. \A b \in Bridges : Imported[b] = f => Bridge(b) \in Files \ {x}
    BY <1>26, FileKinds DEF FilesOf
  <2>4. \A j \in Ids : private'[j][Legacy(f)] = private[j][Legacy(f)]
    BY <1>15, <1>16, <2>2
  <2> QED BY <1>9, <2>2, <2>3, <2>4
<1>28. FlowsKept'
  <2>1. FlowsKept
    BY <1>7 DEF StoreKept
  <2>2. Installing(o.flow)
    BY <1>3, <1>4 DEF Installing
  <2>3. \A f \in Flows : Installing(f)' <=> Installing(f)
    BY DEF Installing, Journaled
  <2>4. \A f \in Flows \ {o.flow} : FlowWhole(f) => FlowWhole(f)'
    BY <1>1, <1>27 DEF FlowWhole
  <2>5. \A f \in Flows : Installing(f)' \/ FlowWhole(f)'
    BY <2>1, <2>2, <2>3, <2>4 DEF FlowsKept
  <2>6. ASSUME NEW w \in Workspaces, Journaled(w), journal[w].phase = "finishing",
               journal[w].kind = "convert"
        PROVE  disk'[Package(journal[w].flow)] # "absent"
    <3>1. disk[Package(journal[w].flow)] # "absent"
      BY <2>1, <2>6 DEF FlowsKept
    <3>2. w # o.home
      BY <1>3, <1>4, <2>6
    <3>3. journal[w] \in Intents /\ Closed(journal[w]) /\ journal[w].home = w
      BY <2>6, JournalMarks
    <3>4. journal[w].flow \in Flows \ {o.flow}
      BY <1>3, <3>2, <3>3, IntentTypes DEF Closed
    <3> QED BY <1>27, <3>1, <3>4
  <2> QED BY <2>5, <2>6 DEF FlowsKept, Journaled
<1>29. NothingDestroyed'
  <2>1. ASSUME NEW y \in edited
        PROVE  disk'[y] = "edited" \/ \E j \in Ids : private'[j][y] = "edited"
    <3>1. disk[y] = "edited" \/ \E j \in Ids : private[j][y] = "edited"
      BY <1>7 DEF StoreKept, NothingDestroyed
    <3>2. y \in Files
      BY <1>7 DEF StoreTypeOK
    <3>3. CASE y # x
      BY <1>9, <1>15, <1>16, <3>1, <3>2, <3>3
    <3>4. CASE y = x
      <4>1. CASE disk[x] = "edited"
        BY <1>11, <1>12, <1>14, <3>4, <4>1
      <4>2. CASE disk[x] # "edited"
        <5>1. PICK j \in Ids : private[j][x] = "edited"
          BY <3>1, <3>4, <4>2
        <5>2. j # i
          BY <1>2, <1>5, <1>10, <5>1
        <5> QED BY <1>16, <3>4, <5>1, <5>2
      <4> QED BY <4>1, <4>2
    <3> QED BY <3>3, <3>4
  <2>2. ASSUME NEW f \in Flows \ deleted
        PROVE  \/ disk'[Legacy(f)] # "absent" \/ disk'[Package(f)] # "absent"
               \/ \E j \in Ids : private'[j][Legacy(f)] # "absent"
    <3>1. \/ disk[Legacy(f)] # "absent" \/ disk[Package(f)] # "absent"
          \/ \E j \in Ids : private[j][Legacy(f)] # "absent"
      BY <1>7 DEF StoreKept, NothingDestroyed
    <3>2. CASE f # o.flow
      BY <1>27, <3>1, <3>2
    <3>3. CASE f = o.flow
      <4>1. o.kind = "convert"
        <5>1. o.kind = "delete" => o.flow \in deleted
          BY <1>3, <1>7 DEF StoreKept, JournalsKept
        <5> QED BY <1>3, <3>3, <5>1, IntentTypes
      <4>2. Legacy(f) \in Files /\ Package(f) \in Files
        BY FileKinds
      <4>3. CASE x = Legacy(f)
        <5>1. o.pre[x] = "old"
          BY <1>3, <3>3, <4>1, <4>3, Conversion
        <5>2. c # "absent"
          BY <1>2, <1>11, <5>1
        <5> QED BY <1>12, <1>14, <4>3, <5>2
      <4>4. CASE x = Package(f)
        <5>1. After(o, x) = "new"
          BY <1>3, <3>3, <4>1, <4>4, Conversion
        <5> QED BY <1>9, <4>4, <5>1
      <4>5. CASE x # Legacy(f) /\ x # Package(f)
        <5>1. \A j \in Ids : private'[j][Legacy(f)] = private[j][Legacy(f)]
          BY <1>15, <1>16, <4>2, <4>5
        <5>2. disk'[Legacy(f)] = disk[Legacy(f)] /\ disk'[Package(f)] = disk[Package(f)]
          BY <1>9, <4>2, <4>5
        <5> QED BY <3>1, <5>1, <5>2
      <4> QED BY <4>3, <4>4, <4>5
    <3> QED BY <3>2, <3>3
  <2> QED BY <1>1, <2>1, <2>2 DEF NothingDestroyed
<1>30. StoreKept'
  BY <1>17, <1>18, <1>19, <1>21, <1>25, <1>28, <1>29 DEF StoreKept
<1>31. \A y \in Files : disk'[y] = disk[y] \/ Where(y) \in o.parts
  BY <1>4, <1>9
<1>32. \A j \in Ids : j # o.id => private'[j] = private[j]
  BY <1>10, <1>16
<1> QED BY <1>22, <1>24, <1>30, <1>31, <1>32

LEMMA MoveKeeps ==
  ASSUME LifecycleInv, NEW k \in Workers, Move(k)
  PROVE  LifecycleInv'
<1>1. /\ worker[k].pc = "move" /\ Executes(k) /\ journal' = journal /\ barrier' = barrier
      /\ tallies' = tallies
      /\ used' = used /\ workerCrashes' = workerCrashes /\ edited' = edited /\ deleted' = deleted
  BY DEF Move, WorkerAt, tallies, Executes, ExecutionSteps
<1>2. PICK o : o = worker[k].o
  OBVIOUS
<1>3. PICK x : x = FirstFile(worker[k].todo)
  OBVIOUS
<1>4. /\ worker[k].todo # {} /\ private[o.id][x] = After(o, x)
      /\ disk[x] = o.pre[x] \/ (disk[x] = "edited" /\ edited # {})
  BY <1>1, <1>2, <1>3, InvFacts DEF WorkerKept, WorkerShaped, OwnFiles
<1>5. /\ o \in Intents /\ Auditable(o) /\ x \in Targets(o) /\ o.phase = "ready" /\ x \in worker[k].todo
      /\ worker[k].todo \subseteq Targets(o) /\ InControl(k) /\ journal[o.home] = o
  BY <1>1, <1>2, <1>3, <1>4, NextTarget, ExecFacts
<1>6. CASE x[1] # "bridge" /\ disk[x] # "absent" /\ private[o.id][x] # "absent"
  <2>1. Conflict(k) /\ disk' = disk /\ private' = private
    BY <1>2, <1>3, <1>6 DEF Move
  <2>2. edited # {}
    <3>1. o.pre[x] = "absent" \/ After(o, x) = "absent"
      BY <1>5, <1>6, TargetContents
    <3> QED BY <1>4, <1>6, <3>1
  <2> QED BY <1>1, <2>1, <2>2, ConflictKeeps DEF StoreSame
<1>7. CASE ~(x[1] # "bridge" /\ disk[x] # "absent" /\ private[o.id][x] # "absent")
  <2>1. Exchanges(o, x)
    BY <1>2, <1>3, <1>7 DEF Move, Exchanges
  <2>2. CASE disk[x] = o.pre[x]
    <3>1. WorkerGoto(k, "look", worker[k].todo \ {x}) /\ lock' = lock /\ conflicted' = conflicted
      BY <1>2, <1>3, <1>4, <1>7, <2>2 DEF Move
    <3>2. conflicted' \in BOOLEAN /\ lock' \in [Workspaces -> Workers \cup {Nobody}]
      BY <3>1, InvFacts
    <3>3. /\ StoreKept'
          /\ \A i \in Ids : i # o.id => private'[i] = private[i]
          /\ \A y \in Files : disk'[y] = disk[y] \/ Where(y) \in o.parts
          /\ \A y \in Targets(o) \ {x} : Moved(o, y) => Moved(o, y)'
          /\ Moved(o, x)'
      <4>1. Moved(o, x)'
        BY <1>1, <1>2, <1>3, <2>1, <2>2, <3>2, Exchange
      <4>2. StoreKept' /\ \A i \in Ids : i # o.id => private'[i] = private[i]
        BY <1>1, <1>2, <1>3, <2>1, <3>2, Exchange
      <4>3. \A y \in Files : disk'[y] = disk[y] \/ Where(y) \in o.parts
        BY <1>1, <1>2, <1>3, <2>1, <3>2, Exchange
      <4>4. \A y \in Targets(o) \ {x} : Moved(o, y) => Moved(o, y)'
        BY <1>1, <1>2, <1>3, <2>1, <3>2, Exchange
      <4> QED BY <4>1, <4>2, <4>3, <4>4
    <3>4. StepsTo(k, "look", o, worker[k].todo \ {x}, worker[k].fresh)
      <4>1. StepsTo(k, "look", worker[k].o, worker[k].todo \ {x}, worker[k].fresh)
        BY <3>1, InvFacts, Going
      <4> QED BY <1>2, <4>1
    <3>5. /\ worker'[k].pc = "look" /\ worker'[k].o = o /\ worker'[k].todo = worker[k].todo \ {x}
          /\ \A j \in Workers \ {k} : worker'[j] = worker[j]
      BY <3>4 DEF StepsTo
    <3>6. Footprint(k)
      BY <1>1, <1>2, <3>1, <3>3, <3>5 DEF Footprint
    <3>7. Phased(k)' /\ worker[k].todo \ {x} \subseteq Outstanding(k)'
      BY <1>5, <3>5 DEF Phased, Outstanding
    <3>8. OwnMarks(k)'
      BY <3>5 DEF OwnMarks
    <3>9. OwnFiles(k)'
      <4>1. edited = {} => \A y \in Targets(o) \ worker[k].todo : Moved(o, y)
        BY <1>1, <1>2, InvFacts DEF WorkerKept, OwnFiles
      <4>2. edited = {} => \A y \in Targets(o) \ (worker[k].todo \ {x}) : Moved(o, y)'
        BY <3>3, <4>1
      <4> QED BY <1>1, <3>5, <4>2 DEF OwnFiles, Moved
    <3>10. SameIntent(o, worker[k].o) /\ journal'[o.home] = o /\ "look" \in ExecutionSteps
      BY <1>1, <1>2, <1>5 DEF SameIntent, ExecutionSteps
    <3> QED BY <1>1, <1>5, <3>1, <3>3, <3>4, <3>6, <3>7, <3>8, <3>9, <3>10, ExecutionGoes
  <2>3. CASE disk[x] # o.pre[x]
    <3>1. Conflict(k)
      BY <1>2, <1>3, <1>7, <2>3 DEF Move
    <3>2. Leaves(k)
      BY <3>1, InvFacts, Releasing DEF Conflict
    <3>3. conflicted' = FALSE
      BY <1>4, <2>3, <3>1, InvFacts DEF Conflict
    <3>4. /\ \A w \in Workspaces : lock'[w] # k
          /\ \A j \in Workers \ {k}, w \in Workspaces : lock'[w] = j <=> lock[w] = j
          /\ lock' \in [Workspaces -> Workers \cup {Nobody}]
      BY <3>2, InvFacts, LocksOfOthers DEF Leaves
    <3>5. /\ StoreKept'
          /\ \A i \in Ids : i # o.id => private'[i] = private[i]
          /\ \A y \in Files : disk'[y] = disk[y] \/ Where(y) \in o.parts
      <4>1. conflicted' \in BOOLEAN
        BY <3>3
      <4> QED BY <1>1, <1>2, <1>3, <2>1, <3>4, <4>1, Exchange
    <3>6. WorkerKept(k)'
      <4>1. used' \in 0..Operations
        BY <1>1, InvFacts
      <4> QED BY <3>2, <3>4, <4>1, IdleKept DEF Leaves
    <3>7. /\ Records' /\ worker'[k].o.id = 0 /\ ~Asks(k)'
          /\ \A j \in Workers \ {k} : worker'[j] = worker[j]
      BY <3>2, MarkerTypes DEF Leaves, StepsTo, Asks
    <3>8. Footprint(k)
      BY <1>1, <1>2, <3>4, <3>5, <3>7 DEF Footprint
    <3> QED BY <1>5, <3>3, <3>5, <3>6, <3>7, <3>8, ControlGoes
  <2> QED BY <2>2, <2>3
<1> QED BY <1>6, <1>7

-----------------------------------------------------------------------------
(* The journal appears and goes; an editor writes.                             *)

LEMMA BeginKeeps ==
  ASSUME LifecycleInv, NEW k \in Workers, Begin(k)
  PROVE  LifecycleInv'
<1>1. /\ worker[k].pc = "lock" /\ worker[k].todo = {} /\ worker[k].fresh
      /\ disk' = disk /\ private' = private /\ barrier' = barrier /\ conflicted' = conflicted
      /\ used' = used /\ workerCrashes' = workerCrashes /\ edited' = edited
  BY DEF Begin, WorkerAt
<1>2. PICK o : o = worker[k].o
  OBVIOUS
<1>3. CASE ~((\A w \in o.parts : Unmarked(w)) /\ Unchanged(o))
  <2>1. Release(k) /\ journal' = journal /\ deleted' = deleted
    BY <1>2, <1>3 DEF Begin
  <2>2. Leaves(k)
    BY <2>1, InvFacts, Releasing
  <2> QED BY <1>1, <2>1, <2>2, InvFacts, LeavesQuietly DEF StoreSame
<1>4. CASE (\A w \in o.parts : Unmarked(w)) /\ Unchanged(o)
  <2>1. /\ journal' = [journal EXCEPT ![o.home] = o]
        /\ deleted' = deleted \cup (IF o.kind = "delete" THEN {o.flow} ELSE {})
        /\ WorkerGoto(k, "mark", o.parts \ {o.home}) /\ lock' = lock
    BY <1>2, <1>4 DEF Begin
  <2>2. Asks(k) /\ InControl(k)
    BY <1>1 DEF Asks, InControl
  <2>3. /\ o \in Intents /\ Closed(o) /\ o.phase = "staging" /\ o.id \in 0..used
        /\ o.parts \subseteq Workspaces
        /\ \A w \in Workspaces : journal[w].id # o.id
        /\ \A x \in Files : private[o.id][x] = "absent"
    BY <1>2, <2>2, AskerFacts
  <2>4. /\ o.id # 0 /\ o.id \in Nat /\ o.flow \in Flows /\ o.home \in Workspaces
        /\ o.home \in o.parts /\ o.home = Home[o.flow] /\ o # NoIntent
    BY <2>3, IntentTypes DEF Closed
  <2>5. Auditable(o)
    BY <1>1, <1>2, <2>2, InvFacts DEF WorkerKept, OwnIntent
  <2>6. StoreKept /\ StoreTypeOK
    BY DEF LifecycleInv, StoreKept
  <2>7. /\ journal' \in [Workspaces -> Intents \cup {NoIntent}]
        /\ journal'[o.home] = o /\ \A w \in Workspaces \ {o.home} : journal'[w] = journal[w]
    BY <2>1, <2>3, <2>4, <2>6 DEF StoreTypeOK
  <2>8. journal[o.home] = NoIntent /\ barrier[o.home] = NoBarrier /\ ~Journaled(o.home)
    BY <1>4, <2>4 DEF Unmarked, Journaled
  <2>9. FoundWhole(o)
    <3>1. SUFFICES ASSUME NEW b \in Bridges, Imported[b] = o.flow, o.pre[Bridge(b)] = "old"
                   PROVE  o.pre[Legacy(o.flow)] # "absent"
      BY DEF FoundWhole
    <3>2. FlowWhole(o.flow)
      BY <2>4, <2>6, <2>8 DEF StoreKept, FlowsKept, Installing
    <3>3. /\ Bridge(b) \in Files /\ Where(Bridge(b)) \in o.parts
          /\ Legacy(o.flow) \in Files /\ Where(Legacy(o.flow)) \in o.parts
      <4>1. Place[b] \in o.parts
        BY <2>3, <3>1 DEF Closed
      <4> QED BY <2>4, <4>1, FileKinds, FilePlaces
    <3>4. disk[Bridge(b)] = o.pre[Bridge(b)] /\ disk[Legacy(o.flow)] = o.pre[Legacy(o.flow)]
      BY <1>4, <3>3 DEF Unchanged
    <3> QED BY <3>1, <3>2, <3>4 DEF FlowWhole
  <2>10. \A w \in Workspaces : Journaled(w)' => w = o.home \/ Journaled(w)
    BY <2>7 DEF Journaled
  <2>11. deleted \subseteq deleted' /\ deleted' \subseteq Flows
         /\ (o.kind = "delete" => o.flow \in deleted')
    BY <2>1, <2>4, <2>6 DEF StoreTypeOK
  <2>12. StoreTypeOK'
    BY <1>1, <2>1, <2>6, <2>7, <2>11 DEF StoreTypeOK
  <2>13. JournalsKept'
    <3>1. JournalsKept
      BY <2>6 DEF StoreKept
    <3>2. ASSUME NEW w \in Workspaces, NEW q, q = journal'[w], Journaled(w)'
          PROVE  /\ q.home = w /\ q.id <= used
                 /\ Closed(q) /\ Auditable(q) /\ FoundWhole(q)
                 /\ q.kind = "delete" => q.flow \in deleted'
                 /\ \A v \in Workspaces : journal'[v].id = q.id => v = w
      <4>1. CASE w = o.home
        <5>1. o.id <= used
          BY <2>3, UsedFacts
        <5>2. q = o
          BY <2>7, <3>2, <4>1
        <5> QED BY <2>3, <2>5, <2>7, <2>9, <2>11, <4>1, <5>1, <5>2
      <4>2. CASE w # o.home
        <5>1. q = journal[w] /\ Journaled(w)
          BY <2>7, <2>10, <3>2, <4>2
        <5>2. q.id # o.id
          BY <2>3, <5>1
        <5>3. /\ q.home = w /\ q.id <= used
              /\ Closed(q) /\ Auditable(q) /\ FoundWhole(q)
              /\ q.kind = "delete" => q.flow \in deleted
              /\ \A v \in Workspaces : journal[v].id = q.id => v = w
          BY <3>1, <5>1 DEF JournalsKept
        <5> QED BY <2>7, <2>11, <5>2, <5>3
      <4> QED BY <4>1, <4>2
    <3>3. \A w \in Workspaces : Journaled(w)' =>
            Closed(journal[w])' /\ Auditable(journal[w])' /\ FoundWhole(journal[w])'
      BY <3>2 DEF Closed, Auditable, FoundWhole
    <3> QED BY <1>1, <3>2, <3>3 DEF JournalsKept
  <2>14. BarriersKept'
    <3>1. BarriersKept
      BY <2>6 DEF StoreKept
    <3>2. ASSUME NEW w \in Workspaces, barrier[w] # NoBarrier
          PROVE  journal'[barrier[w].home].id = barrier[w].id
                 /\ w \in journal'[barrier[w].home].parts
      <4>1. barrier[w].home \in Workspaces /\ barrier[w].id # 0
        BY <2>6, <3>2, MarkerTypes DEF StoreTypeOK
      <4>2. journal[barrier[w].home].id = barrier[w].id /\ w \in journal[barrier[w].home].parts
        BY <3>1, <3>2 DEF BarriersKept, BarrierHasJournal
      <4>3. barrier[w].home # o.home
        BY <2>8, <4>1, <4>2, MarkerTypes
      <4> QED BY <2>7, <4>1, <4>2, <4>3
    <3>3. BarrierHasJournal'
      BY <1>1, <3>2 DEF BarrierHasJournal
    <3>4. ASSUME NEW w \in Workspaces, NEW q, q = journal'[w], Journaled(w)',
                 q.phase \in {"ready", "installed"}
          PROVE  AllMarked(q)'
      <4>1. w # o.home
        BY <2>3, <2>7, <3>4
      <4>2. q = journal[w] /\ Journaled(w)
        BY <2>7, <2>10, <3>4, <4>1
      <4>3. q \in Intents /\ AllMarked(q) /\ q.parts \subseteq Workspaces /\ Pointer(q) # NoBarrier
        BY <3>4, <4>2, JournalMarks, IntentTypes
      <4>4. \A v \in q.parts \ {q.home} : journal[v] = NoIntent /\ barrier[v] = Pointer(q)
        BY <4>3 DEF AllMarked, MarkedFor
      <4>5. \A v \in q.parts \ {q.home} : v # o.home
        BY <2>8, <4>3, <4>4
      <4>6. \A v \in q.parts \ {q.home} : MarkedFor(q, v)'
        BY <1>1, <2>7, <4>3, <4>4, <4>5 DEF MarkedFor
      <4> QED BY <1>1, <4>3, <4>6 DEF AllMarked
    <3>5. \A w \in Workspaces : Journaled(w)' /\ journal'[w].phase \in {"ready", "installed"} =>
            AllMarked(journal[w])'
      BY <3>4 DEF AllMarked, MarkedFor
    <3>6. \A w \in Workspaces : barrier'[w] # NoBarrier => barrier'[w].home # w
      BY <1>1, <3>1 DEF BarriersKept
    <3> QED BY <3>3, <3>5, <3>6 DEF BarriersKept
  <2>15. PrivateKept'
    BY <1>1, <2>3, <2>6, <2>7, <2>10 DEF StoreKept, PrivateKept
  <2>16. PlacesKept'
    <3>1. InPlace(o)
      BY <2>3 DEF InPlace
    <3>2. SUFFICES ASSUME edited = {}, NEW w \in Workspaces, Journaled(w)'
                   PROVE  InPlace(journal'[w])
      BY <1>1 DEF PlacesKept, InPlace, ToMove, Moved
    <3> QED BY <2>6, <2>7, <2>10, <3>1, <3>2 DEF StoreKept, PlacesKept
  <2>17. FlowsKept'
    <3>1. FlowsKept
      BY <2>6 DEF StoreKept
    <3>2. ASSUME NEW f \in Flows PROVE Installing(f)' \/ FlowWhole(f)'
      <4>1. FlowWhole(f) => FlowWhole(f)'
        BY <1>1 DEF FlowWhole
      <4>2. Home[f] \in Workspaces
        BY LifecycleAssumption
      <4>3. Installing(f) => Installing(f)'
        BY <2>7, <2>8, <4>2 DEF Installing, Journaled
      <4> QED BY <3>1, <4>1, <4>3 DEF FlowsKept
    <3>3. ASSUME NEW w \in Workspaces, Journaled(w)', journal'[w].phase = "finishing",
                 journal'[w].kind = "convert"
          PROVE  disk[Package(journal'[w].flow)] # "absent"
      BY <2>3, <2>7, <2>10, <3>1, <3>3 DEF FlowsKept
    <3> QED BY <1>1, <3>2, <3>3 DEF FlowsKept
  <2>18. NothingDestroyed'
    BY <1>1, <2>6, <2>11 DEF StoreKept, NothingDestroyed
  <2>19. StoreKept'
    BY <2>12, <2>13, <2>14, <2>15, <2>16, <2>17, <2>18 DEF StoreKept
  <2>20. PICK todo : todo = o.parts \ {o.home}
    OBVIOUS
  <2>21. StepsTo(k, "mark", o, todo, worker[k].fresh)
    BY <1>2, <2>1, <2>20, InvFacts, Going
  <2>22. /\ worker'[k].pc = "mark" /\ worker'[k].o = o /\ worker'[k].todo = todo
         /\ Records' /\ \A j \in Workers \ {k} : worker'[j] = worker[j]
    BY <2>21 DEF StepsTo
  <2>23. Footprint(k)
    <3>1. SameIntent(o, o)
      BY DEF SameIntent
    <3> QED BY <1>1, <1>2, <2>1, <2>7, <2>22, <3>1 DEF Footprint
  <2>24. Phased(k)' /\ todo \subseteq Outstanding(k)'
    BY <2>3, <2>20, <2>22 DEF Phased, Outstanding
  <2>25. OwnMarks(k)' /\ OwnFiles(k)'
    BY <2>20, <2>22 DEF OwnMarks, OwnFiles
  <2>26. \A w \in Workspaces : lock'[w] = k <=> w \in o.parts
    BY <1>1, <1>2, <2>1, InvFacts DEF Holds, Collected, Executes, ExecutionSteps
  <2>27. worker[k].fresh \in BOOLEAN
    BY InvFacts DEF WorkerKept, WorkerShaped
  <2>28. /\ o.id \in 0..used' /\ journal'[o.home] = o /\ "mark" \in ExecutionSteps
    BY <1>1, <2>3, <2>7 DEF ExecutionSteps
  <2>29. WorkerKept(k)' /\ ~Asks(k)'
    BY <2>3, <2>21, <2>24, <2>25, <2>26, <2>27, <2>28, ExecutionKept
  <2>30. worker'[k].o.id \in {worker[k].o.id, 0} /\ conflicted' = FALSE
    BY <1>1, <1>2, <2>22, InvFacts
  <2> QED BY <2>2, <2>19, <2>22, <2>23, <2>29, <2>30, ControlGoes
<1> QED BY <1>3, <1>4

LEMMA FinishKeeps ==
  ASSUME LifecycleInv, NEW k \in Workers, Finish(k)
  PROVE  LifecycleInv'
<1>1. /\ worker[k].pc = "unmark" /\ worker[k].todo = {} /\ Executes(k) /\ Release(k)
      /\ disk' = disk /\ private' = private /\ barrier' = barrier /\ conflicted' = conflicted
      /\ used' = used /\ workerCrashes' = workerCrashes /\ edited' = edited /\ deleted' = deleted
  BY DEF Finish, WorkerAt, tallies, Executes, ExecutionSteps
<1>2. PICK o : o = worker[k].o
  OBVIOUS
<1>3. /\ o \in Intents /\ o.home \in Workspaces /\ o.phase = "finishing" /\ InControl(k)
      /\ journal[o.home] = o
  BY <1>1, <1>2, ExecFacts DEF Phased
<1>4. StoreKept /\ StoreTypeOK
  BY DEF LifecycleInv, StoreKept
<1>5. /\ journal' \in [Workspaces -> Intents \cup {NoIntent}]
      /\ journal'[o.home] = NoIntent /\ \A w \in Workspaces \ {o.home} : journal'[w] = journal[w]
  <2>1. journal' = [journal EXCEPT ![o.home] = NoIntent]
    BY <1>2 DEF Finish
  <2> QED BY <1>3, <1>4, <2>1 DEF StoreTypeOK
<1>6. /\ \A w \in Workspaces : Journaled(w)' => Journaled(w) /\ w # o.home /\ journal'[w] = journal[w]
      /\ \A w \in Workspaces : Journaled(w) /\ w # o.home => Journaled(w)'
  BY <1>5 DEF Journaled
<1>7. Leaves(k)
  BY <1>1, InvFacts, Releasing
<1>8. /\ \A w \in Workspaces : lock'[w] # k
      /\ \A j \in Workers \ {k}, w \in Workspaces : lock'[w] = j <=> lock[w] = j
      /\ lock' \in [Workspaces -> Workers \cup {Nobody}]
  BY <1>7, InvFacts, LocksOfOthers DEF Leaves
<1>9. StoreTypeOK'
  BY <1>1, <1>4, <1>5, <1>8 DEF StoreTypeOK
<1>10. JournalsKept'
  <2>1. JournalsKept
    BY <1>4 DEF StoreKept
  <2>2. ASSUME NEW w \in Workspaces, NEW q, q = journal'[w], Journaled(w)'
        PROVE  /\ q.home = w /\ q.id <= used
               /\ Closed(q) /\ Auditable(q) /\ FoundWhole(q)
               /\ q.kind = "delete" => q.flow \in deleted
               /\ \A v \in Workspaces : journal'[v].id = q.id => v = w
    <3>1. q = journal[w] /\ Journaled(w) /\ q.id # 0
      BY <1>6, <2>2, JournalMarks
    <3>2. \A v \in Workspaces : journal'[v].id = q.id => journal[v].id = q.id
      BY <1>5, <3>1, MarkerTypes
    <3> QED BY <2>1, <3>1, <3>2 DEF JournalsKept
  <2>3. \A w \in Workspaces : Journaled(w)' =>
          Closed(journal[w])' /\ Auditable(journal[w])' /\ FoundWhole(journal[w])'
    BY <2>2 DEF Closed, Auditable, FoundWhole
  <2> QED BY <1>1, <2>2, <2>3 DEF JournalsKept
<1>11. BarriersKept'
  <2>1. BarriersKept
    BY <1>4 DEF StoreKept
  <2>2. ASSUME NEW w \in Workspaces, barrier[w] # NoBarrier
        PROVE  journal'[barrier[w].home].id = barrier[w].id
               /\ w \in journal'[barrier[w].home].parts
    <3>1. barrier[w] \in Pointers /\ barrier[w].home \in Workspaces
      BY <1>4, <2>2, MarkerTypes DEF StoreTypeOK
    <3>2. journal[barrier[w].home].id = barrier[w].id /\ w \in journal[barrier[w].home].parts
      BY <2>1, <2>2 DEF BarriersKept, BarrierHasJournal
    <3>3. barrier[w] # Pointer(o)
      BY <1>1, <1>2, InvFacts DEF WorkerKept, OwnMarks
    <3>4. barrier[w].home # o.home
      BY <1>3, <3>1, <3>2, <3>3, PointerOf
    <3> QED BY <1>5, <3>1, <3>2, <3>4
  <2>3. BarrierHasJournal'
    BY <1>1, <2>2 DEF BarrierHasJournal
  <2>4. ASSUME NEW w \in Workspaces, NEW q, q = journal'[w], Journaled(w)',
               q.phase \in {"ready", "installed"}
        PROVE  AllMarked(q)'
    <3>1. q = journal[w] /\ Journaled(w)
      BY <1>6, <2>4
    <3>2. q \in Intents /\ AllMarked(q) /\ q.parts \subseteq Workspaces
      BY <2>4, <3>1, JournalMarks
    <3>3. \A v \in q.parts \ {q.home} : MarkedFor(q, v)'
      BY <1>1, <1>5, <3>2 DEF AllMarked, MarkedFor
    <3> QED BY <1>1, <3>2, <3>3 DEF AllMarked
  <2>5. \A w \in Workspaces : Journaled(w)' /\ journal'[w].phase \in {"ready", "installed"} =>
          AllMarked(journal[w])'
    BY <2>4 DEF AllMarked, MarkedFor
  <2>6. \A w \in Workspaces : barrier'[w] # NoBarrier => barrier'[w].home # w
    BY <1>1, <2>1 DEF BarriersKept
  <2> QED BY <2>3, <2>5, <2>6 DEF BarriersKept
<1>12. PrivateKept'
  BY <1>1, <1>4, <1>6 DEF StoreKept, PrivateKept
<1>13. PlacesKept'
  <2>1. SUFFICES ASSUME edited = {}, NEW w \in Workspaces, Journaled(w)'
                 PROVE  InPlace(journal'[w])
    BY <1>1 DEF PlacesKept, InPlace, ToMove, Moved
  <2> QED BY <1>4, <1>6, <2>1 DEF StoreKept, PlacesKept
<1>14. FlowsKept'
  <2>1. FlowsKept
    BY <1>4 DEF StoreKept
  <2>2. ASSUME NEW f \in Flows PROVE Installing(f)' \/ FlowWhole(f)'
    <3>1. FlowWhole(f) => FlowWhole(f)'
      BY <1>1 DEF FlowWhole
    <3>2. Home[f] \in Workspaces
      BY LifecycleAssumption
    <3>3. Installing(f) => Installing(f)'
      BY <1>3, <1>5, <1>6, <3>2 DEF Installing
    <3> QED BY <2>1, <3>1, <3>3 DEF FlowsKept
  <2>3. ASSUME NEW w \in Workspaces, Journaled(w)', journal'[w].phase = "finishing",
               journal'[w].kind = "convert"
        PROVE  disk[Package(journal'[w].flow)] # "absent"
    BY <1>6, <2>1, <2>3 DEF FlowsKept
  <2> QED BY <1>1, <2>2, <2>3 DEF FlowsKept
<1>15. NothingDestroyed'
  BY <1>1, <1>4 DEF StoreKept, NothingDestroyed
<1>16. StoreKept'
  BY <1>9, <1>10, <1>11, <1>12, <1>13, <1>14, <1>15 DEF StoreKept
<1>17. WorkerKept(k)'
  <2>1. used' \in 0..Operations
    BY <1>1, InvFacts
  <2> QED BY <1>7, <1>8, <2>1, IdleKept DEF Leaves
<1>18. /\ Records' /\ worker'[k].o.id = 0 /\ ~Asks(k)'
       /\ \A j \in Workers \ {k} : worker'[j] = worker[j]
  BY <1>7, MarkerTypes DEF Leaves, StepsTo, Asks
<1>19. Footprint(k)
  BY <1>1, <1>2, <1>5, <1>8, <1>18 DEF Footprint
<1>20. conflicted' = FALSE
  BY <1>1, InvFacts
<1> QED BY <1>3, <1>16, <1>17, <1>18, <1>19, <1>20, ControlGoes

LEMMA EditKeeps ==
  ASSUME LifecycleInv, NEW x \in Files, Edit(x)
  PROVE  LifecycleInv'
<1>1. /\ disk' = [disk EXCEPT ![x] = "edited"] /\ edited' = edited \cup {x}
      /\ private' = private /\ journal' = journal /\ barrier' = barrier /\ lock' = lock
      /\ worker' = worker /\ used' = used /\ workerCrashes' = workerCrashes /\ deleted' = deleted
      /\ conflicted' = conflicted
  BY DEF Edit
<1>2. StoreKept /\ StoreTypeOK /\ WorkersKept /\ conflicted = FALSE
  BY DEF LifecycleInv, StoreKept, PreparedFinishes
<1>3. /\ disk' \in [Files -> Contents \ {"part"}]
      /\ disk'[x] = "edited" /\ \A y \in Files \ {x} : disk'[y] = disk[y]
  BY <1>1, <1>2 DEF StoreTypeOK, Contents
<1>4. \A y \in Files : disk'[y] = disk[y] \/ disk'[y] = "edited"
  BY <1>3
<1>5. edited' # {} /\ edited' \subseteq Files
  BY <1>1, <1>2 DEF StoreTypeOK
<1>6. StoreTypeOK'
  BY <1>1, <1>2, <1>3, <1>5 DEF StoreTypeOK
<1>7. JournalsKept'
  BY <1>1, <1>2 DEF StoreKept, JournalsKept, Journaled, Closed, Auditable, FoundWhole
<1>8. BarriersKept'
  BY <1>1, <1>2 DEF StoreKept, BarriersKept, BarrierHasJournal, Journaled, AllMarked, MarkedFor
<1>9. PrivateKept'
  BY <1>1, <1>2 DEF StoreKept, PrivateKept, Journaled
<1>10. PlacesKept'
  BY <1>5 DEF PlacesKept
<1>11. FlowsKept'
  <2>1. FlowsKept
    BY <1>2 DEF StoreKept
  <2>2. ASSUME NEW f \in Flows, FlowWhole(f) PROVE FlowWhole(f)'
    <3>1. Legacy(f) \in Files /\ Package(f) \in Files /\ \A b \in Bridges : Bridge(b) \in Files
      BY FileKinds
    <3>2. \A y \in Files : disk'[y] = "absent" => disk[y] = "absent"
      BY <1>4
    <3>3. \A y \in Files : disk'[y] \in {"old", "new"} => disk'[y] = disk[y]
      BY <1>4
    <3> QED BY <1>5, <2>2, <3>1, <3>2, <3>3 DEF FlowWhole
  <2>3. \A f \in Flows : Installing(f)' <=> Installing(f)
    BY <1>1 DEF Installing, Journaled
  <2>4. ASSUME NEW w \in Workspaces, Journaled(w), journal[w].phase = "finishing",
               journal[w].kind = "convert"
        PROVE  disk'[Package(journal[w].flow)] # "absent"
    <3>1. disk[Package(journal[w].flow)] # "absent"
      BY <2>1, <2>4 DEF FlowsKept
    <3>2. journal[w].flow \in Flows
      BY <2>4, JournalMarks, IntentTypes
    <3>3. Package(journal[w].flow) \in Files
      BY <3>2, FileKinds
    <3> QED BY <1>4, <3>1, <3>3
  <2> QED BY <1>1, <2>1, <2>2, <2>3, <2>4 DEF FlowsKept, Journaled
<1>12. NothingDestroyed'
  <2>1. NothingDestroyed
    BY <1>2 DEF StoreKept
  <2>2. \A y \in edited' : disk'[y] = "edited" \/ \E i \in Ids : private'[i][y] = "edited"
    <3>1. \A y \in edited : y \in Files
      BY <1>2 DEF StoreTypeOK
    <3> QED BY <1>1, <1>3, <1>4, <2>1, <3>1 DEF NothingDestroyed
  <2>3. ASSUME NEW f \in Flows \ deleted
        PROVE  \/ disk'[Legacy(f)] # "absent" \/ disk'[Package(f)] # "absent"
               \/ \E i \in Ids : private[i][Legacy(f)] # "absent"
    BY <1>4, <2>1, FileKinds DEF NothingDestroyed
  <2> QED BY <1>1, <2>2, <2>3 DEF NothingDestroyed
<1>13. StoreKept'
  BY <1>6, <1>7, <1>8, <1>9, <1>10, <1>11, <1>12 DEF StoreKept
<1>14. ASSUME NEW k \in Workers PROVE WorkerKept(k)'
  <2>1. WorkerKept(k)
    BY <1>2 DEF WorkersKept
  <2>2. WorkerShaped(k)'
    BY <1>1, <2>1 DEF WorkerKept, WorkerShaped, Phased, Outstanding
  <2>3. OwnLocks(k)'
    BY <1>1, <2>1 DEF WorkerKept, OwnLocks, Holds, Collected, Executes
  <2>4. OwnIntent(k)'
    BY <1>1, <2>1 DEF WorkerKept, OwnIntent, Asks, Executes
  <2>5. OwnMarks(k)'
    BY <1>1, <2>1 DEF WorkerKept, OwnMarks, AllMarked, MarkedFor
  <2>6. OwnFiles(k)'
    <3>1. worker[k].pc = "move" => FirstFile(worker[k].todo) \in Files
      <4>1. SUFFICES ASSUME worker[k].pc = "move" PROVE FirstFile(worker[k].todo) \in Files
        OBVIOUS
      <4>2. worker[k].todo # {}
        BY <2>1, <4>1 DEF WorkerKept, WorkerShaped
      <4> QED BY <4>1, <4>2, NextTarget
    <3> QED BY <1>1, <1>4, <1>5, <2>1, <3>1 DEF WorkerKept, OwnFiles
  <2> QED BY <2>2, <2>3, <2>4, <2>5, <2>6 DEF WorkerKept
<1>15. WorkersKept'
  BY <1>1, <1>2, <1>14 DEF WorkersKept, Asks
<1> QED BY <1>1, <1>2, <1>13, <1>15 DEF LifecycleInv, PreparedFinishes

LEMMA InitKeeps ==
  ASSUME LifecycleInit
  PROVE  LifecycleInv
<1>1. /\ private = [i \in Ids |-> [x \in Files |-> "absent"]]
      /\ journal = [w \in Workspaces |-> NoIntent]
      /\ barrier = [w \in Workspaces |-> NoBarrier]
      /\ lock = [w \in Workspaces |-> Nobody]
      /\ worker = [k \in Workers |-> Idle]
      /\ used = 0 /\ workerCrashes = 0 /\ edited = {} /\ deleted = {} /\ conflicted = FALSE
  BY DEF LifecycleInit
<1>2. PICK converted \in SUBSET Flows :
         disk = [x \in Files |->
           CASE x[1] = "legacy"  -> IF x[2] \in converted THEN "absent" ELSE "old"
             [] x[1] = "package" -> IF x[2] \in converted THEN "new" ELSE "absent"
             [] OTHER -> IF Imported[x[2]] \in converted THEN "new" ELSE "old"]
  BY DEF LifecycleInit
<1>3. \A f \in Flows : /\ disk[Legacy(f)] = IF f \in converted THEN "absent" ELSE "old"
                       /\ disk[Package(f)] = IF f \in converted THEN "new" ELSE "absent"
  <2>1. \A f : Legacy(f)[1] = "legacy" /\ Legacy(f)[2] = f
               /\ Package(f)[1] = "package" /\ Package(f)[2] = f
    BY DEF Legacy, Package
  <2> QED BY <1>2, <2>1, FileKinds
<1>4. \A b \in Bridges : disk[Bridge(b)] = IF Imported[b] \in converted THEN "new" ELSE "old"
  <2>1. \A b : Bridge(b)[1] = "bridge" /\ Bridge(b)[2] = b
    BY DEF Bridge
  <2> QED BY <1>2, <2>1, FileKinds
<1>5. disk \in [Files -> Contents \ {"part"}]
  <2>1. DOMAIN disk = Files /\ disk = [x \in Files |-> disk[x]]
    BY <1>2
  <2>2. \A x \in Files : disk[x] \in Contents \ {"part"}
    BY <1>3, <1>4, FileKinds DEF Contents
  <2> QED BY <2>1, <2>2
<1>6. StoreTypeOK
  <2>1. 0 \in 0..Operations /\ 0 \in 0..WorkerCrashes
    BY LifecycleAssumption
  <2>2. private \in [Ids -> [Files -> Contents]]
    BY <1>1 DEF Contents
  <2>3. /\ journal \in [Workspaces -> Intents \cup {NoIntent}]
        /\ barrier \in [Workspaces -> Pointers \cup {NoBarrier}]
        /\ lock \in [Workspaces -> Workers \cup {Nobody}]
    BY <1>1
  <2> QED BY <1>1, <1>5, <2>1, <2>2, <2>3 DEF StoreTypeOK
<1>7. \A w \in Workspaces : ~Journaled(w)
  BY <1>1 DEF Journaled
<1>8. JournalsKept /\ PrivateKept /\ PlacesKept
  BY <1>1, <1>7 DEF JournalsKept, PrivateKept, PlacesKept
<1>9. BarriersKept
  BY <1>1, <1>7 DEF BarriersKept, BarrierHasJournal
<1>10. FlowsKept
  <2>1. \A f \in Flows : FlowWhole(f)
    BY <1>3, <1>4 DEF FlowWhole
  <2> QED BY <1>7, <2>1 DEF FlowsKept
<1>11. NothingDestroyed
  BY <1>1, <1>3 DEF NothingDestroyed
<1>12. StoreKept
  BY <1>6, <1>8, <1>9, <1>10, <1>11 DEF StoreKept
<1>13. ASSUME NEW k \in Workers PROVE WorkerKept(k)
  <2>1. worker[k].pc = "idle" /\ worker[k].o = NoIntent /\ worker[k].todo = {} /\ worker[k].fresh = FALSE
    BY <1>1 DEF Idle
  <2>2. ~Executes(k) /\ ~Asks(k)
    BY <2>1 DEF Executes, ExecutionSteps, Asks
  <2>3. WorkerShaped(k)
    BY <2>1 DEF WorkerShaped
  <2>4. OwnLocks(k)
    BY <1>1, <2>1, <2>2, LifecycleAssumption DEF OwnLocks, Holds
  <2>5. OwnIntent(k)
    BY <1>1, <2>1, <2>2, MarkerTypes DEF OwnIntent
  <2>6. OwnMarks(k) /\ OwnFiles(k)
    BY <2>1 DEF OwnMarks, OwnFiles
  <2> QED BY <2>3, <2>4, <2>5, <2>6 DEF WorkerKept
<1>14. \A k \in Workers : ~Asks(k)
  BY <1>1 DEF Idle, Asks
<1>15. worker = [k \in Workers |-> [pc |-> worker[k].pc, o |-> worker[k].o,
                                    todo |-> worker[k].todo, fresh |-> worker[k].fresh]]
  BY <1>1 DEF Idle
<1> QED BY <1>1, <1>12, <1>13, <1>14, <1>15 DEF LifecycleInv, WorkersKept, PreparedFinishes

LEMMA StutterKeeps ==
  ASSUME LifecycleInv, UNCHANGED lifecycle
  PROVE  LifecycleInv'
<1>1. /\ disk' = disk /\ private' = private /\ journal' = journal /\ barrier' = barrier
      /\ lock' = lock /\ worker' = worker /\ used' = used /\ workerCrashes' = workerCrashes
      /\ edited' = edited /\ deleted' = deleted /\ conflicted' = conflicted
  BY DEF lifecycle
<1>2. StoreKept'
  BY <1>1, UsedFacts, StoreStays DEF LifecycleInv, StoreKept, StoreTypeOK, StoreSame
<1>3. ASSUME NEW k \in Workers PROVE WorkerKept(k)'
  <2>1. WorkerKept(k)
    BY DEF LifecycleInv, WorkersKept
  <2>2. Spared(k)
    BY <1>1, <2>1, UsedFacts DEF Spared, WorkerKept, OwnIntent
  <2> QED BY <2>1, <2>2, SparedKept
<1>4. WorkersKept'
  BY <1>1, <1>3 DEF LifecycleInv, WorkersKept, Asks
<1> QED BY <1>1, <1>2, <1>4 DEF LifecycleInv, PreparedFinishes

LEMMA NextKeeps ==
  ASSUME LifecycleInv, [LifecycleNext]_lifecycle
  PROVE  LifecycleInv'
<1>1. CASE \E x \in Files : Edit(x)
  BY <1>1, EditKeeps
<1>2. CASE UNCHANGED lifecycle
  BY <1>2, StutterKeeps
<1>3. ASSUME NEW k \in Workers,
         \/ \E f \in Flows, kind \in {"convert", "delete"} : Ask(k, kind, f)
         \/ \E w \in Workspaces : Lookup(k, w)
         \/ Capture(k) \/ Audit(k) \/ Lock(k) \/ Begin(k) \/ Discover(k) \/ Reread(k)
         \/ InstallMarker(k) \/ Marked(k) \/ PreparePartly(k) \/ Prepare(k) \/ Ready(k)
         \/ Approve(k) \/ Look(k) \/ Move(k) \/ SaveInstalled(k) \/ Check(k)
         \/ CleanFilePartly(k) \/ CleanFile(k) \/ Cleaned(k) \/ RemoveMarker(k) \/ Finish(k)
         \/ WorkerCrash(k)
      PROVE  LifecycleInv'
  <2>1. CASE \E f \in Flows, kind \in {"convert", "delete"} : Ask(k, kind, f)
    BY <2>1, AskKeeps
  <2>2. CASE \E w \in Workspaces : Lookup(k, w)
    BY <2>2, LookupKeeps
  <2>3. CASE Capture(k) \/ Audit(k) \/ Lock(k) \/ Begin(k) \/ Discover(k) \/ Reread(k)
    BY <2>3, CaptureKeeps, AuditKeeps, LockKeeps, BeginKeeps, DiscoverKeeps, RereadKeeps
  <2>4. CASE InstallMarker(k) \/ Marked(k) \/ PreparePartly(k) \/ Prepare(k) \/ Ready(k)
    BY <2>4, InstallMarkerKeeps, MarkedKeeps, PreparePartlyKeeps, PrepareKeeps, ReadyKeeps
  <2>5. CASE Approve(k) \/ Look(k) \/ Move(k) \/ SaveInstalled(k) \/ Check(k)
    BY <2>5, ApproveKeeps, LookKeeps, MoveKeeps, SaveInstalledKeeps, CheckKeeps
  <2>6. CASE CleanFilePartly(k) \/ CleanFile(k) \/ Cleaned(k) \/ RemoveMarker(k) \/ Finish(k)
    BY <2>6, CleanFilePartlyKeeps, CleanFileKeeps, CleanedKeeps, RemoveMarkerKeeps, FinishKeeps
  <2>7. CASE WorkerCrash(k)
    BY <2>7, CrashKeeps
  <2> QED BY <1>3, <2>1, <2>2, <2>3, <2>4, <2>5, <2>6, <2>7
<1> QED BY <1>1, <1>2, <1>3 DEF LifecycleNext

-----------------------------------------------------------------------------
(* The properties.                                                             *)

LEMMA TypesFollow ==
  ASSUME LifecycleInv
  PROVE  LifecycleTypeOK
<1>1. StoreTypeOK /\ JournalsKept
  BY DEF LifecycleInv, StoreKept
<1>2. \A w \in Workspaces :
         /\ journal[w] # NoIntent => journal[w] \in Intents /\ journal[w].home = w
         /\ barrier[w] \in Pointers \cup {NoBarrier}
         /\ lock[w] \in Workers \cup {Nobody}
  BY <1>1 DEF StoreTypeOK, JournalsKept, Journaled
<1>3. \A k \in Workers : WorkerAt(k, "idle") \/ worker[k].o \in Intents \cup Pointers
  BY DEF LifecycleInv, WorkersKept, WorkerKept, WorkerShaped, WorkerAt
<1> QED BY <1>1, <1>2, <1>3 DEF StoreTypeOK, LifecycleTypeOK

LEMMA WholeFollows ==
  ASSUME LifecycleInv
  PROVE  ReadersSeeWhole
<1>1. ASSUME NEW f \in Flows, Readable(Home[f]) PROVE FlowWhole(f)
  <2>1. ~Journaled(Home[f])
    BY <1>1 DEF Readable, Unmarked, Journaled
  <2> QED BY <2>1 DEF LifecycleInv, StoreKept, FlowsKept, Installing
<1>2. \A b \in Bridges : Imported[b] \in Flows
  BY LifecycleAssumption
<1>3. PlacesWhole
  BY <1>1, <1>2 DEF PlacesWhole, FlowWhole
<1> QED BY <1>3, TypesFollow DEF ReadersSeeWhole

\* Among workers that collect locks, the one that holds the greatest needs no
\* lock that another of them holds: whoever held it would hold a greater one.
LEMMA LocksOrdered ==
  ASSUME LifecycleInv
  PROVE  NoLockCycle
<1>1. SUFFICES ASSUME NEW S \in (SUBSET Workers) \ {{}},
                      \A k \in S : WorkerAt(k, "lock") /\ \E w \in worker[k].todo : lock[w] \in S
               PROVE  FALSE
  BY DEF NoLockCycle
<1>2. \A k \in S : k \in Workers /\ worker[k].pc = "lock"
  BY <1>1 DEF WorkerAt
<1>3. ASSUME NEW k \in S
      PROVE  /\ worker[k].todo \in SUBSET Workspaces
             /\ \A w \in Workspaces : lock[w] = k =>
                  \A v \in worker[k].todo : w < v
  <2>1. WorkerShaped(k) /\ OwnLocks(k)
    BY <1>2, <1>3 DEF LifecycleInv, WorkersKept, WorkerKept
  <2>2. worker[k].todo \subseteq worker[k].o.parts /\ worker[k].o \in Intents
    BY <1>2, <1>3, <2>1 DEF WorkerShaped, Outstanding
  <2>3. worker[k].todo \in SUBSET Workspaces
    BY <2>2, IntentTypes
  <2>4. \A w \in Workspaces : lock[w] = k => w \in Collected(k)
    BY <1>2, <1>3, <2>1 DEF OwnLocks, Holds, Executes, ExecutionSteps
  <2> QED BY <1>2, <1>3, <2>1, <2>3, <2>4 DEF OwnLocks
<1>4. PICK held : held = {w \in Workspaces : lock[w] \in S}
  OBVIOUS
<1>5. held \in SUBSET Workspaces /\ held # {}
  <2>1. PICK k : k \in S
    BY <1>1
  <2>2. PICK w \in worker[k].todo : lock[w] \in S
    BY <1>1, <2>1
  <2>3. w \in Workspaces
    BY <1>3, <2>1, <2>2
  <2> QED BY <1>4, <2>2, <2>3
<1>6. PICK w \in held : \A v \in held : v <= w
  BY <1>5, GreatestOf
<1>7. PICK k \in S : k = lock[w] /\ w \in Workspaces
  BY <1>4, <1>6
<1>8. PICK v \in worker[k].todo : lock[v] \in S
  BY <1>1, <1>7
<1>9. v \in held /\ w < v
  BY <1>3, <1>4, <1>7, <1>8
<1>10. v \in Nat /\ w \in Nat /\ v <= w
  BY <1>5, <1>6, <1>9, LifecycleAssumption
<1> QED BY <1>9, <1>10

(* The strengthening holds: for any workspaces, flows and workers, any number  *)
(* of operations, crashes and edits.                                           *)
THEOREM LifecycleInvariant == LifecycleSpec => []LifecycleInv
<1>1. LifecycleInit => LifecycleInv
  BY InitKeeps
<1>2. LifecycleInv /\ [LifecycleNext]_lifecycle => LifecycleInv'
  BY NextKeeps
<1> QED BY <1>1, <1>2, PTL DEF LifecycleSpec

(* A catalogue reader sees an operation of recover_lifecycle and execute        *)
(* (publication/lifecycle.rs) as one: bridges import what is there, and a flow  *)
(* is there in one form.                                                       *)
THEOREM ReadersAlwaysSeeWhole == LifecycleSpec => []ReadersSeeWhole
<1>1. LifecycleInv => ReadersSeeWhole
  BY WholeFollows
<1> QED BY <1>1, LifecycleInvariant, PTL

(* An operation over several workspaces destroys nothing, leaves no barrier     *)
(* without a journal, meets no conflict of its own once it is prepared, and its *)
(* workers never wait in a circle (publication/lifecycle.rs).                  *)
THEOREM OperationsAlwaysSettle == LifecycleSpec => []OperationsSettle
<1>1. LifecycleInv => OperationsSettle
  BY LocksOrdered DEF LifecycleInv, StoreKept, BarriersKept, OperationsSettle
<1> QED BY <1>1, LifecycleInvariant, PTL

=============================================================================
