--------------------------- MODULE WorkspaceTools ---------------------------
(***************************************************************************)
(* The tools of a run on its workspace (zf-runtime/src/workspace_tools.rs):*)
(* a shell command with its process group, its two pipes, its log and the  *)
(* durable sink of its output; file writes, one at a time; file reads, a   *)
(* page at a time.  The run is cancelled, a limit passes, the call is      *)
(* dropped or one of its operations fails at any point.                    *)
(*                                                                         *)
(* The processes of a command are the shell and a process it leaves in the *)
(* background, which stays in the group or leaves it.  A byte is a record  *)
(* of its stream and its value; a line of a file is its length in bytes.   *)
(***************************************************************************)
EXTENDS Integers, Sequences, FiniteSets

CONSTANTS
    Jobs,           \* what is explored: subset of {"exec", "write", "read"}
    Bytes,          \* values of bytes; NewLine is one of them
    NewLine,
    Buffer,         \* bytes one read of a pipe returns at most
    Output,         \* bound: bytes a command writes
    MaxLines, MaxBytes,    \* the limits of a preview
    Timeouts,       \* whether a command has a time limit: subset of BOOLEAN
    Writers,        \* calls that write files
    FilesRead       \* files that are read: sequences of line lengths

VARIABLES
    job,
    cancel,         \* the run's cancellation token
    shell, child,   \* the processes of the command
    pipe,           \* what was written and not yet read, by stream
    written,        \* history: everything the processes wrote, by stream
    call,           \* the execution of the command
    log, sink, tail,
    mutex, writer,  \* WorkspaceTools.mutations and the calls that write
    begun,          \* history: the calls whose write has begun
    reader          \* an agent that reads a file page by page

command == <<shell, child, pipe, written, call, log, sink, tail>>
workspace == <<job, cancel, shell, child, pipe, written, call, log, sink, tail,
          mutex, writer, begun, reader>>

Streams == {"stdout", "stderr"}
Free == "free"

WorkspaceInit ==
    /\ job \in Jobs
    /\ cancel = FALSE
    /\ shell = "none" /\ child = "none"
    /\ pipe = [s \in Streams |-> <<>>] /\ written = pipe
    /\ call \in [pc : {"called"}, done : {{}}, status : {"none"}, failure : {"none"},
                 limit : IF job = "exec" THEN Timeouts ELSE {FALSE}, drain : {FALSE}, cut : {FALSE}]
    /\ log = <<>> /\ sink = <<>> /\ tail = [bytes |-> <<>>, truncated |-> FALSE]
    /\ mutex = Free /\ writer = [w \in Writers |-> "called"] /\ begun = {}
    /\ reader \in [file : IF job = "read" THEN FilesRead ELSE {<<>>}, offset : {1},
                   seen : {<<>>}, pc : {"reading"}]

CancelRun ==
    /\ ~cancel /\ cancel' = TRUE
    /\ UNCHANGED <<job, command, mutex, writer, begun, reader>>

-----------------------------------------------------------------------------
(***************************************************************************)
(* The processes.                                                          *)
(***************************************************************************)
InGroup(p) == p \in {"running", "group"}
Holds(p) == p \in {"running", "group", "left"}
Total == Len(written["stdout"]) + Len(written["stderr"])

\* killpg reaches the processes that are in the group at that moment.
Terminated(p) == IF InGroup(p) THEN "killed" ELSE p

\* What is written after the call has no reader.
ProcessWrites ==
    /\ Holds(shell) \/ Holds(child)
    /\ call.pc = "loop"
    /\ Total < Output
    /\ \E s \in Streams, b \in Bytes :
          /\ pipe' = [pipe EXCEPT ![s] = Append(@, [stream |-> s, byte |-> b])]
          /\ written' = [written EXCEPT ![s] = Append(@, [stream |-> s, byte |-> b])]
    /\ UNCHANGED <<job, cancel, shell, child, call, log, sink, tail, mutex, writer, begun, reader>>

ProcessChanges ==
    /\ \/ shell = "running" /\ child = "none" /\ child' = "group" /\ shell' = shell
       \/ child = "group" /\ child' = "left" /\ shell' = shell
       \/ child \in {"group", "left"} /\ child' = "exited" /\ shell' = shell
       \/ shell = "running" /\ shell' \in {"exited", "failed"} /\ child' = child
    /\ UNCHANGED <<job, cancel, pipe, written, call, log, sink, tail, mutex, writer, begun, reader>>

-----------------------------------------------------------------------------
(***************************************************************************)
(* The command.                                                            *)
(***************************************************************************)
Kept == UNCHANGED <<job, cancel, mutex, writer, begun, reader>>

\* The guard of the group and kill_on_drop end what a call leaves.
Ends(pc) ==
    /\ call' = [call EXCEPT !.pc = pc]
    /\ shell' = Terminated(shell) /\ child' = Terminated(child)

\* Nothing is created for a call that comes after the cancellation.
OpenLog ==
    /\ job = "exec" /\ call.pc = "called"
    /\ call' = [call EXCEPT !.pc = IF cancel THEN "refused" ELSE "opened"]
    /\ UNCHANGED <<shell, child, pipe, written, log, sink, tail>> /\ Kept

\* The cancellation may have come while the log was created.
Spawn ==
    /\ call.pc = "opened"
    /\ IF cancel
         THEN shell' = shell /\ call' = [call EXCEPT !.pc = "refused"]
         ELSE shell' = "running" /\ call' = [call EXCEPT !.pc = "loop"]
    /\ UNCHANGED <<child, pipe, written, log, sink, tail>> /\ Kept

Newlines(bytes) == {i \in DOMAIN bytes : bytes[i].byte = NewLine}

\* The bytes before the last MaxLines lines.
LineCut(bytes) ==
    LET allowed == MaxLines + (IF bytes # <<>> /\ bytes[Len(bytes)].byte = NewLine THEN 1 ELSE 0)
        Later(i) == Cardinality({j \in Newlines(bytes) : j >= i})
        at == {i \in Newlines(bytes) : Later(i) = allowed}
    IN IF at = {} THEN 0 ELSE CHOOSE i \in at : TRUE

TailAppend(t, bytes) ==
    LET all == t.bytes \o bytes
        over == IF Len(all) > MaxBytes THEN Len(all) - MaxBytes ELSE 0
        cut == IF LineCut(all) > over THEN LineCut(all) ELSE over
    IN [bytes |-> SubSeq(all, cut + 1, Len(all)), truncated |-> t.truncated \/ cut > 0]

\* A chunk goes to the sink, which makes it durable, to the log and to the preview.
ReadPipe(s) ==
    /\ call.pc = "loop" /\ s \notin call.done /\ pipe[s] # <<>>
    /\ \E n \in 1..(IF Len(pipe[s]) < Buffer THEN Len(pipe[s]) ELSE Buffer) :
          LET chunk == SubSeq(pipe[s], 1, n) IN
          /\ pipe' = [pipe EXCEPT ![s] = SubSeq(@, n + 1, Len(@))]
          /\ \/ /\ sink' = sink \o chunk /\ log' = log \o chunk
                /\ tail' = TailAppend(tail, chunk)
                /\ UNCHANGED <<shell, child, call>>
             \/ /\ sink' \in {sink, sink \o chunk}
                /\ Ends("failed")
                /\ UNCHANGED <<log, tail>>
    /\ UNCHANGED written /\ Kept

PipeEnds(s) ==
    /\ call.pc = "loop" /\ s \notin call.done /\ pipe[s] = <<>>
    /\ ~Holds(shell) /\ ~Holds(child)
    /\ call' = [call EXCEPT !.done = @ \cup {s}]
    /\ UNCHANGED <<shell, child, pipe, written, log, sink, tail>> /\ Kept

\* Fault: only a cancelled command has its group ended.
ShellEndsAlone ==
    /\ call.pc = "loop" /\ call.status = "none" /\ shell \in {"exited", "failed"}
    /\ call' = [call EXCEPT !.status = shell, !.drain = TRUE]
    /\ UNCHANGED <<shell, child, pipe, written, log, sink, tail>> /\ Kept

\* The shell has ended: background processes must not outlive the call.
ShellEnds ==
    /\ call.pc = "loop" /\ call.status = "none" /\ shell \in {"exited", "failed"}
    /\ call' = [call EXCEPT !.status = shell, !.drain = TRUE]
    /\ child' = Terminated(child)
    /\ UNCHANGED <<shell, pipe, written, log, sink, tail>> /\ Kept

Interrupted(reason) ==
    /\ call.pc = "loop" /\ call.status = "none"
    /\ shell' = Terminated(shell) /\ child' = Terminated(child)
    /\ call' = [call EXCEPT !.status = shell', !.failure = reason, !.drain = TRUE]
    /\ UNCHANGED <<pipe, written, log, sink, tail>> /\ Kept

CommandCancelled == cancel /\ Interrupted("cancelled")
CommandTimesOut == call.limit /\ Interrupted("timeout")

Finished(cut) ==
    /\ call' = [call EXCEPT !.cut = cut,
                  !.pc = IF call.failure = "none" /\ call.status = "exited"
                           THEN "completed" ELSE "error"]
    /\ UNCHANGED <<shell, child, pipe, written, log, sink, tail>> /\ Kept

\* The command has an exit status and both pipes are at their end.
Finish ==
    /\ call.pc = "loop" /\ call.status # "none" /\ call.done = Streams
    /\ Finished(FALSE)

\* The drain limit passes: a process outside the group holds a pipe, or the sink is
\* slow.
DrainEnds ==
    /\ call.pc = "loop" /\ call.drain
    /\ Finished(TRUE)

\* The caller's own limit passes or the run ends: the future is dropped.
CallDropped ==
    /\ job = "exec" /\ call.pc \in {"called", "opened", "loop"}
    /\ Ends("dropped")
    /\ UNCHANGED <<pipe, written, log, sink, tail>> /\ Kept

-----------------------------------------------------------------------------
(***************************************************************************)
(* Writing files.                                                          *)
(***************************************************************************)
WriterGoes(w, pc) ==
    /\ writer' = [writer EXCEPT ![w] = pc]
    /\ begun' = IF pc = "writing" THEN begun \cup {w} ELSE begun
    /\ UNCHANGED <<job, cancel, command, reader>>

\* Whether the call may wait for the lock, and whether it may give up waiting.
WriterAsks(w) ==
    /\ job = "write" /\ mutex' = mutex
    /\ \/ writer[w] = "called" /\ WriterGoes(w, IF cancel THEN "refused" ELSE "waiting")
       \/ writer[w] = "waiting" /\ cancel /\ WriterGoes(w, "refused")

\* The lock may be granted to a call that has been cancelled meanwhile.
WriterLocks(w) ==
    /\ writer[w] = "waiting" /\ mutex = Free
    /\ IF cancel THEN mutex' = mutex /\ WriterGoes(w, "refused")
                 ELSE mutex' = w /\ WriterGoes(w, "writing")

\* A write that has begun is waited for; the library completes it or leaves the
\* file as it was.
WriterEnds(w) ==
    /\ writer[w] = "writing"
    /\ mutex' = Free
    /\ \E pc \in {"completed", "failed"} : WriterGoes(w, pc)

\* The call is dropped: the lock is free, while the file system may still be at it.
WriterDropped(w) ==
    /\ writer[w] = "writing"
    /\ mutex' = Free
    /\ WriterGoes(w, "abandoned")

-----------------------------------------------------------------------------
(***************************************************************************)
(* Reading files.                                                          *)
(***************************************************************************)

\* The library's slice and its line counter, which stops behind the slice.
Slice(file, offset) ==
    SubSeq(file, offset, IF Len(file) < offset + MaxLines THEN Len(file) ELSE offset + MaxLines - 1)
Observed(file, offset) == IF Len(file) < offset + MaxLines THEN Len(file) ELSE offset + MaxLines

\* The lines of a slice that fit, as a count.
TruncateHead(slice) ==
    LET Size(n) == LET sum[i \in 0..n] == IF i = 0 THEN 0 ELSE sum[i - 1] + slice[i] IN sum[n]
    IN CHOOSE n \in 0..Len(slice) :
          /\ Size(n) <= MaxBytes
          /\ n < Len(slice) => Size(n + 1) > MaxBytes

HasMore(r, lines) ==
    \/ lines < Len(Slice(r.file, r.offset))
    \/ Observed(r.file, r.offset) > r.offset - 1 + lines

\* One page, then the next from where it says.  A line that alone is too long ends
\* the reading with a notice.
ReadPage ==
    /\ job = "read" /\ reader.pc = "reading" /\ ~cancel
    /\ LET slice == Slice(reader.file, reader.offset)
           lines == TruncateHead(slice)
       IN reader' =
            IF slice # <<>> /\ slice[1] > MaxBytes
              THEN [reader EXCEPT !.pc = "notice"]
            ELSE IF reader.offset # 1 /\ Observed(reader.file, reader.offset) < reader.offset
              THEN [reader EXCEPT !.pc = "failed"]
            ELSE [reader EXCEPT
                    !.seen = @ \o [i \in 1..lines |-> reader.offset + i - 1],
                    !.offset = @ + lines,
                    !.pc = IF HasMore(reader, lines) THEN "reading" ELSE "read"]
    /\ UNCHANGED <<job, cancel, command, mutex, writer, begun>>

-----------------------------------------------------------------------------
Exec ==
    \/ OpenLog \/ Spawn \/ ProcessWrites \/ ProcessChanges
    \/ \E s \in Streams : ReadPipe(s) \/ PipeEnds(s)
    \/ ShellEnds \/ CommandCancelled \/ CommandTimesOut
    \/ Finish \/ DrainEnds \/ CallDropped

WorkspaceNext ==
    \/ CancelRun \/ Exec \/ ReadPage
    \/ \E w \in Writers : WriterAsks(w) \/ WriterLocks(w) \/ WriterEnds(w) \/ WriterDropped(w)

WorkspaceSpec == WorkspaceInit /\ [][WorkspaceNext]_workspace

-----------------------------------------------------------------------------
(***************************************************************************)
(* What must hold.                                                         *)
(***************************************************************************)
Returned == call.pc \in {"completed", "error"}

\* Once a command's call has ended, however it ended, no process of its group is
\* left; a command or a write answered as cancelled before its execution was never
\* started.
NothingLeft ==
    /\ call.pc \notin {"called", "opened", "loop"} => ~InGroup(shell) /\ ~InGroup(child)
    /\ call.pc = "refused" => shell = "none"
    /\ \A w \in Writers : writer[w] = "refused" => w \notin begun

Lines(bytes) ==
    Cardinality(Newlines(bytes))
    + (IF bytes = <<>> \/ bytes[Len(bytes)].byte = NewLine THEN 0 ELSE 1)
Suffix(bytes, n) == SubSeq(bytes, n + 1, Len(bytes))
OfStream(bytes, s) == SelectSeq(bytes, LAMBDA b : b.stream = s)

\* The log of a command that has returned is what the sink made durable; it holds
\* all that the processes wrote, in the order of each stream, unless the drain
\* limit has cut it; the preview is its longest end within the limits, however
\* the output was read, and says whether it is all.
OutputKept ==
    Returned =>
        /\ sink = log
        /\ ~call.cut => \A s \in Streams : OfStream(log, s) = written[s]
        /\ LET fits == {n \in 0..Len(log) : /\ Len(Suffix(log, n)) <= MaxBytes
                                            /\ Lines(Suffix(log, n)) <= MaxLines}
               first == CHOOSE n \in fits : \A m \in fits : n <= m
           IN tail = [bytes |-> Suffix(log, first), truncated |-> first > 0]

\* An agent that reads on from the offset it was given sees every line once.
PagesCover ==
    /\ reader.pc # "failed"
    /\ reader.pc = "read" => reader.seen = [i \in DOMAIN reader.file |-> i]

\* What a model is shown of an output or of a file is what there is: OutputKept and
\* PagesCover.
PreviewsHonest == OutputKept /\ PagesCover

-----------------------------------------------------------------------------
(* The strengthening under which NothingLeft is inductive.                     *)

\* The processes agree with the place of the call; once its command has a status,
\* the group is empty and stays so.
NoGroup == ~InGroup(shell) /\ ~InGroup(child)
CommandKept ==
    /\ call = [pc |-> call.pc, done |-> call.done, status |-> call.status,
               failure |-> call.failure, limit |-> call.limit, drain |-> call.drain,
               cut |-> call.cut]
    /\ call.pc \in {"called", "opened", "refused"} =>
         shell = "none" /\ child = "none" /\ call.status = "none"
    /\ call.pc = "loop" => shell # "none"
    /\ call.pc \notin {"called", "opened", "loop"} => NoGroup
    /\ call.status # "none" => NoGroup
    /\ call.drain => call.status # "none"

\* A write that has begun has held the lock.
WritersKept ==
    /\ writer = [w \in Writers |-> writer[w]]
    /\ \A w \in Writers : writer[w] \in {"called", "waiting", "refused"} => w \notin begun

WorkspaceInv == CommandKept /\ WritersKept
=============================================================================
