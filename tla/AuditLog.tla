------------------------------- MODULE AuditLog -------------------------------
(* The gate-decision log: internal/audit (Log, ReadAll, Prune, Follow) and    *)
(* the cw audit command on top of it. Each shim logs one row and each cw      *)
(* audit prune prunes once, all in processes of their own: writeMu orders     *)
(* nothing between them and is left out.                                      *)
(*                                                                            *)
(* A file is an inode that a path may name: its content is a sequence of      *)
(* pieces, the first two of which make a line when they are the head and the  *)
(* tail (with the newline) of one row. A write that the kernel cuts short     *)
(* appends the head only. What an inode had at its last fsync survives a      *)
(* power loss; what came after it may be cut anywhere.                        *)
(*                                                                            *)
(* A definition marked "mutant" is a bug the code could have had; no action   *)
(* uses it.                                                                   *)
EXTENDS Naturals, Sequences, Functions

CONSTANTS
    Writer,     \* processes that log one row each; a row has its writer's name
    Pruner,     \* cw audit prune processes
    Follower,   \* cw audit --follow processes
    Past,       \* sequence of the rows the log holds from before
    Old,        \* the rows older than the retention window
    MaxLosses,  \* bound: power losses
    None        \* no file

Row == Writer \cup Range(Past)

ASSUME RowAssumption == /\ Past \in Seq(Range(Past)) /\ IsInjective(Past)
                        /\ Writer \cap Range(Past) = {}
ASSUME OldAssumption == Old \subseteq Range(Past)
ASSUME InodeAssumption == "log" \notin Pruner /\ None \notin Pruner \cup {"log"}
ASSUME LossAssumption == MaxLosses \in Nat

\* The file the first Log creates, and the temp file of each prune.
Inode == {"log"} \cup Pruner
Piece == [row: Row, part: {"head", "tail"}]
Line(r) == <<[row |-> r, part |-> "head"], [row |-> r, part |-> "tail"]>>
Content(rows) == [i \in 1..(2 * Len(rows)) |-> Line(rows[(i + 1) \div 2])[2 - (i % 2)]]

VARIABLES
    path,      \* the inode gate-decisions.ndjson names
    content,   \* [Inode -> sequence of pieces]
    synced,    \* [Inode -> how many of its pieces are durable]
    losses,    \* power losses so far
    writer,    \* [Writer -> place in Log]
    fd,        \* [Writer -> the inode it has open]
    pruner,    \* [Pruner -> place in Prune]
    records,   \* [Pruner -> the rows ReadAll returned to it]
    follower,  \* [Follower -> place in cw audit --follow]
    listed,    \* [Follower -> rows of its ReadAll]
    base,      \* [Follower -> what the log held when Follow began]
    offset,    \* [Follower -> Follow's offset]
    shown,     \* [Follower -> pieces Follow's copies that did not fail have written]
    cut        \* [Follower -> pieces its failed copies have written since the last of those]

fileVars == <<path, content, synced, losses>>
writerVars == <<writer, fd>>
prunerVars == <<pruner, records>>
followerVars == <<follower, listed, base, offset, shown, cut>>
vars == <<fileVars, writerVars, prunerVars, followerVars>>

-----------------------------------------------------------------------------
\* What os.Open and os.Stat find under the path.
Log == IF path = None THEN <<>> ELSE content[path]

\* The rows of a file each of whose lines is one whole row: json.Unmarshal
\* fails on any other line.
RowsOf(pieces) == [i \in 1..(Len(pieces) \div 2) |-> pieces[2 * i].row]
Parses(pieces) == pieces = Content(RowsOf(pieces))

Grow(i, pieces) == content' = [content EXCEPT ![i] = @ \o pieces]

\* A log that nothing was logged to yet is missing.
Init ==
    /\ path = IF Past = <<>> THEN None ELSE "log"
    /\ content = [i \in Inode |-> IF i = "log" THEN Content(Past) ELSE <<>>]
    /\ synced = [i \in Inode |-> Len(content[i])]
    /\ losses = 0
    /\ writer = [w \in Writer |-> "start"]
    /\ fd = [w \in Writer |-> None]
    /\ pruner = [p \in Pruner |-> "start"]
    /\ records = [p \in Pruner |-> <<>>]
    /\ follower = [o \in Follower |-> "start"]
    /\ listed = [o \in Follower |-> <<>>]
    /\ base = [o \in Follower |-> <<>>]
    /\ offset = [o \in Follower |-> 0]
    /\ shown = [o \in Follower |-> <<>>]
    /\ cut = [o \in Follower |-> {}]

-----------------------------------------------------------------------------
(* Log                                                                       *)

Running(w) == writer[w] \in {"open", "torn", "written"}

Open(w) ==
    /\ writer[w] = "start"
    /\ path' = IF path = None THEN "log" ELSE path
    /\ fd' = [fd EXCEPT ![w] = path']
    /\ writer' = [writer EXCEPT ![w] = "open"]
    /\ UNCHANGED <<content, synced, losses, prunerVars, followerVars>>

\* f.Write: at the end of the file at that moment (O_APPEND), whole or cut
\* short; after a short write it goes on with what is left.
WriteAll(w) ==
    /\ writer[w] = "open"
    /\ Grow(fd[w], Line(w))
    /\ writer' = [writer EXCEPT ![w] = "written"]
    /\ UNCHANGED <<path, synced, losses, fd, prunerVars, followerVars>>

WriteHead(w) ==
    /\ writer[w] = "open"
    /\ Grow(fd[w], <<Line(w)[1]>>)
    /\ writer' = [writer EXCEPT ![w] = "torn"]
    /\ UNCHANGED <<path, synced, losses, fd, prunerVars, followerVars>>

WriteTail(w) ==
    /\ writer[w] = "torn"
    /\ Grow(fd[w], <<Line(w)[2]>>)
    /\ writer' = [writer EXCEPT ![w] = "written"]
    /\ UNCHANGED <<path, synced, losses, fd, prunerVars, followerVars>>

\* f.Sync, then Log returns nil.
LogUnsynced(w) ==                                        \* mutant
    /\ writer[w] = "written"
    /\ writer' = [writer EXCEPT ![w] = "logged"]
    /\ UNCHANGED <<fileVars, fd, prunerVars, followerVars>>
SyncLog(w) ==
    /\ writer[w] = "written"
    /\ synced' = [synced EXCEPT ![fd[w]] = Len(content[fd[w]])]
    /\ writer' = [writer EXCEPT ![w] = "logged"]
    /\ UNCHANGED <<path, content, losses, fd, prunerVars, followerVars>>

\* Opening, writing or syncing fails, or the shim is killed.
FailLog(w) ==
    /\ Running(w) \/ writer[w] = "start"
    /\ writer' = [writer EXCEPT ![w] = "failed"]
    /\ UNCHANGED <<fileVars, fd, prunerVars, followerVars>>

-----------------------------------------------------------------------------
(* Prune                                                                     *)

\* ReadAll; one line that does not parse fails the whole prune.
ReadRecords(p) ==
    /\ pruner[p] = "start"
    /\ \/ /\ Parses(Log)
          /\ records' = [records EXCEPT ![p] = RowsOf(Log)]
          /\ pruner' = [pruner EXCEPT ![p] = "read"]
       \/ /\ ~Parses(Log)
          /\ pruner' = [pruner EXCEPT ![p] = "failed"]
          /\ UNCHANGED records
    /\ UNCHANGED <<fileVars, writerVars, followerVars>>

\* The loop over the records: what it has kept of the first n of them.
Recent(rows) ==
    LET kept[n \in 0..Len(rows)] ==
            IF n = 0 THEN <<>>
            ELSE IF rows[n] \in Old THEN kept[n - 1] ELSE Append(kept[n - 1], rows[n])
    IN  kept

Kept(p) == Recent(records[p])[Len(records[p])]

WriteTemp(p) ==
    /\ pruner[p] = "read"
    /\ content' = [content EXCEPT ![p] = Content(Kept(p))]
    /\ pruner' = [pruner EXCEPT ![p] = "temp"]
    /\ UNCHANGED <<path, synced, losses, writerVars, records, followerVars>>

SyncTemp(p) ==
    /\ pruner[p] = "temp"
    /\ synced' = [synced EXCEPT ![p] = Len(content[p])]
    /\ pruner' = [pruner EXCEPT ![p] = "synced"]
    /\ UNCHANGED <<path, content, losses, writerVars, records, followerVars>>

Rename(p) ==
    /\ pruner[p] = "synced"
    /\ path' = p
    /\ pruner' = [pruner EXCEPT ![p] = "pruned"]
    /\ UNCHANGED <<content, synced, losses, writerVars, records, followerVars>>

\* A step fails, or the process is killed: the temp file is removed or left.
FailPrune(p) ==
    /\ pruner[p] \in {"read", "temp", "synced"}
    /\ pruner' = [pruner EXCEPT ![p] = "failed"]
    /\ UNCHANGED <<fileVars, writerVars, records, followerVars>>

-----------------------------------------------------------------------------
(* cw audit --follow                                                         *)

\* It prints the log there is and gives up if the log does not parse.
List(o) ==
    /\ follower[o] = "start"
    /\ listed' = [listed EXCEPT ![o] = IF Parses(Log) THEN RowsOf(Log) ELSE @]
    /\ follower' = [follower EXCEPT ![o] = IF Parses(Log) THEN "listed" ELSE "failed"]
    /\ UNCHANGED <<fileVars, writerVars, prunerVars, base, offset, shown, cut>>

\* Follow begins at the end of the file, as os.Stat sees it then.
Follow(o) ==
    /\ follower[o] = "listed"
    /\ base' = [base EXCEPT ![o] = Log]
    /\ offset' = [offset EXCEPT ![o] = Len(Log)]
    /\ follower' = [follower EXCEPT ![o] = "following"]
    /\ UNCHANGED <<fileVars, writerVars, prunerVars, listed, shown, cut>>

\* A tick: open the path, seek to offset, which may lie behind the end, and
\* copy the rest.
PollFromStart(o) ==                                      \* mutant
    /\ follower[o] = "following"
    /\ path # None
    /\ LET from == IF Len(Log) < offset[o] THEN 0 ELSE offset[o] IN
         /\ shown' = [shown EXCEPT ![o] = @ \o SubSeq(Log, from + 1, Len(Log))]
         /\ offset' = [offset EXCEPT ![o] = Len(Log)]
    /\ cut' = [cut EXCEPT ![o] = {}]
    /\ UNCHANGED <<fileVars, writerVars, prunerVars, follower, listed, base>>
Poll(o) ==
    /\ follower[o] = "following"
    /\ path # None
    /\ shown' = [shown EXCEPT ![o] = @ \o SubSeq(Log, offset[o] + 1, Len(Log))]
    /\ offset' = [offset EXCEPT ![o] = IF @ > Len(Log) THEN @ ELSE Len(Log)]
    /\ cut' = [cut EXCEPT ![o] = {}]
    /\ UNCHANGED <<fileVars, writerVars, prunerVars, follower, listed, base>>

\* The copy fails after any part of the rest was written (the log cannot be
\* read on, or the output not written): offset stays where it is, and Follow
\* goes on.
PollFails(o) ==
    /\ follower[o] = "following"
    /\ path # None
    /\ \E n \in offset[o]..Len(Log) :
         cut' = [cut EXCEPT ![o] = @ \cup Range(SubSeq(Log, offset[o] + 1, n))]
    /\ UNCHANGED <<fileVars, writerVars, prunerVars, follower, listed, base, offset, shown>>

\* The signal that ends it, or the log is there and cannot be opened.
StopFollowing(o) ==
    /\ follower[o] \in {"listed", "following"}
    /\ follower' = [follower EXCEPT ![o] = "failed"]
    /\ UNCHANGED <<fileVars, writerVars, prunerVars, listed, base, offset, shown, cut>>

-----------------------------------------------------------------------------
\* The machine goes down: the processes end, and each file keeps what was
\* synced and any part of what was written after that. Creating and renaming
\* a file is taken to be durable at once.
Survives(i) == {SubSeq(content[i], 1, n) : n \in synced[i]..Len(content[i])}

PowerLoss ==
    /\ losses < MaxLosses
    /\ losses' = losses + 1
    /\ content' \in {c \in [Inode -> UNION {Survives(i) : i \in Inode}] :
                       \A i \in Inode : c[i] \in Survives(i)}
    /\ synced' = [i \in Inode |-> Len(content'[i])]
    /\ writer' = [w \in Writer |-> IF Running(w) THEN "failed" ELSE writer[w]]
    /\ pruner' = [p \in Pruner |-> IF pruner[p] \in {"read", "temp", "synced"}
                                  THEN "failed" ELSE pruner[p]]
    /\ follower' = [o \in Follower |-> IF follower[o] \in {"listed", "following"}
                                      THEN "failed" ELSE follower[o]]
    /\ UNCHANGED <<path, fd, records, listed, base, offset, shown, cut>>

-----------------------------------------------------------------------------
Write(w) == Open(w) \/ WriteAll(w) \/ WriteHead(w) \/ WriteTail(w) \/ SyncLog(w) \/ FailLog(w)
Prune(p) == ReadRecords(p) \/ WriteTemp(p) \/ SyncTemp(p) \/ Rename(p) \/ FailPrune(p)
Audit(o) == List(o) \/ Follow(o) \/ Poll(o) \/ PollFails(o) \/ StopFollowing(o)

Next == \/ \E w \in Writer : Write(w)
        \/ \E p \in Pruner : Prune(p)
        \/ \E o \in Follower : Audit(o)
        \/ PowerLoss

Spec == Init /\ [][Next]_vars

-----------------------------------------------------------------------------
\* Nothing that was durable is cut from a file: synced never passes its length.
TypeOK ==
    /\ path \in Inode \cup {None}
    /\ content \in [Inode -> Seq(Piece)]
    /\ synced \in [Inode -> Nat] /\ \A i \in Inode : synced[i] =< Len(content[i])
    /\ losses \in 0..MaxLosses
    /\ writer \in [Writer -> {"start", "open", "torn", "written", "logged", "failed"}]
    /\ fd \in [Writer -> Inode \cup {None}]
    /\ pruner \in [Pruner -> {"start", "read", "temp", "synced", "pruned", "failed"}]
    /\ records \in [Pruner -> Seq(Row)]
    /\ follower \in [Follower -> {"start", "listed", "following", "failed"}]
    /\ listed \in [Follower -> Seq(Row)]
    /\ base \in [Follower -> Seq(Piece)]
    /\ offset \in [Follower -> Nat]
    /\ shown \in [Follower -> Seq(Piece)]
    /\ cut \in [Follower -> SUBSET Piece]

\* All of r's bytes are there, in order.
Holds(pieces, r) == \E i, j \in DOMAIN pieces :
                       i < j /\ pieces[i] = Line(r)[1] /\ pieces[j] = Line(r)[2]

\* r was in the log when the prune that wrote the present file read it.
InPrunedFile(r) == path \in Pruner /\ r \in Range(records[path])

\* A row from before, or one that Log reported as durable, is in the log,
\* through killed processes and power losses, unless it is too old or a prune
\* that had read the log before the row was there replaced the file: "a crash
\* mid-prune never leaves a truncated log". (Log, Prune)
RowsKept ==
    \A r \in Row \ Old :
        \/ r \in Range(Past)
        \/ writer[r] = "logged" /\ (fd[r] = path \/ InPrunedFile(r))
        => Holds(Log, r)

\* However the log shrinks and grows under it, what a copy of Follow that did
\* not fail has written is not written again, neither by another nor by a part
\* of one that fails. Only what failed copies wrote since then may come again.
\* (Follow's offset against Prune's rename and io.Copy's error)
FollowNeverRepeats ==
    \A o \in Follower : IsInjective(shown[o]) /\ Range(shown[o]) \cap cut[o] = {}

-----------------------------------------------------------------------------
(* What the documents say and the code does not do.                          *)

\* prune.go: Prune keeps "only records newer than" the cutoff, that is all of
\* those: a row Log reported as durable is in the log.
PruneKeepsNewer == \A w \in Writer : writer[w] = "logged" => Holds(Log, w)

\* audit.go: "one JSON object per line, one line per gate decision". The row of
\* a successful Log is a line of its own.
RowIsALine ==
    \A w \in Writer : writer[w] = "logged" =>
        \E i \in DOMAIN Log : /\ i > 1 => Log[i - 1].part = "tail"
                             /\ Log[i] = Line(w)[1]
                             /\ i < Len(Log) /\ Log[i + 1] = Line(w)[2]

\* Follow finds nothing more to copy at its next ticks.
CaughtUp(o) == follower[o] = "following" /\ offset[o] >= Len(Log)

\* cw audit --follow shows the log and will "keep tailing the log for new gate
\* decisions": when it has caught up, at least the end of each row was shown.
FollowMissesNothing ==
    \A o \in Follower, w \in Writer :
        CaughtUp(o) /\ writer[w] = "logged" /\ Holds(Log, w) =>
            w \in Range(listed[o]) \/ Line(w)[2] \in Range(shown[o])

\* audit.go: Follow "writes newly appended records to w as they're logged": when
\* it has caught up, rows that were not in the log when it began were written.
FollowShowsNew ==
    \A o \in Follower, w \in Writer :
        CaughtUp(o) /\ writer[w] = "logged" /\ Holds(Log, w) =>
            Line(w)[1] \in Range(base[o]) \/ Holds(shown[o], w)

\* audit.go: "newly appended records", not those a failed copy has written in
\* part or whole before.
FollowWritesOnce ==
    [][\A o \in Follower :
         \A i \in Len(shown[o])+1..Len(shown'[o]) : shown'[o][i] \notin cut[o]]_vars
=============================================================================
