------------------------------- MODULE Binlog -------------------------------
(***************************************************************************)
(* The binlog source (internal/binlog/client.go): readLoop turns the       *)
(* server's stream of events into transactions with a position to resume   *)
(* from and puts them into a bounded channel the pipeline takes them from. *)
(*                                                                         *)
(* The server keeps files of events; a coordinate is a file and an offset, *)
(* and an event's LogPos is the offset behind it, modulo PosLimit.  Events *)
(* have size 1.  A group of events (a transaction) is written at once and  *)
(* never split over files, so a file can outgrow PosLimit.  The library    *)
(* announces each file it starts with, and the place it goes on at after a *)
(* lost connection, by a rotate event with LogPos 0.                       *)
(*                                                                         *)
(* The list a rows event adds to a transaction is kept as one element, so  *)
(* Changes is a sequence of lists.                                         *)
(***************************************************************************)
EXTENDS Naturals, Sequences

CONSTANTS
    Groups,         \* transactions the server may log: sequences of statements
    Capacity,       \* capacity of outCh
    PosLimit,       \* 2^32: offsets are kept in 32 bits
    NoImage,        \* the missing before or after image
    MaxGroups,      \* bound: groups and single events the server logs
    MaxFiles,       \* bound: binlog files
    MaxReconnects,  \* bound: connections lost
    MaxRestarts,    \* bound: times the daemon starts again
    StreamerMayFail \* the library may give up on the stream

\* A statement inserts, updates or deletes a number of rows.
Statement == [action : {"insert", "update", "delete"}, count : Nat \ {0}]

ASSUME BinlogAssumption ==
    /\ Groups \subseteq Seq(Statement)
    /\ Capacity \in Nat \ {0}
    /\ PosLimit \in Nat /\ PosLimit > 4
    /\ MaxGroups \in Nat /\ MaxFiles \in Nat
    /\ MaxReconnects \in Nat /\ MaxRestarts \in Nat
    /\ StreamerMayFail \in BOOLEAN

VARIABLES
    files,          \* the server's binlog files
    committed,      \* history: the transactions in them, in commit order
    groups,         \* groups logged so far
    dfile, dnext,   \* the library: the file it reads, the events it has read
    announced,      \* the rotate event for that place has been delivered
    failed,         \* the library has given up: GetEvent returns its error
    currentPos,     \* MySQLBinlogSource.currentPos
    inTx, currentTx,\* readLoop's variables
    sending,        \* the transaction readLoop is sending on outCh, if any
    outCh,          \* outCh
    handed,         \* the transactions the pipeline has had since the start
    lostAt,         \* history: how many transactions had been delivered when the
                    \* stream went on at a wrong place, NotLost if it never did
    reconnects, restarts

server   == <<files, committed, groups>>
library  == <<dfile, dnext, announced, failed>>
reader   == <<currentPos, inTx, currentTx, sending>>
counters == <<reconnects, restarts>>
lvars    == <<server, library, reader, outCh, handed, lostAt, counters>>

Start == 4
NoFile == 0
Coordinate(f, n) == [file |-> f, position |-> Start + n]
NoCoordinate == [file |-> NoFile, position |-> 0]
NoTx == [position |-> NoCoordinate, changes |-> <<>>]

Delivered == handed \o outCh \o sending
NotLost   == MaxGroups + 1

\* An offset as 32 bits hold it, and whether they do.
Narrow(offset) == offset % PosLimit
Wraps(offset)  == offset >= PosLimit

(***************************************************************************)
(* The server (external).                                                  *)
(***************************************************************************)

Image(id, row, when) == [id |-> id, row |-> row, when |-> when]

\* What a statement did to its rows.
Effects(stmt, id) ==
    [j \in 1..stmt.count |->
        [action |-> stmt.action,
         before |-> IF stmt.action = "insert" THEN NoImage ELSE Image(id, j, "before"),
         after  |-> IF stmt.action = "delete" THEN NoImage ELSE Image(id, j, "after")]]

\* The images in its rows event: an update's come in pairs.
Images(stmt, id) ==
    CASE stmt.action = "insert" -> [j \in 1..stmt.count |-> Image(id, j, "after")]
      [] stmt.action = "delete" -> [j \in 1..stmt.count |-> Image(id, j, "before")]
      [] stmt.action = "update" ->
            [j \in 1..(2 * stmt.count) |->
                Image(id, (j + 1) \div 2, IF j % 2 = 1 THEN "before" ELSE "after")]

Event(kind) == [kind |-> kind, action |-> "none", images |-> <<>>]
RowsEvent(stmt, id) == [kind |-> "rows", action |-> stmt.action, images |-> Images(stmt, id)]

DDLChange == <<[action |-> "ddl", before |-> NoImage, after |-> NoImage]>>

LastFile == Len(files)
EndOfLog == Len(files[LastFile])

Log(events) ==
    /\ groups < MaxGroups
    /\ groups' = groups + 1
    /\ files' = [files EXCEPT ![LastFile] = @ \o events]
    /\ UNCHANGED <<library, reader, outCh, handed, lostAt, counters>>

\* The group that ends n events from here has these effects.
Commit(n, changes) ==
    committed' = Append(committed, [position |-> Coordinate(LastFile, EndOfLog + n),
                                    changes |-> changes])

Ids(group) == [k \in DOMAIN group |-> Coordinate(LastFile, EndOfLog + 1 + k)]

LogTransaction(group, ending) ==
    LET ids == Ids(group)
    IN  /\ Log(<<Event("begin")>>
               \o [k \in DOMAIN group |-> RowsEvent(group[k], ids[k])]
               \o <<Event(ending)>>)
        /\ IF ending = "rollback" THEN UNCHANGED committed
           ELSE Commit(Len(group) + 2, [k \in DOMAIN group |-> Effects(group[k], ids[k])])

\* A statement logged without a BEGIN.
LogStatement(stmt) ==
    LET id == Coordinate(LastFile, EndOfLog + 1)
    IN  Log(<<RowsEvent(stmt, id)>>) /\ Commit(1, <<Effects(stmt, id)>>)

LogDDL == Log(<<Event("ddl")>>) /\ Commit(1, <<DDLChange>>)

\* Anything readLoop has no case for.
LogOther == Log(<<Event("other")>>) /\ UNCHANGED committed

\* FLUSH LOGS or a full file; a server that dies leaves no rotate event.
NewFile(events) ==
    /\ LastFile < MaxFiles
    /\ files' = Append([files EXCEPT ![LastFile] = @ \o events], <<>>)
    /\ UNCHANGED <<committed, groups, library, reader, outCh, handed, lostAt, counters>>

ServerStep ==
    \/ \E group \in Groups, ending \in {"xid", "commit", "rollback"} :
            LogTransaction(group, ending)
    \/ \E group \in Groups : \E k \in DOMAIN group : LogStatement(group[k])
    \/ LogDDL \/ LogOther
    \/ NewFile(<<Event("rotate")>>) \/ NewFile(<<>>)

(***************************************************************************)
(* The replication library (external).                                     *)
(***************************************************************************)

\* StartSync: at a coordinate, or with the oldest file.  The server refuses
\* an offset inside a file's header.
StartSync(pos) ==
    LET given == pos.file # NoFile /\ pos.position > 0
    IN  /\ dfile' = IF given THEN pos.file ELSE 1
        /\ dnext' = IF given /\ pos.position >= Start THEN pos.position - Start ELSE 0
        /\ announced' = FALSE
        /\ failed' = (given /\ pos.position < Start)

\* The connection is lost; the library goes on where it was, if 32 bits can
\* say where that is, and otherwise somewhere before or not at all.
Reconnect ==
    /\ reconnects < MaxReconnects
    /\ reconnects' = reconnects + 1
    /\ announced' = FALSE
    /\ IF Wraps(Start + dnext)
       THEN /\ dnext' \in 0..dnext /\ failed' \in {failed, TRUE}
            /\ lostAt' = IF lostAt = NotLost THEN Len(Delivered) ELSE lostAt
       ELSE UNCHANGED <<dnext, failed, lostAt>>
    /\ UNCHANGED <<server, dfile, reader, outCh, handed, restarts>>

\* The library gives up: a streamer that has failed stays so.
StreamerFails ==
    /\ StreamerMayFail /\ ~ failed
    /\ failed' = TRUE
    /\ UNCHANGED <<server, dfile, dnext, announced, reader, outCh, handed, lostAt, counters>>

(***************************************************************************)
(* readLoop: one action per kind of event.                                 *)
(***************************************************************************)

CanRead == sending = <<>> /\ ~ failed

NextEventIs(kind) ==
    /\ CanRead /\ announced
    /\ dnext < Len(files[dfile])
    /\ files[dfile][dnext + 1].kind = kind

\* header.LogPos.
LogPos == Narrow(Start + dnext + 1)

\* GetEvent returns the next event of the file.
Advance ==
    /\ dnext' = dnext + 1
    /\ UNCHANGED <<server, dfile, announced, failed, outCh, handed, lostAt, counters>>

\* The end of the loop's body.
SetPosition == currentPos' = [currentPos EXCEPT !.position = IF LogPos > 0 THEN LogPos ELSE @]

\* updateCheckpoint and the send, which blocks while the channel is full.
Emit(tx) ==
    /\ sending' = <<tx>>
    /\ currentPos' = [file |-> IF tx.position.file # NoFile THEN tx.position.file
                               ELSE currentPos.file,
                      position |-> tx.position.position]

\* Mutant: a rotate event ends the transaction it is met in.
MutantRotateEndsTx ==
    /\ CanRead
    /\ \/ /\ ~ announced
          /\ UNCHANGED <<dfile, dnext>>
       \/ /\ announced /\ dnext = Len(files[dfile]) /\ dfile < Len(files)
          /\ dfile' = dfile + 1 /\ dnext' = 0
    /\ announced' = TRUE
    /\ currentPos' = [file |-> dfile', position |-> Narrow(Start + dnext')]
    /\ inTx' = FALSE /\ currentTx' = NoTx
    /\ UNCHANGED <<server, failed, sending, outCh, handed, lostAt, counters>>

\* A rotate event with LogPos 0: the place the library starts or goes on
\* at, or the file after one that has no rotate event at its end.
ReadAnnouncement ==
    /\ CanRead
    /\ \/ /\ ~ announced
          /\ UNCHANGED <<dfile, dnext>>
       \/ /\ announced /\ dnext = Len(files[dfile]) /\ dfile < Len(files)
          /\ dfile' = dfile + 1 /\ dnext' = 0
    /\ announced' = TRUE
    /\ currentPos' = [file |-> dfile', position |-> Narrow(Start + dnext')]
    /\ UNCHANGED <<server, failed, inTx, currentTx, sending, outCh, handed, lostAt, counters>>

\* The rotate event at the end of a file: its own LogPos overwrites the
\* offset it announces.
ReadRotate ==
    /\ NextEventIs("rotate")
    /\ dfile' = dfile + 1 /\ dnext' = 0 /\ announced' = FALSE
    /\ currentPos' = [file |-> dfile + 1, position |-> IF LogPos > 0 THEN LogPos ELSE Start]
    /\ UNCHANGED <<server, failed, inTx, currentTx, sending, outCh, handed, lostAt, counters>>

ReadBegin ==
    /\ NextEventIs("begin")
    /\ Advance
    /\ inTx' = TRUE
    /\ currentTx' = [position |-> [file |-> currentPos.file, position |-> LogPos],
                     changes |-> <<>>]
    /\ SetPosition
    /\ UNCHANGED sending

\* XIDEvent, or the query COMMIT.
ReadEnd ==
    /\ NextEventIs("xid") \/ NextEventIs("commit")
    /\ Advance
    /\ IF inTx THEN Emit([currentTx EXCEPT !.position.position = LogPos])
       ELSE SetPosition /\ UNCHANGED sending
    /\ inTx' = FALSE /\ currentTx' = IF inTx THEN NoTx ELSE currentTx

ReadRollback ==
    /\ NextEventIs("rollback")
    /\ Advance
    /\ inTx' = FALSE /\ currentTx' = NoTx
    /\ SetPosition
    /\ UNCHANGED sending

Immediate(changes) ==
    Emit([position |-> [file |-> currentPos.file, position |-> LogPos], changes |-> changes])

ReadDDL ==
    /\ NextEventIs("ddl")
    /\ Advance
    /\ Immediate(<<DDLChange>>)
    /\ UNCHANGED <<inTx, currentTx>>

\* Mutant: every image of an update is taken for a change of its own.
MutantNoPairs(action, images) ==
    [i \in 1..Len(images) |->
        [action |-> action,
         before |-> IF action = "insert" THEN NoImage ELSE images[i],
         after  |-> IF action = "delete" THEN NoImage ELSE images[i]]]

\* Images of an update in pairs, a last one without a partner is dropped.
ParseRowChanges(action, images) ==
    [i \in 1..(IF action = "update" THEN Len(images) \div 2 ELSE Len(images)) |->
        [action |-> action,
         before |-> CASE action = "insert" -> NoImage
                      [] action = "delete" -> images[i]
                      [] action = "update" -> images[2 * i - 1],
         after  |-> CASE action = "insert" -> images[i]
                      [] action = "delete" -> NoImage
                      [] action = "update" -> images[2 * i]]]

ReadRows ==
    LET ev == files[dfile][dnext + 1]
        changes == ParseRowChanges(ev.action, ev.images)
    IN  /\ NextEventIs("rows")
        /\ Advance
        /\ IF inTx
           THEN /\ currentTx' = [currentTx EXCEPT !.changes = Append(@, changes)]
                /\ SetPosition
                /\ UNCHANGED sending
           ELSE Immediate(<<changes>>) /\ UNCHANGED currentTx
        /\ UNCHANGED inTx

ReadOther ==
    /\ NextEventIs("other")
    /\ Advance
    /\ SetPosition
    /\ UNCHANGED <<inTx, currentTx, sending>>

\* Mutant: one place of the channel is kept free.
MutantKeepOneFree ==
    /\ sending # <<>> /\ Len(outCh) < Capacity - 1
    /\ outCh' = outCh \o sending
    /\ sending' = <<>>
    /\ UNCHANGED <<server, library, currentPos, inTx, currentTx, handed, lostAt, counters>>

Send ==
    /\ sending # <<>> /\ Len(outCh) < Capacity
    /\ outCh' = outCh \o sending
    /\ sending' = <<>>
    /\ UNCHANGED <<server, library, currentPos, inTx, currentTx, handed, lostAt, counters>>

ReadLoop ==
    \/ ReadAnnouncement \/ ReadRotate \/ ReadBegin \/ ReadEnd \/ ReadRollback
    \/ ReadDDL \/ ReadRows \/ ReadOther \/ Send

(***************************************************************************)
(* The daemon: it takes transactions, ends, and starts again at the        *)
(* position of a transaction it has had, or at none.                       *)
(***************************************************************************)

Receive ==
    /\ outCh # <<>>
    /\ handed' = Append(handed, outCh[1])
    /\ outCh' = Tail(outCh)
    /\ UNCHANGED <<server, library, reader, lostAt, counters>>

\* ResumeFrom and Stream.
ResumeFrom(pos) ==
    /\ currentPos' = pos
    /\ StartSync(pos)
    /\ inTx' = FALSE /\ currentTx' = NoTx /\ sending' = <<>> /\ outCh' = <<>>

\* Positions beyond the limit name a wrong place; one before it, of a
\* transaction from before the place was lost, leads back.
Restart(k) ==
    /\ restarts < MaxRestarts
    /\ restarts' = restarts + 1
    /\ ResumeFrom(IF k = 0 THEN NoCoordinate ELSE handed[k].position)
    /\ handed' = SubSeq(handed, 1, k)
    /\ lostAt' = IF k > lostAt THEN lostAt
                 ELSE IF k > 0 /\ Wraps(committed[k].position.position) THEN k ELSE NotLost
    /\ UNCHANGED <<server, reconnects>>

LInit ==
    /\ files = <<<<>>>> /\ committed = <<>> /\ groups = 0
    /\ dfile = 1 /\ dnext = 0 /\ announced = FALSE /\ failed = FALSE
    /\ currentPos = NoCoordinate /\ inTx = FALSE /\ currentTx = NoTx
    /\ sending = <<>> /\ outCh = <<>> /\ handed = <<>>
    /\ lostAt = NotLost /\ reconnects = 0 /\ restarts = 0

LNext ==
    \/ ServerStep
    \/ Reconnect \/ StreamerFails
    \/ ReadLoop
    \/ Receive
    \/ \E k \in 0..Len(handed) : Restart(k)

LSpec == LInit /\ [][LNext]_lvars

\* Both goroutines keep running.
LFairSpec == LSpec /\ WF_lvars(ReadLoop) /\ WF_lvars(Receive)

(***************************************************************************)
(* Properties.                                                             *)
(***************************************************************************)

\* A committed transaction, its position as 32 bits hold it.
AsSeen(tx) == [tx EXCEPT !.position.position = Narrow(@)]

\* Coordinate p is not behind the events the reader has taken.
HasRead(p) == p.file < dfile \/ (p.file = dfile /\ p.position <= Start + dnext)

\* Exactly the committed transactions the reader has passed are delivered,
\* in order, with all their changes and the position behind them: over
\* rotated files, lost connections in the middle of a transaction, a full
\* channel and restarts at any position handed over before.  A file that
\* outgrows 32 bits harms no transaction until the stream is taken up again
\* beyond the limit, and none of those delivered before.
DeliveredIsPassed ==
    /\ \A i \in DOMAIN Delivered : i <= lostAt =>
          i \in DOMAIN committed /\ Delivered[i] = AsSeen(committed[i])
    /\ lostAt = NotLost =>
          \A i \in DOMAIN committed : HasRead(committed[i].position) <=> i <= Len(Delivered)

(***************************************************************************)
(* The inductive invariant.                                                *)
(***************************************************************************)
IsSeq(s) == s \in Seq({s[i] : i \in DOMAIN s})

LTypes ==
    /\ IsSeq(files) /\ files # <<>> /\ \A f \in DOMAIN files : IsSeq(files[f])
    /\ IsSeq(committed) /\ groups \in 0..MaxGroups /\ Len(committed) <= groups
    /\ IsSeq(handed) /\ IsSeq(outCh) /\ IsSeq(sending)
    /\ lostAt \in 0..NotLost

\* Between the events n and n + 1 of file f the group that begins at b is open.
Inside(f, b, n) ==
    /\ files[f][b].kind = "begin"
    /\ \A m \in (b + 1)..n : files[f][m].kind = "rows"

Outside(f, n) == \A b \in 1..n : ~ Inside(f, b, n)

\* What readLoop makes of the rows events between b and n.
RowsOf(ev) == ParseRowChanges(ev.action, ev.images)
Collected(f, b, n) == [k \in 1..(n - b) |-> RowsOf(files[f][b + k])]

\* Event e of file f commits these changes.
EventCommits(f, e, changes) ==
    \/ /\ files[f][e].kind \in {"xid", "commit"}
       /\ \E b \in 1..(e - 1) : Inside(f, b, e - 1) /\ changes = Collected(f, b, e - 1)
    \/ files[f][e].kind = "ddl" /\ changes = <<DDLChange>>
    \/ /\ files[f][e].kind = "rows" /\ Outside(f, e - 1)
       /\ changes = <<RowsOf(files[f][e])>>

\* Groups are complete: each begins and ends in one file.
WholeAt(f, n) ==
    /\ files[f][n].kind = "begin" =>
          \E e \in (n + 1)..Len(files[f]) :
              files[f][e].kind \in {"xid", "commit", "rollback"} /\ Inside(f, n, e - 1)
    /\ files[f][n].kind \in {"xid", "commit", "rollback"} => ~ Outside(f, n - 1)
    /\ files[f][n].kind = "rotate" => n = Len(files[f]) /\ f < Len(files)

GroupsAreWhole == \A f \in DOMAIN files : \A n \in DOMAIN files[f] : WholeAt(f, n)

\* The committed transactions are what the events commit, in the order of the log.
CommittedIsLogged ==
    \A i \in DOMAIN committed : \E f \in DOMAIN files : \E e \in DOMAIN files[f] :
        /\ committed[i] = [position |-> Coordinate(f, e), changes |-> committed[i].changes]
        /\ EventCommits(f, e, committed[i].changes)

\* Event e of file f ends a transaction.
Ends(f, e) ==
    \/ files[f][e].kind \in {"xid", "commit", "ddl"}
    \/ files[f][e].kind = "rows" /\ Outside(f, e - 1)

LoggedIsCommitted ==
    \A f \in DOMAIN files : \A e \in DOMAIN files[f] :
        Ends(f, e) => \E i \in DOMAIN committed : committed[i].position = Coordinate(f, e)

Before(p, q) == p.file < q.file \/ (p.file = q.file /\ p.position < q.position)

CommittedInOrder ==
    \A i, j \in DOMAIN committed : i < j => Before(committed[i].position, committed[j].position)

LogInv == GroupsAreWhole /\ CommittedIsLogged /\ LoggedIsCommitted /\ CommittedInOrder

\* As long as the place is not lost, the reader holds the rows of the group it
\* is inside of and nothing else.
ReaderFollows ==
    /\ dfile \in DOMAIN files /\ dnext \in 0..Len(files[dfile])
    /\ currentPos = [file |-> currentPos.file, position |-> currentPos.position]
    /\ announced => currentPos.file = dfile
    /\ IF inTx
       THEN \E b \in 1..dnext :
               /\ Inside(dfile, b, dnext)
               /\ currentTx = [position |-> [file |-> dfile, position |-> Narrow(Start + b)],
                               changes |-> Collected(dfile, b, dnext)]
       ELSE Outside(dfile, dnext)

LInv ==
    /\ LTypes /\ LogInv
    /\ IF lostAt = NotLost THEN ReaderFollows ELSE lostAt <= Len(Delivered)
    /\ DeliveredIsPassed

\* The source is what the pipeline relies on, up to the place it is lost at.
CS == INSTANCE ChangeSource
        WITH committed <- [i \in DOMAIN committed |-> AsSeen(committed[i])],
             handed <- IF Len(handed) <= lostAt THEN handed ELSE SubSeq(handed, 1, lostAt)
ImplementsChangeSource == CS!SourceSpec

\* Every committed transaction reaches the pipeline, unless the library has
\* given up (readLoop asks a failed streamer again and again) or the place in
\* the log was lost.
EverythingArrives ==
    \A n \in 1..MaxGroups :
        Len(committed) >= n ~> Len(handed) >= n \/ failed \/ lostAt # NotLost
=============================================================================
