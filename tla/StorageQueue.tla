---------------------------- MODULE StorageQueue ----------------------------
(***************************************************************************)
(* missive/storage/storage_queue.cc: the queue that keeps encrypted        *)
(* reporting records on disk until the server has confirmed them, over     *)
(* crashes of the daemon, failed writes, parallel uploads and shedding.    *)
(*                                                                         *)
(* Every action is a task of the queue's sequenced task runner, except     *)
(* DeleteOutdatedMetadata, which its low-priority runner executes, and     *)
(* Crash.  ResumeWriteRecord() is two actions, because a crash or the      *)
(* low-priority runner may come between the metadata and the data; no task *)
(* of the queue can.                                                       *)
(*                                                                         *)
(* A record is named by the number of the Write() it came with, which also *)
(* stands for its digest.  A data file, named by its first sequencing id,  *)
(* is the sequence of what was appended to it: [id, rec] for a record      *)
(* written whole; rec is HeaderOnly when nothing follows the header, Torn  *)
(* when it was cut elsewhere.  A META file holds what was appended to it,  *)
(* oldest first: the digest of a record, Torn for one cut short after the  *)
(* generation id, NoGeneration for one cut before.  Names of data files    *)
(* carry the generation id, so that DoInit() always recovers it while      *)
(* there is one and never resets the queue; it is left out.                *)
(***************************************************************************)
EXTENDS Integers, Sequences

CONSTANTS
    Readers,         \* ReadContexts that may be active at once
    MaxFileRecords,  \* appends that fit into max_single_file_size
    MaxWrites,       \* bound on the Write() calls
    MaxFaults        \* bound on the failed appends and the crashes

ASSUME StorageQueueAssumption ==
    /\ MaxFileRecords \in Nat \ {0}
    /\ MaxWrites \in Nat /\ MaxFaults \in Nat

VARIABLES
    data,         \* data files, on disk and in files_
    meta,         \* META files
    first,        \* first_sequencing_id_
    next,         \* next_sequencing_id_
    unconfirmed,  \* first_unconfirmed_sequencing_id_, Unset if it has no value
    digest,       \* last_record_digest_, Unset if it has no value
    writing,      \* the record whose metadata is written and data is not
    outdated,     \* arguments of the posted DeleteOutdatedMetadata() tasks
    resume,       \* the upload posted by DoInit() has not started yet
    reader,       \* the ReadContexts; Idle ones are not registered
    writes, faults,  \* bounded counters
    uploads,      \* history: what uploaders were given, as <<id, record>>
    sent,         \* history: the highest id they were given or told missing
    confirmed,    \* history: the highest id the server has confirmed
    shed          \* history: ids of the records ShedFiles() deleted

disk == <<data, meta>>
memory == <<first, next, unconfirmed, digest, writing, outdated, resume, reader>>
history == <<writes, faults, uploads, sent, confirmed, shed>>
vars == <<disk, memory, history>>

Unset == -1
Torn == 0
HeaderOnly == -1
NoGeneration == -2
NoFile == -1
Idle == [files |-> {}, cur |-> NoFile, pos |-> 0, seq |-> 0, begun |-> FALSE]

Ids == 0..(MaxWrites + 1)
Records == 1..MaxWrites
Entry == [id : Ids, rec : {HeaderOnly, Torn} \cup Records]

TypeOK ==
    /\ DOMAIN data \subseteq Ids /\ \A f \in DOMAIN data : data[f] \in Seq(Entry)
    /\ DOMAIN meta \subseteq Ids /\ \A n \in DOMAIN meta : meta[n] \in Seq({NoGeneration, Torn} \cup Records)
    /\ first \in Ids /\ next \in Ids
    /\ unconfirmed \in {Unset} \cup Ids
    /\ digest \in {Unset, Torn} \cup Records /\ writing \in {Unset} \cup Records
    /\ outdated \subseteq Ids
    /\ resume \in BOOLEAN
    /\ reader \in [Readers -> [files : SUBSET Ids, cur : {NoFile} \cup Ids,
                               pos : Nat, seq : Ids, begun : BOOLEAN]]
    /\ uploads \subseteq Ids \X Records

Init ==
    /\ data = <<>> /\ meta = <<>>
    /\ first = 0 /\ next = 0
    /\ unconfirmed = Unset /\ digest = Unset /\ writing = Unset
    /\ outdated = {} /\ resume = FALSE
    /\ reader = [r \in Readers |-> Idle]
    /\ writes = 0 /\ faults = 0
    /\ uploads = {} /\ sent = -1 /\ confirmed = -1 /\ shed = {}

-----------------------------------------------------------------------------
(***************************************************************************)
(* Files.                                                                  *)
(***************************************************************************)

Files(d) == DOMAIN d
LowestOf(S) == CHOOSE x \in S : \A y \in S : x <= y
HighestOf(S) == CHOOSE x \in S : \A y \in S : x >= y
LastFile(d) == HighestOf(Files(d))
Without(d, S) == [f \in Files(d) \ S |-> d[f]]
With(d, f, content) == [g \in Files(d) \cup {f} |-> IF g = f THEN content ELSE d[g]]

\* Records that can be read from the start of file f before one is torn or
\* does not carry the id that is due.
ValidRecords(d, f) ==
    HighestOf({k \in 0..Len(d[f]) :
                 \A i \in 1..k : d[f][i].rec \in Records /\ d[f][i].id = f + i - 1})

\* ScanLastFile().
ScannedNext(d) ==
    IF Files(d) = {} THEN 0 ELSE LastFile(d) + ValidRecords(d, LastFile(d))

\* The records that can be read from the files, as <<id, record>>.
Readable(d) ==
    UNION {{<<d[f][i].id, d[f][i].rec>> : i \in 1..ValidRecords(d, f)} : f \in Files(d)}

\* OpenNewWriteableFile() fails when files_ has the name already, which is so
\* when what is in the last file is all torn.
CanOpenNew(d) == next \notin Files(d)
OpenNewWriteableFile(d) == With(d, next, <<>>)

\* SwitchLastFileIfNotEmpty(), where it succeeds.
SwitchLastFileIfNotEmpty(d) ==
    IF d[LastFile(d)] = <<>> THEN d ELSE OpenNewWriteableFile(d)
CanSwitch(d) == Files(d) # {} /\ (d[LastFile(d)] = <<>> \/ CanOpenNew(d))

\* The task runner is not inside ResumeWriteRecord(), and the upload that
\* DoInit() posted, ahead of anything else, has been started.
Ready == writing = Unset /\ ~resume

ActiveReads == {r \in Readers : reader[r] # Idle}

-----------------------------------------------------------------------------
(***************************************************************************)
(* Write.                                                                  *)
(***************************************************************************)

NeedsNewFile(d) == Len(d[LastFile(d)]) >= MaxFileRecords

\* META files after appending to the one of the next id, which is created.
AppendToMeta(entries) ==
    With(meta, next, IF next \in Files(meta) THEN meta[next] \o entries ELSE entries)

\* AssignLastFile() and WriteMetadata(): the META file is opened for append,
\* and all earlier ones are left to the low-priority runner.  A failure of
\* either ends the write; one that leaves no trace is not told from no write.
BeginWrite ==
    /\ Ready /\ writes < MaxWrites
    /\ writes' = writes + 1
    /\ LET d == IF Files(data) = {} THEN With(data, 0, <<>>) ELSE data
       IN  \/ /\ NeedsNewFile(d) /\ ~CanOpenNew(d)
              /\ UNCHANGED <<data, meta, writing, outdated, faults>>
           \/ /\ NeedsNewFile(d) => CanOpenNew(d)
              /\ data' = IF NeedsNewFile(d) THEN OpenNewWriteableFile(d) ELSE d
              /\ \/ /\ meta' = AppendToMeta(<<writes'>>)
                    /\ outdated' = outdated \cup {next}
                    /\ writing' = writes'
                    /\ UNCHANGED faults
                 \/ /\ faults < MaxFaults
                    /\ faults' = faults + 1
                    /\ \E entries \in {<<>>, <<NoGeneration>>, <<Torn>>} :
                          meta' = AppendToMeta(entries)
                    /\ UNCHANGED <<writing, outdated>>
    /\ UNCHANGED <<first, next, unconfirmed, digest, resume, reader,
                   uploads, sent, confirmed, shed>>

AppendTo(d, entries) == [d EXCEPT ![LastFile(d)] = @ \o entries]

\* What WriteHeaderAndBlock() may leave in the file when it is cut short.  If
\* only the padding fails, the record could be read once something follows it;
\* Torn never can.
Partial ==
    {<<>>, <<[id |-> next, rec |-> HeaderOnly]>>, <<[id |-> next, rec |-> Torn]>>}

\* WriteHeaderAndBlock(): the id is used up and the digest stored before the
\* file is opened and written, whether or not that succeeds.
FinishWrite ==
    /\ writing # Unset
    /\ writing' = Unset
    /\ next' = next + 1
    /\ digest' = writing
    /\ \/ /\ data' = AppendTo(data, <<[id |-> next, rec |-> writing]>>)
          /\ UNCHANGED faults
       \/ /\ faults < MaxFaults
          /\ faults' = faults + 1
          /\ \E entries \in Partial : data' = AppendTo(data, entries)
    /\ UNCHANGED <<meta, first, unconfirmed, outdated, resume, reader, writes,
                   uploads, sent, confirmed, shed>>

DeleteOutdatedMetadata(keep) ==
    /\ keep \in outdated
    /\ outdated' = outdated \ {keep}
    /\ meta' = Without(meta, {n \in DOMAIN meta : n < keep})
    /\ UNCHANGED <<data, first, next, unconfirmed, digest, writing, resume, reader, history>>

-----------------------------------------------------------------------------
(***************************************************************************)
(* Restart.                                                                *)
(***************************************************************************)

MutantReadableMeta(m) == {n \in DOMAIN m : m[n] # <<>>}

\* ReadMetadata() takes what follows the generation id at the start of the
\* file for the digest, as long as there is enough of it.
ReadableMeta(m) ==
    {n \in DOMAIN m : m[n] # <<>> /\ (m[n][1] \in Records \/ (m[n][1] = Torn /\ Len(m[n]) > 1))}

\* The META file RestoreMetadata() settles for when n is the next id: the one
\* of the last record or else the latest; DeleteUnusedFiles() deletes the rest.
UsedMeta(m, n) ==
    IF n = 0 \/ ReadableMeta(m) = {} THEN {}
    ELSE IF n - 1 \in ReadableMeta(m) THEN {n - 1} ELSE {HighestOf(ReadableMeta(m))}

\* DoInit() on the files that were left: EnumerateDataFiles(), ScanLastFile(),
\* RestoreMetadata(), DeleteUnusedFiles(), and the upload of what was found.
\* Every file fits into the disk space and deletions succeed: a file for which
\* no space can be reserved any more would be deleted as unused.
DoInit(d) ==
    LET n    == ScannedNext(d)
        used == UsedMeta(meta, n)
    IN  /\ data' = d
        /\ meta' = Without(meta, DOMAIN meta \ used)
        /\ first' = IF Files(d) = {} THEN 0 ELSE LowestOf(Files(d))
        /\ next' = n
        /\ digest' = IF n - 1 \in used THEN meta[n - 1][1] ELSE Unset
        /\ unconfirmed' = Unset
        /\ writing' = Unset
        /\ outdated' = {}
        /\ resume' = (first' < next')
        /\ reader' = [r \in Readers |-> Idle]

\* The daemon crashes, perhaps while it writes a record, and is restarted.
Crash ==
    /\ faults < MaxFaults
    /\ faults' = faults + 1
    /\ \/ /\ writing = Unset
          /\ DoInit(data)
       \/ /\ writing # Unset
          /\ \E entries \in Partial \cup {<<[id |-> next, rec |-> writing]>>} :
                DoInit(AppendTo(data, entries))
    /\ UNCHANGED <<writes, uploads, sent, confirmed, shed>>

-----------------------------------------------------------------------------
(***************************************************************************)
(* Upload.                                                                 *)
(***************************************************************************)

\* Where an upload starts: min of the two, if both have a value.
UploadStart ==
    IF unconfirmed # Unset /\ unconfirmed < first THEN unconfirmed ELSE first

MutantCollectFilesForUpload(d, seq) ==
    {f \in Files(d) \ {LastFile(d)} : f > seq}

\* From the last file that starts at or before seq, if there is one, up to but
\* excluding the file that is being written.
CollectFilesForUpload(d, seq) ==
    {f \in Files(d) \ {LastFile(d)} : \A g \in Files(d) : g > f => g > seq}

\* PrepareDataFiles(), for an upload that a timer, Flush(), a retry or DoInit()
\* started.  When there is nothing to read the context just completes.
StartUpload(r) ==
    /\ writing = Unset /\ reader[r] = Idle
    /\ resume' = FALSE
    /\ IF CanSwitch(data)
       THEN LET d     == SwitchLastFileIfNotEmpty(data)
                files == CollectFilesForUpload(d, UploadStart)
            IN  /\ data' = d
                /\ reader' = IF UploadStart >= LastFile(d) \/ files = {}
                             THEN reader
                             ELSE [reader EXCEPT ![r] =
                                     [files |-> files, cur |-> LowestOf(files), pos |-> 0,
                                      seq |-> UploadStart, begun |-> FALSE]]
       ELSE UNCHANGED <<data, reader>>
    /\ UNCHANGED <<meta, first, next, unconfirmed, digest, writing, outdated, history>>

\* Any response: the files are released and the context is unregistered.
Complete(r) == reader' = [reader EXCEPT ![r] = Idle]

\* At position pos of file f is the header of record id and nothing else.
EndsInHeader(f, pos, id) ==
    pos + 1 = Len(data[f]) /\ data[f][pos + 1] = [id |-> id, rec |-> HeaderOnly]
        /\ pos = ValidRecords(data, f)

\* EnsureBlob() at position pos of file f.
Blob(f, pos, id) ==
    IF pos >= Len(data[f]) \/ EndsInHeader(f, pos, id) THEN "eof"
    ELSE IF pos < ValidRecords(data, f) /\ data[f][pos + 1].id = id THEN "ok"
    ELSE "corrupt"

\* The file after f that reader x has, or NoFile.
FileAfter(x, f) ==
    LET later == {g \in x.files : g > f}
    IN  IF later = {} THEN NoFile ELSE LowestOf(later)

\* x after the file it is in turned out to be corrupt: the gap lasts until the
\* start of the next file, or for one record if there is none.
GapFrom(x) ==
    LET g == FileAfter(x, x.cur)
    IN  [x EXCEPT !.cur = g, !.pos = 0, !.seq = IF g = NoFile THEN @ + 1 ELSE g]

\* x after a blob was looked for and blob came of it; NoFile as cur of the
\* result, with seq unchanged, means that the end was reached.
AfterBlob(x, blob) ==
    LET moved == [x EXCEPT !.cur = FileAfter(x, x.cur), !.pos = 0]
    IN  IF blob = "ok" THEN [x EXCEPT !.pos = @ + 1, !.seq = @ + 1]
        ELSE IF blob = "corrupt" THEN GapFrom(x)
        ELSE IF moved.cur = NoFile THEN moved
        ELSE IF Blob(moved.cur, 0, x.seq) = "ok" THEN [moved EXCEPT !.pos = 1, !.seq = @ + 1]
        ELSE GapFrom(moved)

CallRecordOrGap(x) == AfterBlob(x, Blob(x.cur, x.pos, x.seq))

\* An empty gap is not told to the uploader: the next record is read at once.
RecordOrGap(x) ==
    LET y == CallRecordOrGap(x)
    IN  IF y.seq = x.seq /\ y.cur # NoFile THEN CallRecordOrGap(y) ELSE y

\* StartUploading() first reads over the records that precede the one it needs.
StartUploading(x) ==
    LET valid == ValidRecords(data, x.cur)
        skip  == x.seq - x.cur
    IN  IF valid >= skip THEN RecordOrGap([x EXCEPT !.pos = skip])
        ELSE AfterBlob([x EXCEPT !.pos = valid], Blob(x.cur, valid, x.cur + valid))

\* Reader r went on from x to y: one record or one gap was handed to the
\* uploader, or else the end was reached.
Handed(r, x, y) ==
    LET isRecord == y.seq = x.seq + 1 /\ y.cur # NoFile /\ y.pos > 0
                    /\ data[y.cur][y.pos].id = x.seq
    IN  /\ IF y.seq = x.seq
           THEN Complete(r)
           ELSE reader' = [reader EXCEPT ![r] = [y EXCEPT !.begun = TRUE]]
        /\ uploads' = IF isRecord
                      THEN uploads \cup {<<x.seq, data[y.cur][y.pos].rec>>}
                      ELSE uploads
        /\ sent' = IF y.seq - 1 > sent THEN y.seq - 1 ELSE sent
        /\ UNCHANGED <<disk, first, next, unconfirmed, digest, writing, outdated, resume,
                       writes, faults, confirmed, shed>>

\* The uploader is there: a gap if the first record is gone, else the record.
BeginUploading(r) ==
    LET x == reader[r]
    IN  /\ Ready /\ x # Idle /\ ~x.begun
        /\ Handed(r, x, IF x.seq < x.cur THEN [x EXCEPT !.seq = x.cur] ELSE StartUploading(x))

\* The uploader wants more.
NextRecord(r) ==
    LET x == reader[r]
    IN  /\ Ready /\ x.begun
        /\ IF x.cur = NoFile
           THEN Complete(r) /\ UNCHANGED <<disk, first, next, unconfirmed, digest, writing,
                                           outdated, resume, history>>
           ELSE Handed(r, x, RecordOrGap(x))

\* The uploader could not be created, wants no more, or there is no memory.
StopReading(r) ==
    /\ Ready /\ reader[r] # Idle
    /\ Complete(r)
    /\ UNCHANGED <<disk, first, next, unconfirmed, digest, writing, outdated, resume, history>>

-----------------------------------------------------------------------------
(***************************************************************************)
(* Confirm and shed.                                                       *)
(***************************************************************************)

MutantConfirmedFiles(id) == {f \in Files(data) : f <= id /\ f # LastFile(data)}

MutantConfirmedFilesAndLast(id) == {f \in Files(data) : f <= id + 1}

\* The files RemoveConfirmedData() deletes: those a later one follows that
\* starts no later than right after the confirmed id.
ConfirmedFiles(id) ==
    {f \in Files(data) : \E g \in Files(data) : g > f /\ g <= id + 1}

MutantRemoveConfirmedData(id) == data' = Without(data, ConfirmedFiles(id))

\* No file is deleted while any upload is active.
RemoveConfirmedData(id) ==
    data' = IF ActiveReads # {} THEN data ELSE Without(data, ConfirmedFiles(id))

\* The server confirms an id it was sent; with force it goes back to it.
Confirm(id, force) ==
    /\ Ready /\ id <= sent
    /\ confirmed' = IF id > confirmed THEN id ELSE confirmed
    /\ \/ /\ force
          /\ unconfirmed' = id + 1
          /\ UNCHANGED <<data, first>>
       \/ /\ ~force /\ id >= 0 /\ Files(data) # {}
          /\ unconfirmed' = IF unconfirmed = Unset \/ unconfirmed <= id
                            THEN id + 1 ELSE unconfirmed
          /\ first' = IF first <= id THEN id + 1 ELSE first
          /\ RemoveConfirmedData(id)
    /\ UNCHANGED <<meta, next, digest, writing, outdated, resume, reader, writes, faults, uploads, sent, shed>>

\* ShedFiles() deletes files from the first on until there is space.
ShedFiles(d, S) ==
    /\ data' = Without(d, S)
    /\ first' = LowestOf(Files(d) \ S)

Shed ==
    /\ Ready /\ ActiveReads = {} /\ Files(data) # {}
    /\ LET d == IF CanSwitch(data) THEN SwitchLastFileIfNotEmpty(data) ELSE data
       IN  \E upTo \in Files(d) \ {LastFile(d)} :
             LET S == {f \in Files(d) : f <= upTo}
             IN  /\ ShedFiles(d, S)
                 /\ shed' = shed \cup {p[1] : p \in Readable([f \in S |-> d[f]])}
    /\ UNCHANGED <<meta, next, unconfirmed, digest, writing, outdated, resume, reader,
                   writes, faults, uploads, sent, confirmed>>

Next ==
    \/ BeginWrite \/ FinishWrite
    \/ \E keep \in Ids : DeleteOutdatedMetadata(keep)
    \/ Crash
    \/ \E r \in Readers : StartUpload(r) \/ BeginUploading(r) \/ NextRecord(r) \/ StopReading(r)
    \/ \E id \in {-1} \cup Ids, force \in BOOLEAN : Confirm(id, force)
    \/ Shed

Spec == Init /\ [][Next]_vars

-----------------------------------------------------------------------------

\* A sequencing id names one record: whatever crashes, failed writes, retries
\* and forced confirmations happen, no two uploads give the server different
\* records under one id.
UploadsAgree ==
    \A p, q \in uploads : p[1] = q[1] => p[2] = q[2]

\* The files that an upload has set aside are not deleted under it, and none
\* of them is the file that is being written.
ReadersKeepTheirFiles ==
    \A r \in Readers : reader[r].files \subseteq Files(data) /\
        (reader[r] # Idle => LastFile(data) \notin reader[r].files)

\* A record that could be read stays readable until the server confirmed it
\* or it was shed to make space.  The server also confirms ids that it was told
\* are a gap.
NothingElseIsLost ==
    [][\A p \in Readable(data) :
          p \in Readable(data)' \/ p[1] <= confirmed \/ p[1] <= confirmed' \/ p[1] \in shed']_vars

\* An upload sets aside, and starts no later than, every record in the closed
\* files that the server has not confirmed.
SetsAside(r) ==
    (reader[r] = Idle /\ reader'[r] # Idle) =>
        \A p \in Readable(data') :
            \/ p[1] <= confirmed
            \/ p[1] >= LastFile(data')
            \/ /\ p[1] >= reader'[r].seq
               /\ p \in Readable([f \in reader'[r].files |-> data'[f]])

\* The record that is due, if it can be read from the files that were set aside.
DueRecord(r) ==
    {p \in Readable([f \in reader[r].files |-> data[f]]) : p[1] = reader[r].seq}

\* As long as it has a file to read from, an upload hands over the record that
\* is due whenever that can be read: it tells a gap only where a record is missing.
HandsOver(r) ==
    ((BeginUploading(r) \/ NextRecord(r)) /\ reader[r].cur # NoFile) => DueRecord(r) \subseteq uploads'

\* No event is missed as long as every append succeeds: an upload starts at or
\* before the first record that is not confirmed and goes from one id to the next.
\* A gap starts only at an id that cannot be read (after a failed append or a
\* crash).  How far it then goes is not said here: it is up to the start of some
\* later file, and EnsureBlob() can take a file that can be read for corrupt,
\* because the id that is due is not the first one in it (see README).
UploadsMissNothing == [][\A r \in Readers : SetsAside(r) /\ HandsOver(r)]_vars

-----------------------------------------------------------------------------
(***************************************************************************)
(* What comments in the code say and the code does not do.                 *)
(***************************************************************************)

\* "|completion_cb| allows to verify that record has been successfully
\* enqueued" (storage_queue.h): a record that was written whole, so that its
\* Write() was answered OK, can be read for upload while its file is there.
WrittenIsReadable ==
    \A f \in Files(data) : \A i \in DOMAIN data[f] :
        data[f][i].rec \in Records => <<data[f][i].id, data[f][i].rec>> \in Readable(data)

=============================================================================
