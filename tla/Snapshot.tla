------------------------------ MODULE Snapshot ------------------------------
(***************************************************************************)
(* Snapshots of the shards' databases: the job that copies a database,     *)
(* cuts it into chunks and puts them into a bucket                         *)
(* (src/src/jobs/snapshot_upload.rs, storage/db/rocksdb.rs,                *)
(* storage/db/multi_chunk_writer.rs, storage/db/snapshot.rs), and the new  *)
(* node that builds its databases from the bucket (main.rs).               *)
(*                                                                         *)
(* One node uploads, one downloads; the bucket is all they share.  Either  *)
(* may crash at any step, every put and get may fail.  The bucket keeps    *)
(* objects and forgets none by itself (external).                          *)
(***************************************************************************)
EXTENDS Integers, Sequences, FiniteSets, SequencesExt

CONSTANTS
    ShardIds,       \* the shards of the nodes, as the digits of their numbers
    Writes,         \* Writes[v]: the sizes of the tar writer's writes for version v
    MaxSize,        \* the size of a chunk
    Retries,        \* the retries of a chunk's download
    Scenarios,      \* bounds: uploads, commits, crashes, errors
    None            \* no metadata, no database

VARIABLES
    scenario,       \* the scenario of this behaviour
    version,        \* per shard: the version of the uploader's database
    backupDir,      \* the backup directory exists
    up,             \* the upload that runs
    clock,          \* seconds: the number of upload_to_s3 calls so far
    objects,        \* the chunks in the bucket
    latest,         \* per shard: latest.json
    down,           \* the download that runs
    restored,       \* per shard: the downloading node's database
    used            \* how much of each bound is used

vars == <<scenario, version, backupDir, up, clock, objects, latest, down,
          restored, used>>

Versions == DOMAIN Writes

\* The bounds.
Left(b) == used[b] < scenario[b]
Use(b) == used' = [used EXCEPT ![b] = @ + 1]

-----------------------------------------------------------------------------
(***************************************************************************)
(* Chunks.                                                                 *)
(***************************************************************************)

\* MultiChunkWriter::write: a write goes to the current chunk, or to a new
\* one when there is none or it would grow beyond the maximum.
WriteTo(w, size) ==
    IF w.parts = <<>> \/ w.size + size > MaxSize
    THEN [parts |-> Append(w.parts, <<size>>), size |-> size]
    ELSE [parts |-> [w.parts EXCEPT ![Len(w.parts)] = Append(@, size)],
          size |-> w.size + size]

\* create_tar_gzip: the chunks of a version, chunk_0001.bin and so on.
ChunksOf(v) == FoldLeft(WriteTo, [parts |-> <<>>, size |-> 0], Writes[v]).parts

\* What the constants are.  The directory of no shard is a prefix of that of
\* another one, as "1" is of "10": the objects of the one would be listed, and
\* cleared, with those of the other.
SnapshotConstants ==
    /\ IsFiniteSet(ShardIds) /\ ShardIds \subseteq Seq(Nat)
    /\ \A s, t \in ShardIds : IsPrefix(s, t) => s = t
    /\ 1 \in Versions /\ Versions \subseteq Nat
    /\ \A v \in Versions : ChunksOf(v) \in Seq(Seq(Nat))

\* The key of a chunk: the upload's directory, with the shard and the time in
\* seconds, and the number of the chunk.  The object's content is version v.
Chunk(s, t, i, v) == [shard |-> s, time |-> t, part |-> i, version |-> v]

\* snapshot_directory(..) of one shard is a prefix of the object's key.
UnderDirectory(o, s) == IsPrefix(s, o.shard)

\* The object that is stored under a key, or none.
ObjectsAt(s, t, i) == {o \in objects : o.shard = s /\ o.time = t /\ o.part = i}

Put(o) == (objects \ ObjectsAt(o.shard, o.time, o.part)) \cup {o}

-----------------------------------------------------------------------------
(***************************************************************************)
(* Upload.                                                                 *)
(***************************************************************************)

NoUpload == [phase |-> "idle", todo |-> <<>>, time |-> 0, version |-> 0,
             files |-> {}, names |-> <<>>]

\* The database grows.
Commit(s) ==
    /\ Left("commits")
    /\ version[s] + 1 \in Versions
    /\ version' = [version EXCEPT ![s] = @ + 1]
    /\ Use("commits")
    /\ UNCHANGED <<scenario, backupDir, up, clock, objects, latest, down, restored>>

\* upload_snapshot, by the job for all shards or by the admin service for
\* some: refused while the backup directory exists, which the first backup
\* creates.  Shard 0 goes first, the others in the order of a HashMap.
StartUpload(todo) ==
    /\ ~backupDir
    /\ Left("uploads")
    /\ backupDir' = TRUE
    /\ up' = [NoUpload EXCEPT !.phase = "backup", !.todo = todo]
    /\ Use("uploads")
    /\ UNCHANGED <<scenario, version, clock, objects, latest, down, restored>>

\* backup_and_upload failed or is done with a shard.
NextShard == [NoUpload EXCEPT !.phase = "backup", !.todo = Tail(up.todo)]

\* backup_db: a copy of the database as it is now, in chunks; upload_to_s3
\* names its directory after the time.
BackupDb ==
    /\ up.phase = "backup"
    /\ up.todo # <<>>
    /\ clock' = clock + 1
    /\ LET v == version[Head(up.todo)]
       IN up' = [up EXCEPT !.phase = "put", !.time = clock + 1, !.version = v,
                           !.files = DOMAIN ChunksOf(v), !.names = <<>>]
    /\ UNCHANGED <<scenario, version, backupDir, objects, latest, down, restored, used>>

\* put_object of the next file of the directory, in the order in which
\* read_dir gives them; a first failure is repeated with a new client.
PutChunk(i) ==
    /\ up.phase = "put"
    /\ i \in up.files
    /\ objects' = Put(Chunk(Head(up.todo), up.time, i, up.version))
    /\ up' = [up EXCEPT !.files = @ \ {i}, !.names = Append(@, i)]
    /\ UNCHANGED <<scenario, version, backupDir, clock, latest, down, restored, used>>

\* latest.json, with the names of the chunks.
Metadata == [time |-> up.time, chunks |-> up.names]

\* With a bug: the metadata goes first.
PutMetadataFirst ==
    /\ up.phase = "put"
    /\ latest' = [latest EXCEPT ![Head(up.todo)] =
          [time |-> up.time, chunks |-> SetToSortSeq(up.files, <)]]
    /\ up' = IF up.files = {} THEN [up EXCEPT !.phase = "clear"] ELSE up
    /\ UNCHANGED <<scenario, version, backupDir, clock, objects, down, restored, used>>

\* put_object of the metadata, after the last chunk.
PutMetadata ==
    /\ up.phase = "put"
    /\ up.files = {}
    /\ latest' = [latest EXCEPT ![Head(up.todo)] = Metadata]
    /\ up' = [up EXCEPT !.phase = "clear"]
    /\ UNCHANGED <<scenario, version, backupDir, clock, objects, down, restored, used>>

\* clear_old_snapshots: what is listed under the shard's directory, is not in
\* the directory of the latest upload, and is not its metadata.
ClearOldSnapshots ==
    /\ up.phase = "clear"
    /\ LET s == Head(up.todo)
       IN objects' = {o \in objects :
             UnderDirectory(o, s) => o.shard = s /\ o.time = latest[s].time}
    /\ up' = NextShard
    /\ UNCHANGED <<scenario, version, backupDir, clock, latest, down, restored, used>>

\* The backup, a second put in a row, the put of the metadata, the listing or
\* the deletion fails: the error is logged and the next shard is up.
UploadFails ==
    /\ up.phase \in {"backup", "put", "clear"}
    /\ up.todo # <<>>
    /\ Left("errors")
    /\ up' = NextShard
    /\ Use("errors")
    /\ UNCHANGED <<scenario, version, backupDir, clock, objects, latest, down, restored>>

\* remove_dir_all of the backup directory.
EndUpload ==
    /\ up.phase = "backup"
    /\ up.todo = <<>>
    /\ up' = NoUpload
    /\ backupDir' = FALSE
    /\ UNCHANGED <<scenario, version, clock, objects, latest, down, restored, used>>

\* The uploading node stops: the backup directory stays.
CrashUpload ==
    /\ up.phase # "idle"
    /\ Left("crashes")
    /\ up' = NoUpload
    /\ Use("crashes")
    /\ UNCHANGED <<scenario, version, backupDir, clock, objects, latest, down, restored>>

-----------------------------------------------------------------------------
(***************************************************************************)
(* Download.                                                               *)
(***************************************************************************)

NodeOff == [phase |-> "off", todo |-> <<>>, meta |-> None, files |-> <<>>, tries |-> 0]

\* main: the snapshots are loaded when the database directory is empty; the
\* shards of the configuration come first, shard 0 last.
StartNode(todo) ==
    /\ down.phase = "off"
    /\ down' = IF \A s \in ShardIds : restored[s] = None
               THEN [NodeOff EXCEPT !.phase = "metadata", !.todo = todo]
               ELSE [NodeOff EXCEPT !.phase = "running"]
    /\ UNCHANGED <<scenario, version, backupDir, up, clock, objects, latest, restored, used>>

\* download_metadata, which panics when there is none.
DownloadMetadata ==
    /\ down.phase = "metadata"
    /\ down.todo # <<>>
    /\ LET m == latest[Head(down.todo)]
       IN down' = IF m = None THEN NodeOff
                  ELSE [down EXCEPT !.phase = "chunks", !.meta = <<m>>, !.files = <<>>]
    /\ UNCHANGED <<scenario, version, backupDir, up, clock, objects, latest, restored, used>>

Meta == down.meta[1]

\* download_file of the next chunk: the body of the answer, whatever its
\* status, so the file of a chunk that is gone is not a zip file.
DownloadFile ==
    /\ down.phase = "chunks"
    /\ Len(down.files) < Len(Meta.chunks)
    /\ LET i == Meta.chunks[Len(down.files) + 1]
       IN down' = [down EXCEPT !.tries = 0, !.files =
             Append(@, ObjectsAt(Head(down.todo), Meta.time, i))]
    /\ UNCHANGED <<scenario, version, backupDir, up, clock, objects, latest, restored, used>>

\* The transfer of a chunk breaks: it is repeated, and after the last retry
\* the start of the node fails.
DownloadBreaks ==
    /\ down.phase = "chunks"
    /\ Len(down.files) < Len(Meta.chunks)
    /\ Left("errors")
    /\ down' = IF down.tries = Retries THEN NodeOff ELSE [down EXCEPT !.tries = @ + 1]
    /\ Use("errors")
    /\ UNCHANGED <<scenario, version, backupDir, up, clock, objects, latest, restored>>

\* With a bug: a file that is not a zip file is left out.
UnzipSkips ==
    /\ down.phase = "chunks"
    /\ Len(down.files) = Len(Meta.chunks)
    /\ down' = [down EXCEPT !.phase = "unpack"]
    /\ restored' = [restored EXCEPT ![Head(down.todo)] = [complete |-> FALSE, parts |-> <<>>]]
    /\ UNCHANGED <<scenario, version, backupDir, up, clock, objects, latest, used>>

\* Unzip the chunks into one tar file, in the order of the metadata, and start
\* to unpack it; a file that is not a zip file ends the start of the node.
Unzip ==
    /\ down.phase = "chunks"
    /\ Len(down.files) = Len(Meta.chunks)
    /\ IF \E k \in DOMAIN down.files : down.files[k] = {}
       THEN down' = NodeOff /\ UNCHANGED restored
       ELSE /\ down' = [down EXCEPT !.phase = "unpack"]
            /\ restored' = [restored EXCEPT ![Head(down.todo)] =
                  [complete |-> FALSE, parts |-> <<>>]]
    /\ UNCHANGED <<scenario, version, backupDir, up, clock, objects, latest, used>>

\* The archive is unpacked and the downloaded files are removed.
Unpacked ==
    /\ down.phase = "unpack"
    /\ restored' = [restored EXCEPT ![Head(down.todo)] =
          [complete |-> TRUE, parts |-> down.files]]
    /\ down' = [NodeOff EXCEPT !.phase = "metadata", !.todo = Tail(down.todo)]
    /\ UNCHANGED <<scenario, version, backupDir, up, clock, objects, latest, used>>

\* All shards are there: the node opens its databases.
NodeStarted ==
    /\ down.phase = "metadata"
    /\ down.todo = <<>>
    /\ down' = [NodeOff EXCEPT !.phase = "running"]
    /\ UNCHANGED <<scenario, version, backupDir, up, clock, objects, latest, restored, used>>

\* The starting node stops; what is unpacked stays on its disk.
CrashDownload ==
    /\ down.phase # "off"
    /\ Left("crashes")
    /\ down' = NodeOff
    /\ Use("crashes")
    /\ UNCHANGED <<scenario, version, backupDir, up, clock, objects, latest, restored>>

-----------------------------------------------------------------------------

Zero == <<0>>

\* Orders of the shards, with shard 0 first and last.
UploadOrders == {q \in SetToSeqs(ShardIds) : q[1] = Zero} \cup {<<s>> : s \in ShardIds}
DownloadOrders == {q \in SetToSeqs(ShardIds) : q[Len(q)] = Zero}

Init ==
    /\ scenario \in Scenarios
    /\ version = [s \in ShardIds |-> 1]
    /\ backupDir = FALSE
    /\ up = NoUpload
    /\ clock = 0
    /\ objects = {}
    /\ latest = [s \in ShardIds |-> None]
    /\ down = NodeOff
    /\ restored = [s \in ShardIds |-> None]
    /\ used = [b \in DOMAIN scenario |-> 0]

UploadStep ==
    \/ \E q \in UploadOrders : StartUpload(q)
    \/ BackupDb
    \/ \E i \in up.files : PutChunk(i)
    \/ PutMetadata
    \/ ClearOldSnapshots
    \/ UploadFails
    \/ EndUpload
    \/ CrashUpload

DownloadStep ==
    \/ \E q \in DownloadOrders : StartNode(q)
    \/ DownloadMetadata
    \/ DownloadFile
    \/ DownloadBreaks
    \/ Unzip
    \/ Unpacked
    \/ NodeStarted
    \/ CrashDownload

Next ==
    \/ \E s \in ShardIds : Commit(s)
    \/ UploadStep
    \/ DownloadStep

Spec == Init /\ [][Next]_vars

-----------------------------------------------------------------------------
(***************************************************************************)
(* Properties.                                                             *)
(***************************************************************************)

\* Whenever a node reads latest.json, every chunk it names is in the bucket,
\* whatever put, deletion or crash cut an upload short (upload_to_s3,
\* clear_old_snapshots).
LatestServable ==
    \A s \in ShardIds : latest[s] # None =>
        \A k \in DOMAIN latest[s].chunks :
            ObjectsAt(s, latest[s].time, latest[s].chunks[k]) # {}

\* The parts of a database are the chunks of one version, each once.
Whole(parts) ==
    \E v \in Versions :
        /\ Len(parts) = Len(ChunksOf(v))
        /\ \A i \in DOMAIN ChunksOf(v) : \E k \in DOMAIN parts :
              \E o \in parts[k] : o.part = i /\ o.version = v

\* A database that was downloaded to its end has every chunk of one copy of
\* the uploader's database, each once, although uploads replace and delete
\* the objects meanwhile (download_snapshots).  The order of the chunks is
\* that of read_dir and is not part of this.
RestoredWhole ==
    \A s \in ShardIds :
        restored[s] # None /\ restored[s].complete => Whole(restored[s].parts)

=============================================================================
