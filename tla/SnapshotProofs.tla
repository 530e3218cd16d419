--------------------------- MODULE SnapshotProofs ---------------------------
(***************************************************************************)
(* Proofs that the metadata of a snapshot never names a chunk that is not  *)
(* there, and that a database that was downloaded has all chunks of one    *)
(* copy, for every set of shards, size of the databases and all bounds.    *)
(***************************************************************************)
EXTENDS Snapshot, FiniteSetTheorems, SequenceTheorems, TLAPS

Object   == [shard : ShardIds, time : Nat, part : Nat, version : Versions]
MetaData == [time : Nat, chunks : Seq(Nat)]

TypeInv ==
    /\ version \in [ShardIds -> Versions]
    /\ clock \in Nat
    /\ objects \subseteq Object
    /\ latest \in [ShardIds -> MetaData \union {None}]
    /\ up \in [phase : {"idle", "backup", "put", "clear"}, todo : Seq(ShardIds),
               time : Nat, version : Nat, files : SUBSET Nat, names : Seq(Nat)]
    /\ down \in [phase : {"off", "metadata", "chunks", "unpack", "running"},
                 todo : Seq(ShardIds), meta : Seq(MetaData) \union {None},
                 files : Seq(SUBSET Object), tries : Nat]
    /\ restored \in [ShardIds -> [complete : BOOLEAN, parts : Seq(SUBSET Object)]
                                     \union {None}]

\* The objects of shard s with time t are of version v.
OfVersion(s, t, v) ==
    \A o \in objects : o.shard = s /\ o.time = t => o.version = v

\* The metadata m of shard s lists each chunk of version v once, and no later
\* upload writes into its directory.
Describes(m, s, v) ==
    /\ Len(m.chunks) = Len(ChunksOf(v))
    /\ \A i \in DOMAIN ChunksOf(v) : \E k \in DOMAIN m.chunks : m.chunks[k] = i
    /\ OfVersion(s, m.time, v)
    /\ m.time <= clock
    /\ up.phase = "put" => m.time < up.time \/ s # Head(up.todo)

\* An upload: its time is the latest, and of the chunks of the version those
\* that are named are in the bucket and the others are still to come.
Uploading ==
    /\ \A o \in objects : o.time <= clock
    /\ up.phase \in {"put", "clear"} => up.todo # <<>>
    /\ up.phase = "put" =>
        /\ up.time = clock
        /\ up.version \in Versions
        /\ OfVersion(Head(up.todo), up.time, up.version)
        /\ IsFiniteSet(up.files)
        /\ Len(up.names) + Cardinality(up.files) = Len(ChunksOf(up.version))
        /\ \A i \in DOMAIN ChunksOf(up.version) :
               i \in up.files \/ \E k \in DOMAIN up.names : up.names[k] = i
        /\ \A k \in DOMAIN up.names :
               ObjectsAt(Head(up.todo), up.time, up.names[k]) # {}

Published ==
    \A s \in ShardIds : latest[s] # None =>
        \E v \in Versions : Describes(latest[s], s, v)

\* A download: the files that are there are the chunks that the metadata
\* names, all of the version it describes.
Downloading ==
    down.phase \in {"chunks", "unpack"} =>
        /\ down.todo # <<>> /\ down.meta \in Seq(MetaData) /\ Len(down.meta) = 1
        /\ Len(down.files) <= Len(Meta.chunks)
        /\ \E v \in Versions :
               /\ Describes(Meta, Head(down.todo), v)
               /\ \A k \in DOMAIN down.files : \A o \in down.files[k] :
                      o.part = Meta.chunks[k] /\ o.version = v
        /\ down.phase = "unpack" =>
               /\ Len(down.files) = Len(Meta.chunks)
               /\ \A k \in DOMAIN down.files : down.files[k] # {}

\* The inductive invariant.
Inv == /\ TypeInv /\ Uploading /\ Published /\ Downloading
       /\ LatestServable /\ RestoredWhole

-----------------------------------------------------------------------------
\* The orders of the shards are sequences of shards.
LEMMA OrdersAreSequences ==
  ASSUME SnapshotConstants
  PROVE  UploadOrders \union DownloadOrders \subseteq Seq(ShardIds)
  <1>1. Cardinality(ShardIds) \in Nat
    BY FS_CardinalityType DEF SnapshotConstants
  <1>2. SetToSeqs(ShardIds) \subseteq Seq(ShardIds)
    BY <1>1 DEF SetToSeqs
  <1>3. \A s \in ShardIds : <<s>> \in Seq(ShardIds)
    OBVIOUS
  <1>4. QED
    BY <1>2, <1>3 DEF UploadOrders, DownloadOrders

\* The chunks of a version are numbered from 1.
LEMMA ChunksAreSequences ==
  ASSUME SnapshotConstants, NEW v \in Versions
  PROVE  /\ ChunksOf(v) \in Seq(Seq(Nat))
         /\ DOMAIN ChunksOf(v) = 1..Len(ChunksOf(v)) /\ Len(ChunksOf(v)) \in Nat
  <1>1. ChunksOf(v) \in Seq(Seq(Nat))
    BY DEF SnapshotConstants
  <1>2. \A S, q : q \in Seq(S) => DOMAIN q = 1..Len(q) /\ Len(q) \in Nat
    OBVIOUS
  <1>3. QED
    BY <1>1, <1>2, Zenon

\* Nothing is in the bucket.
LEMMA InvInit == SnapshotConstants /\ Init => Inv
  <1> SUFFICES ASSUME SnapshotConstants, Init PROVE Inv
    OBVIOUS
  <1>1. TypeInv
    BY DEF SnapshotConstants, Init, TypeInv, NoUpload, NodeOff
  <1>2. Uploading /\ Published /\ Downloading
    BY DEF Init, Uploading, Published, Downloading, NoUpload, NodeOff
  <1>3. LatestServable /\ RestoredWhole
    BY DEF Init, LatestServable, RestoredWhole
  <1>4. QED
    BY <1>1, <1>2, <1>3 DEF Inv

\* What the metadata describes stays, when objects go, time passes and no
\* upload starts to write.
LEMMA StillDescribes ==
  ASSUME objects' \subseteq objects, clock \in Nat, clock' \in Nat, clock <= clock',
         up' = up \/ up'.phase # "put",
         NEW m \in MetaData, NEW s, NEW v, Describes(m, s, v)
  PROVE  Describes(m, s, v)'
  <1>1. m.time \in Nat
    BY DEF MetaData
  <1>2. OfVersion(s, m.time, v)'
    BY DEF Describes, OfVersion
  <1>3. QED
    BY <1>1, <1>2 DEF Describes

\* A database that was there before is still whole.
LEMMA RestoredStays ==
  ASSUME RestoredWhole,
         \A s \in ShardIds : \/ restored'[s] = restored[s]
                             \/ restored'[s] = None
                             \/ ~restored'[s].complete
                             \/ Whole(restored'[s].parts)
  PROVE  RestoredWhole'
  BY DEF RestoredWhole

\* The downloading node does nothing, and what its metadata describes stays.
LEMMA DownloadWaits ==
  ASSUME Inv, UNCHANGED <<down, restored>>,
         \A m \in MetaData : \A s, v : Describes(m, s, v) => Describes(m, s, v)'
  PROVE  Downloading' /\ RestoredWhole'
  <1>1. Downloading'
    <2>1. Meta' = Meta
      BY DEF Meta
    <2>2. SUFFICES ASSUME down.phase \in {"chunks", "unpack"} PROVE Downloading'
      BY DEF Downloading
    <2>3. Meta \in MetaData
      BY <2>2 DEF Inv, Downloading, Meta
    <2>4. QED
      BY <2>1, <2>2, <2>3 DEF Inv, Downloading
  <1>2. RestoredWhole'
    BY RestoredStays DEF Inv
  <1>3. QED
    BY <1>1, <1>2

\* Steps of the upload that write nothing and end a shard or the upload.
LEMMA UploadEndKeeps ==
  ASSUME Inv, UNCHANGED <<clock, objects, latest, down, restored>>, TypeInv',
         up'.phase \in {"idle", "backup"}
  PROVE  Inv'
  <1>1. \A m \in MetaData : \A s, v : Describes(m, s, v) => Describes(m, s, v)'
    BY StillDescribes DEF Inv, TypeInv
  <1>2. Uploading'
    BY DEF Inv, Uploading
  <1>3. Published'
    BY <1>1 DEF Inv, TypeInv, Published
  <1>4. Downloading' /\ RestoredWhole'
    BY <1>1, DownloadWaits
  <1>5. LatestServable'
    BY DEF Inv, LatestServable, ObjectsAt
  <1>6. QED
    BY <1>2, <1>3, <1>4, <1>5 DEF Inv

\* A new copy: nothing in the bucket has its time yet.
LEMMA BackupKeeps == SnapshotConstants /\ Inv /\ BackupDb => Inv'
  <1> SUFFICES ASSUME SnapshotConstants, Inv, BackupDb PROVE Inv'
    OBVIOUS
  <1> DEFINE s == Head(up.todo)
             w == version[s]
  <1>1. /\ up.todo # <<>> /\ clock' = clock + 1
        /\ UNCHANGED <<version, objects, latest, down, restored>>
        /\ up' = [up EXCEPT !.phase = "put", !.time = clock + 1, !.version = w,
                            !.files = DOMAIN ChunksOf(w), !.names = <<>>]
    BY DEF BackupDb
  <1>2. s \in ShardIds /\ w \in Versions /\ clock \in Nat
    BY <1>1 DEF Inv, TypeInv
  <1>3. /\ ChunksOf(w) \in Seq(Seq(Nat))
        /\ DOMAIN ChunksOf(w) = 1..Len(ChunksOf(w)) /\ Len(ChunksOf(w)) \in Nat
    BY <1>2, ChunksAreSequences
  <1>4. /\ up'.phase = "put" /\ up'.todo = up.todo /\ up'.time = clock + 1
        /\ up'.version = w /\ up'.files = 1..Len(ChunksOf(w)) /\ up'.names = <<>>
    BY <1>1, <1>3 DEF Inv, TypeInv
  <1>5. w \in Nat
    BY <1>2 DEF SnapshotConstants
  <1> HIDE DEF s, w
  <1>6. TypeInv'
    <2> DEFINE F == DOMAIN ChunksOf(w)
    <2>1. F \in SUBSET Nat
      BY <1>3
    <2>4. up' = [phase |-> "put", todo |-> up.todo, time |-> clock + 1, version |-> w,
                 files |-> F, names |-> <<>>]
      BY <1>1 DEF Inv, TypeInv
    <2> HIDE DEF F
    <2>5. up.todo \in Seq(ShardIds) /\ <<>> \in Seq(Nat)
      BY DEF Inv, TypeInv
    <2>2. up' \in [phase : {"idle", "backup", "put", "clear"}, todo : Seq(ShardIds),
                   time : Nat, version : Nat, files : SUBSET Nat, names : Seq(Nat)]
      BY <1>2, <1>5, <2>1, <2>4, <2>5
    <2>3. QED
      BY <1>1, <1>2, <2>2 DEF Inv, TypeInv
  <1>7. \A m \in MetaData : \A x, v : Describes(m, x, v) => Describes(m, x, v)'
    <2> SUFFICES ASSUME NEW m \in MetaData, NEW x, NEW v, Describes(m, x, v)
                 PROVE  Describes(m, x, v)'
      OBVIOUS
    <2>1. m.time \in Nat /\ m.time <= clock
      BY DEF MetaData, Describes
    <2>2. OfVersion(x, m.time, v)'
      BY <1>1 DEF Describes, OfVersion
    <2>3. QED
      BY <1>1, <1>2, <1>4, <2>1, <2>2 DEF Describes
  <1>8. Uploading'
    <2>1. \A o \in objects' : o.time \in Nat /\ o.time <= clock
      BY <1>1 DEF Inv, TypeInv, Uploading, Object
    <2>2. \A o \in objects' : o.time <= clock' /\ o.time # up'.time
      BY <1>1, <1>2, <1>4, <2>1
    <2>3. IsFiniteSet(up'.files) /\ Cardinality(up'.files) = Len(ChunksOf(w))
      BY <1>3, <1>4, FS_Interval
    <2>4. Len(up'.names) + Cardinality(up'.files) = Len(ChunksOf(w))
      BY <1>3, <1>4, <2>3
    <2>5. \A i \in DOMAIN ChunksOf(w) : i \in up'.files
      BY <1>3, <1>4
    <2>6. DOMAIN up'.names = {}
      BY <1>4
    <2>7. OfVersion(Head(up.todo), up.time, up.version)'
      BY <2>2 DEF OfVersion
    <2>8. QED
      BY <1>1, <1>2, <1>4, <2>2, <2>3, <2>4, <2>5, <2>6, <2>7 DEF Uploading
  <1>9. Published'
    BY <1>1, <1>7 DEF Inv, TypeInv, Published
  <1>10. Downloading' /\ RestoredWhole'
    BY <1>1, <1>7, DownloadWaits
  <1>11. LatestServable'
    BY <1>1 DEF Inv, LatestServable, ObjectsAt
  <1>12. QED
    BY <1>6, <1>8, <1>9, <1>10, <1>11 DEF Inv

\* A chunk goes into the directory of the upload, where nothing but chunks of
\* the same copy is.
LEMMA PutChunkKeeps ==
  ASSUME SnapshotConstants, Inv, NEW i, PutChunk(i)
  PROVE  Inv'
  <1> DEFINE s == Head(up.todo)
             c == Chunk(s, up.time, i, up.version)
  <1>1. /\ up.phase = "put" /\ i \in up.files
        /\ objects' = Put(c)
        /\ up' = [up EXCEPT !.files = @ \ {i}, !.names = Append(@, i)]
        /\ UNCHANGED <<version, clock, latest, down, restored>>
    BY DEF PutChunk
  <1>2. /\ up.todo # <<>> /\ up.time = clock /\ up.version \in Versions
        /\ OfVersion(s, up.time, up.version)
        /\ IsFiniteSet(up.files)
        /\ Len(up.names) + Cardinality(up.files) = Len(ChunksOf(up.version))
        /\ \A j \in DOMAIN ChunksOf(up.version) :
               j \in up.files \/ \E k \in DOMAIN up.names : up.names[k] = j
        /\ \A k \in DOMAIN up.names : ObjectsAt(s, up.time, up.names[k]) # {}
    BY <1>1 DEF Inv, Uploading
  <1>3. /\ s \in ShardIds /\ up.time \in Nat /\ i \in Nat /\ clock \in Nat
        /\ up.names \in Seq(Nat) /\ up.todo \in Seq(ShardIds) /\ up.files \in SUBSET Nat
        /\ up.version \in Nat
    BY <1>1, <1>2 DEF Inv, TypeInv
  <1>4. c \in Object /\ c.shard = s /\ c.time = up.time /\ c.part = i /\ c.version = up.version
    BY <1>2, <1>3 DEF Chunk, Object
  <1>5. up' = [phase |-> "put", todo |-> up.todo, time |-> up.time, version |-> up.version,
               files |-> up.files \ {i}, names |-> Append(up.names, i)]
    BY <1>1 DEF Inv, TypeInv
  <1> HIDE DEF c, s
  <1>6. /\ \A o \in objects' : o \in objects \/ o = c
        /\ \A x, y, j : ObjectsAt(x, y, j) # {} => ObjectsAt(x, y, j)' # {}
        /\ ObjectsAt(s, up.time, i)' # {}
        /\ c \in objects'
    <2>1. objects' = {o \in objects : ~(o.shard = s /\ o.time = up.time /\ o.part = i)} \union {c}
      BY <1>1, <1>4 DEF Put, ObjectsAt
    <2>2. c \in objects' /\ \A o \in objects' : o \in objects \/ o = c
      BY <2>1
    <2>3. ASSUME NEW x, NEW y, NEW j, ObjectsAt(x, y, j) # {} PROVE ObjectsAt(x, y, j)' # {}
      <3>1. PICK o \in objects : o.shard = x /\ o.time = y /\ o.part = j
        BY <2>3 DEF ObjectsAt
      <3>2. \E q \in objects' : q.shard = x /\ q.time = y /\ q.part = j
        BY <1>4, <2>1, <3>1
      <3>3. QED
        BY <3>2 DEF ObjectsAt
    <2>4. \E q \in objects' : q.shard = s /\ q.time = up.time /\ q.part = i
      BY <1>4, <2>2
    <2>5. up'.time = up.time
      BY <1>5
    <2>6. ObjectsAt(s, up.time, i)' # {}
      BY <2>4, <2>5, <1>5 DEF ObjectsAt, s
    <2>7. QED
      BY <2>2, <2>3, <2>6
  <1>7. TypeInv'
    <2>1. Append(up.names, i) \in Seq(Nat) /\ up.files \ {i} \in SUBSET Nat
      BY <1>3
    <2>2. up' \in [phase : {"idle", "backup", "put", "clear"}, todo : Seq(ShardIds),
                   time : Nat, version : Nat, files : SUBSET Nat, names : Seq(Nat)]
      BY <1>3, <1>5, <2>1
    <2>3. objects' \subseteq Object
      BY <1>4, <1>6 DEF Inv, TypeInv
    <2>4. QED
      BY <1>1, <2>2, <2>3 DEF Inv, TypeInv
  <1>8. \A m \in MetaData : \A x, v : Describes(m, x, v) => Describes(m, x, v)'
    <2> SUFFICES ASSUME NEW m \in MetaData, NEW x, NEW v, Describes(m, x, v)
                 PROVE  Describes(m, x, v)'
      OBVIOUS
    <2>1. m.time < up.time \/ x # s
      BY <1>1 DEF Describes, s
    <2>2. ~(c.shard = x /\ c.time = m.time)
      BY <1>3, <1>4, <2>1 DEF MetaData
    <2>3. OfVersion(x, m.time, v)'
      BY <1>6, <2>2 DEF Describes, OfVersion
    <2>4. QED
      BY <1>1, <1>5, <2>1, <2>3 DEF Describes, s
  <1>9. Uploading'
    <2>1. \A o \in objects' : o.time <= clock
      BY <1>2, <1>3, <1>4, <1>6 DEF Inv, Uploading
    <2>2. OfVersion(s, up.time, up.version)'
      BY <1>2, <1>4, <1>5, <1>6 DEF OfVersion, s
    <2>3. /\ IsFiniteSet(up.files \ {i})
          /\ Cardinality(up.files \ {i}) = Cardinality(up.files) - 1
          /\ Cardinality(up.files) \in Nat
      BY <1>1, <1>2, FS_RemoveElement, FS_CardinalityType
    <2>4. /\ Len(Append(up.names, i)) = Len(up.names) + 1 /\ Len(up.names) \in Nat
          /\ DOMAIN Append(up.names, i) = 1..Len(up.names) + 1
          /\ \A k \in DOMAIN up.names : /\ k \in DOMAIN Append(up.names, i)
                                        /\ Append(up.names, i)[k] = up.names[k]
          /\ Append(up.names, i)[Len(up.names) + 1] = i
          /\ DOMAIN up.names = 1..Len(up.names)
      BY <1>3
    <2>5. Len(Append(up.names, i)) + Cardinality(up.files \ {i}) = Len(ChunksOf(up.version))
      BY <1>2, <2>3, <2>4
    <2>6. \A j \in DOMAIN ChunksOf(up.version) :
              \/ j \in up.files \ {i}
              \/ \E k \in DOMAIN Append(up.names, i) : Append(up.names, i)[k] = j
      BY <1>2, <2>4
    <2>7. \A k \in DOMAIN Append(up.names, i) :
              ObjectsAt(s, up.time, Append(up.names, i)[k])' # {}
      <3> SUFFICES ASSUME NEW k \in DOMAIN Append(up.names, i)
                   PROVE  \E o \in objects' : /\ o.shard = s /\ o.time = up.time
                                              /\ o.part = Append(up.names, i)[k]
        BY <1>5 DEF ObjectsAt, s
      <3>1. CASE k \in DOMAIN up.names
        <4>1. ObjectsAt(s, up.time, up.names[k]) # {}
          BY <1>2, <3>1
        <4>2. PICK o \in objects : o.shard = s /\ o.time = up.time /\ o.part = up.names[k]
          BY <4>1 DEF ObjectsAt
        <4>3. \E q \in objects' : q.shard = s /\ q.time = up.time /\ q.part = up.names[k]
          <5>1. CASE up.names[k] = i
            BY <1>4, <1>6, <5>1
          <5>2. CASE up.names[k] # i
            <6>1. o \in objects'
              BY <1>1, <1>4, <4>2, <5>2 DEF Put, ObjectsAt
            <6>2. QED
              BY <4>2, <6>1
          <5>3. QED
            BY <5>1, <5>2
        <4>4. QED
          BY <2>4, <3>1, <4>3
      <3>2. CASE k = Len(up.names) + 1
        BY <1>4, <1>6, <2>4, <3>2
      <3>3. QED
        BY <2>4, <3>1, <3>2
    <2>8. /\ up'.phase = "put" /\ up'.todo = up.todo /\ up'.time = up.time
          /\ up'.version = up.version
          /\ up'.files = up.files \ {i} /\ up'.names = Append(up.names, i)
          /\ clock' = clock
      BY <1>1, <1>5
    <2>9. \A k \in DOMAIN up'.names : ObjectsAt(Head(up.todo), up.time, up.names[k])' # {}
      BY <2>7, <2>8 DEF ObjectsAt, s
    <2>10. OfVersion(Head(up.todo), up.time, up.version)'
      BY <2>2 DEF s
    <2>11. QED
      BY <1>2, <2>1, <2>3, <2>5, <2>6, <2>8, <2>9, <2>10 DEF Uploading
  <1>10. Published'
    BY <1>1, <1>8 DEF Inv, TypeInv, Published
  <1>11. Downloading' /\ RestoredWhole'
    BY <1>1, <1>8, DownloadWaits
  <1>12. LatestServable'
    BY <1>1, <1>6 DEF Inv, LatestServable
  <1>13. QED
    BY <1>7, <1>9, <1>10, <1>11, <1>12 DEF Inv

\* The metadata lists the chunks of a copy that are all in the bucket.
LEMMA PutMetadataKeeps ==
  ASSUME SnapshotConstants, Inv, PutMetadata
  PROVE  Inv'
  <1>1. /\ up.phase = "put" /\ up.files = {}
        /\ latest' = [latest EXCEPT ![Head(up.todo)] = Metadata]
        /\ up' = [up EXCEPT !.phase = "clear"]
        /\ UNCHANGED <<version, clock, objects, down, restored>>
    BY DEF PutMetadata
  <1>2. /\ up.todo # <<>> /\ up.time = clock /\ up.version \in Versions
        /\ OfVersion(Head(up.todo), up.time, up.version)
        /\ Len(up.names) + Cardinality(up.files) = Len(ChunksOf(up.version))
        /\ \A i \in DOMAIN ChunksOf(up.version) :
               i \in up.files \/ \E k \in DOMAIN up.names : up.names[k] = i
        /\ \A k \in DOMAIN up.names :
               ObjectsAt(Head(up.todo), up.time, up.names[k]) # {}
    BY <1>1 DEF Inv, Uploading
  <1>3. /\ Head(up.todo) \in ShardIds /\ up.time \in Nat /\ clock \in Nat
        /\ up.names \in Seq(Nat) /\ latest \in [ShardIds -> MetaData \union {None}]
    BY <1>2 DEF Inv, TypeInv
  <1>4. /\ Metadata \in MetaData /\ Metadata.time = up.time /\ Metadata.chunks = up.names
    BY <1>3 DEF Metadata, MetaData
  <1>5. /\ up'.phase = "clear" /\ up'.todo = up.todo
        /\ latest'[Head(up.todo)] = Metadata
        /\ \A s \in ShardIds : s # Head(up.todo) => latest'[s] = latest[s]
    BY <1>1, <1>3 DEF Inv, TypeInv
  <1>6. TypeInv'
    BY <1>1, <1>3, <1>4 DEF Inv, TypeInv
  <1>7. \A m \in MetaData : \A s, v : Describes(m, s, v) => Describes(m, s, v)'
    BY <1>1, <1>3, <1>5, StillDescribes
  <1>8. Uploading'
    BY <1>1, <1>2, <1>5 DEF Inv, Uploading
  <1>9. Published'
    <2> SUFFICES ASSUME NEW s \in ShardIds, latest'[s] # None
                 PROVE  \E v \in Versions : Describes(latest[s], s, v)'
      BY DEF Published
    <2>1. CASE s = Head(up.todo)
      <3>1. Cardinality(up.files) = 0
        BY <1>1, FS_EmptySet
      <3>2. Len(up.names) = Len(ChunksOf(up.version))
        BY <1>2, <1>3, <3>1
      <3>3. \A i \in DOMAIN ChunksOf(up.version) : \E k \in DOMAIN up.names : up.names[k] = i
        BY <1>1, <1>2
      <3>4. latest'[s].time = up.time /\ latest'[s].chunks = up.names
        BY <1>4, <1>5, <2>1
      <3>5. ASSUME NEW w, w = up.version PROVE Describes(latest[s], s, w)'
        <4>1. OfVersion(s, latest[s].time, w)'
          BY <1>1, <1>2, <2>1, <3>4, <3>5 DEF OfVersion
        <4>2. QED
          BY <1>1, <1>2, <1>3, <1>5, <3>2, <3>3, <3>4, <3>5, <4>1 DEF Describes
      <3>6. QED
        BY <1>2, <3>5
    <2>2. CASE s # Head(up.todo)
      <3>1. latest'[s] = latest[s] /\ latest[s] \in MetaData
        BY <1>3, <1>5, <2>2
      <3>2. PICK v \in Versions : Describes(latest[s], s, v)
        BY <3>1 DEF Inv, Published
      <3>3. ASSUME NEW m, m = latest[s] PROVE Describes(m, s, v)'
        BY <1>7, <3>1, <3>2, <3>3
      <3>4. Describes(latest[s], s, v)'
        BY <3>1, <3>3 DEF Describes, OfVersion
      <3>5. QED
        BY <3>4
    <2>3. QED
      BY <2>1, <2>2
  <1>10. Downloading' /\ RestoredWhole'
    BY <1>1, <1>7, DownloadWaits
  <1>11. LatestServable'
    <2> SUFFICES ASSUME NEW s \in ShardIds, latest'[s] # None,
                        NEW k \in DOMAIN latest'[s].chunks
                 PROVE  ObjectsAt(s, latest'[s].time, latest'[s].chunks[k]) # {}
      BY <1>1 DEF LatestServable, ObjectsAt
    <2>1. CASE s = Head(up.todo)
      BY <1>2, <1>4, <1>5, <2>1
    <2>2. CASE s # Head(up.todo)
      BY <1>5, <2>2 DEF Inv, LatestServable
    <2>3. QED
      BY <2>1, <2>2
  <1>12. QED
    BY <1>6, <1>8, <1>9, <1>10, <1>11 DEF Inv

\* What is cleared is neither another shard's nor of the latest upload.
LEMMA ClearKeeps ==
  ASSUME SnapshotConstants, Inv, ClearOldSnapshots
  PROVE  Inv'
  <1> DEFINE h == Head(up.todo)
  <1>1. /\ up.phase = "clear" /\ up' = NextShard
        /\ objects' = {o \in objects :
              UnderDirectory(o, h) => o.shard = h /\ o.time = latest[h].time}
        /\ UNCHANGED <<version, clock, latest, down, restored>>
    BY DEF ClearOldSnapshots
  <1>2. h \in ShardIds /\ clock \in Nat /\ objects' \subseteq objects
    BY <1>1 DEF Inv, Uploading, TypeInv
  <1>3. Tail(up.todo) \in Seq(ShardIds)
    BY <1>1 DEF Inv, Uploading, TypeInv
  <1>4. up' = [phase |-> "backup", todo |-> Tail(up.todo), time |-> 0, version |-> 0,
               files |-> {}, names |-> <<>>]
    BY <1>1 DEF NextShard, NoUpload
  <1>5. TypeInv'
    BY <1>1, <1>2, <1>3, <1>4 DEF Inv, TypeInv
  <1>6. \A m \in MetaData : \A s, v : Describes(m, s, v) => Describes(m, s, v)'
    BY <1>1, <1>2, <1>4, StillDescribes
  <1>7. Uploading'
    BY <1>1, <1>2, <1>4 DEF Inv, Uploading
  <1>8. Published'
    BY <1>1, <1>6 DEF Inv, TypeInv, Published
  <1>9. Downloading' /\ RestoredWhole'
    BY <1>1, <1>6, DownloadWaits
  <1>10. LatestServable'
    <2> SUFFICES ASSUME NEW s \in ShardIds, latest[s] # None,
                        NEW k \in DOMAIN latest[s].chunks
                 PROVE  \E o \in objects' : /\ o.shard = s /\ o.time = latest[s].time
                                            /\ o.part = latest[s].chunks[k]
      BY <1>1 DEF LatestServable, ObjectsAt
    <2>1. PICK o \in objects : /\ o.shard = s /\ o.time = latest[s].time
                               /\ o.part = latest[s].chunks[k]
      BY DEF Inv, LatestServable, ObjectsAt
    <2>2. UnderDirectory(o, h) => s = h
      BY <1>2, <2>1 DEF UnderDirectory, SnapshotConstants
    <2>3. o \in objects'
      BY <1>1, <2>1, <2>2
    <2>4. QED
      BY <2>1, <2>3
  <1>11. QED
    BY <1>5, <1>7, <1>8, <1>9, <1>10 DEF Inv

\* The bucket and the upload are as they were.
LEMMA BucketUnchanged ==
  ASSUME Inv, UNCHANGED <<up, clock, objects, latest>>
  PROVE  /\ Uploading' /\ Published' /\ LatestServable'
         /\ \A m, s, v : Describes(m, s, v) => Describes(m, s, v)'
  <1>1. Uploading'
    BY DEF Inv, Uploading, OfVersion, ObjectsAt
  <1>2. \A m, s, v : Describes(m, s, v) => Describes(m, s, v)'
    BY DEF Describes, OfVersion
  <1>3. Published'
    BY DEF Inv, Published, Describes, OfVersion
  <1>4. LatestServable'
    BY DEF Inv, LatestServable, ObjectsAt
  <1>5. QED
    BY <1>1, <1>2, <1>3, <1>4

\* A step of the downloading node after which no chunk is awaited.
LEMMA DownloadEndKeeps ==
  ASSUME Inv, UNCHANGED <<version, up, clock, objects, latest, restored>>,
         NEW todo \in Seq(ShardIds), NEW phase \in {"off", "metadata", "running"},
         down' = [phase |-> phase, todo |-> todo, meta |-> None, files |-> <<>>, tries |-> 0]
  PROVE  Inv'
  <1>1. TypeInv'
    BY DEF Inv, TypeInv
  <1>2. Downloading'
    BY DEF Downloading
  <1>3. RestoredWhole'
    BY RestoredStays DEF Inv
  <1>4. QED
    BY <1>1, <1>2, <1>3, BucketUnchanged DEF Inv

\* The metadata that is read describes a copy.
LEMMA DownloadMetadataKeeps ==
  ASSUME Inv, DownloadMetadata
  PROVE  Inv'
  <1> DEFINE h == Head(down.todo)
             m == latest[h]
  <1>1. /\ down.phase = "metadata" /\ down.todo # <<>>
        /\ UNCHANGED <<version, up, clock, objects, latest, restored>>
    BY DEF DownloadMetadata
  <1>2. h \in ShardIds /\ down.todo \in Seq(ShardIds) /\ down.tries \in Nat
    BY <1>1 DEF Inv, TypeInv
  <1>3. CASE m = None
    <2>1. <<>> \in Seq(ShardIds)
      OBVIOUS
    <2>2. down' = [phase |-> "off", todo |-> <<>>, meta |-> None, files |-> <<>>, tries |-> 0]
      BY <1>3 DEF DownloadMetadata, NodeOff
    <2>3. QED
      BY <1>1, <2>1, <2>2, DownloadEndKeeps
  <1>4. CASE m # None
    <2>1. m \in MetaData
      BY <1>2, <1>4 DEF Inv, TypeInv
    <2>2. down' = [phase |-> "chunks", todo |-> down.todo, meta |-> <<m>>, files |-> <<>>,
                   tries |-> down.tries]
      BY <1>4 DEF DownloadMetadata, Inv, TypeInv
    <2>3. PICK v \in Versions : Describes(m, h, v)
      BY <1>2, <1>4 DEF Inv, Published
    <2>4. Describes(m, h, v)'
      <3>1. h' = h /\ m' = m
        BY <1>1, <2>2
      <3>2. QED
        BY <1>1, <2>2, <2>3 DEF Describes, OfVersion
    <2> HIDE DEF m
    <2>5. <<m>> \in Seq(MetaData) /\ Len(<<m>>) = 1 /\ <<m>>[1] = m /\ <<>> \in Seq(SUBSET Object)
      BY <2>1
    <2>6. TypeInv'
      BY <1>1, <1>2, <2>2, <2>5 DEF Inv, TypeInv
    <2>7. Meta' = m
      BY <2>2, <2>5 DEF Meta
    <2>8. Len(m.chunks) \in Nat
      BY <2>1 DEF MetaData
    <2>9. Describes(Meta, Head(down.todo), v)'
      BY <1>1, <2>2, <2>3, <2>7 DEF Describes, OfVersion
    <2>10. Downloading'
      BY <1>1, <2>2, <2>5, <2>7, <2>8, <2>9 DEF Downloading
    <2>11. RestoredWhole'
      BY <1>1, RestoredStays DEF Inv
    <2>12. QED
      BY <1>1, <2>6, <2>10, <2>11, BucketUnchanged DEF Inv
  <1>5. QED
    BY <1>3, <1>4

\* The file of a chunk holds the chunk of the copy or nothing.
LEMMA DownloadFileKeeps ==
  ASSUME Inv, DownloadFile
  PROVE  Inv'
  <1> DEFINE f == ObjectsAt(Head(down.todo), Meta.time, Meta.chunks[Len(down.files) + 1])
  <1>1. /\ down.phase = "chunks" /\ Len(down.files) < Len(Meta.chunks)
        /\ down' = [down EXCEPT !.tries = 0, !.files = Append(@, f)]
        /\ UNCHANGED <<version, up, clock, objects, latest, restored>>
    BY DEF DownloadFile
  <1>2. /\ down.todo # <<>> /\ down.meta \in Seq(MetaData) /\ Len(down.meta) = 1
    BY <1>1 DEF Inv, Downloading
  <1>3. PICK v \in Versions :
            /\ Describes(Meta, Head(down.todo), v)
            /\ \A k \in DOMAIN down.files : \A o \in down.files[k] :
                   o.part = Meta.chunks[k] /\ o.version = v
    BY <1>1 DEF Inv, Downloading
  <1>4. f \in SUBSET Object /\ down.files \in Seq(SUBSET Object) /\ down.todo \in Seq(ShardIds)
    BY DEF Inv, TypeInv, ObjectsAt
  <1>5. \A o \in f : o.part = Meta.chunks[Len(down.files) + 1] /\ o.version = v
    BY <1>3 DEF ObjectsAt, Describes, OfVersion
  <1>6. Meta \in MetaData
    BY <1>2 DEF Meta
  <1> HIDE DEF f
  <1>7. down' = [phase |-> "chunks", todo |-> down.todo, meta |-> down.meta,
                 files |-> Append(down.files, f), tries |-> 0]
    BY <1>1 DEF Inv, TypeInv
  <1>8. TypeInv'
    <2>1. Append(down.files, f) \in Seq(SUBSET Object)
      BY <1>4
    <2>2. down' \in [phase : {"off", "metadata", "chunks", "unpack", "running"},
                     todo : Seq(ShardIds), meta : Seq(MetaData) \union {None},
                     files : Seq(SUBSET Object), tries : Nat]
      BY <1>2, <1>4, <1>7, <2>1
    <2>3. QED
      BY <1>1, <2>2 DEF Inv, TypeInv
  <1>9. Meta' = Meta
    BY <1>7 DEF Meta
  <1>10. Describes(Meta, Head(down.todo), v)'
    BY <1>1, <1>3, <1>7, <1>9 DEF Describes, OfVersion
  <1>11. /\ DOMAIN Append(down.files, f) = 1..Len(down.files) + 1
         /\ Len(Append(down.files, f)) = Len(down.files) + 1
         /\ Len(down.files) \in Nat /\ DOMAIN down.files = 1..Len(down.files)
         /\ \A k \in 1..Len(down.files) : Append(down.files, f)[k] = down.files[k]
         /\ Append(down.files, f)[Len(down.files) + 1] = f
    BY <1>4
  <1>12. \A k \in 1..Len(down.files) + 1 : \A o \in Append(down.files, f)[k] :
             o.part = Meta.chunks[k] /\ o.version = v
    <2> SUFFICES ASSUME NEW k \in 1..Len(down.files) + 1
                 PROVE  \A o \in Append(down.files, f)[k] :
                            o.part = Meta.chunks[k] /\ o.version = v
      OBVIOUS
    <2>1. CASE k = Len(down.files) + 1
      BY <1>5, <1>11, <2>1
    <2>2. CASE k \in 1..Len(down.files)
      BY <1>3, <1>11, <2>2
    <2>3. QED
      BY <1>11, <2>1, <2>2
  <1>13. Len(Meta.chunks) \in Nat
    BY <1>6 DEF MetaData
  <1>14. Downloading'
    BY <1>1, <1>2, <1>7, <1>9, <1>10, <1>11, <1>12, <1>13 DEF Downloading
  <1>15. RestoredWhole'
    BY <1>1, RestoredStays DEF Inv
  <1>16. QED
    BY <1>1, <1>8, <1>14, <1>15, BucketUnchanged DEF Inv

\* A transfer that breaks is repeated, or ends the start of the node.
LEMMA DownloadBreaksKeeps ==
  ASSUME Inv, DownloadBreaks
  PROVE  Inv'
  <1>1. /\ down.phase = "chunks"
        /\ down' = IF down.tries = Retries THEN NodeOff ELSE [down EXCEPT !.tries = @ + 1]
        /\ UNCHANGED <<version, up, clock, objects, latest, restored>>
    BY DEF DownloadBreaks
  <1>2. CASE down' = NodeOff
    <2>1. <<>> \in Seq(ShardIds)
      OBVIOUS
    <2>2. down' = [phase |-> "off", todo |-> <<>>, meta |-> None, files |-> <<>>, tries |-> 0]
      BY <1>2 DEF NodeOff
    <2>3. QED
      BY <1>1, <2>1, <2>2, DownloadEndKeeps
  <1>3. CASE down' = [down EXCEPT !.tries = @ + 1]
    <2>1. down' = [phase |-> "chunks", todo |-> down.todo, meta |-> down.meta,
                   files |-> down.files, tries |-> down.tries + 1]
      BY <1>1, <1>3 DEF Inv, TypeInv
    <2>2. TypeInv'
      <3>1. down' \in [phase : {"off", "metadata", "chunks", "unpack", "running"},
                       todo : Seq(ShardIds), meta : Seq(MetaData) \union {None},
                       files : Seq(SUBSET Object), tries : Nat]
        BY <2>1 DEF Inv, TypeInv
      <3>2. QED
        BY <1>1, <3>1 DEF Inv, TypeInv
    <2>3. Meta' = Meta
      BY <2>1 DEF Meta
    <2>4. PICK v \in Versions :
              /\ Describes(Meta, Head(down.todo), v)
              /\ \A k \in DOMAIN down.files : \A o \in down.files[k] :
                     o.part = Meta.chunks[k] /\ o.version = v
      BY <1>1 DEF Inv, Downloading
    <2>5. Describes(Meta, Head(down.todo), v)'
      BY <1>1, <2>1, <2>3, <2>4 DEF Describes, OfVersion
    <2>6. Downloading'
      BY <1>1, <2>1, <2>3, <2>4, <2>5 DEF Inv, Downloading
    <2>7. RestoredWhole'
      BY <1>1, RestoredStays DEF Inv
    <2>8. QED
      BY <1>1, <2>2, <2>6, <2>7, BucketUnchanged DEF Inv
  <1>4. QED
    BY <1>1, <1>2, <1>3

\* The database is only begun when the archive has all chunks.
LEMMA UnzipKeeps ==
  ASSUME Inv, Unzip
  PROVE  Inv'
  <1>1. /\ down.phase = "chunks" /\ Len(down.files) = Len(Meta.chunks)
        /\ UNCHANGED <<version, up, clock, objects, latest>>
    BY DEF Unzip
  <1>2. CASE \E k \in DOMAIN down.files : down.files[k] = {}
    <2>1. <<>> \in Seq(ShardIds)
      OBVIOUS
    <2>2. /\ down' = [phase |-> "off", todo |-> <<>>, meta |-> None, files |-> <<>>, tries |-> 0]
          /\ restored' = restored
      BY <1>2 DEF Unzip, NodeOff
    <2>3. QED
      BY <1>1, <2>1, <2>2, DownloadEndKeeps
  <1>3. CASE ~ \E k \in DOMAIN down.files : down.files[k] = {}
    <2> DEFINE h == Head(down.todo)
    <2>1. /\ down' = [down EXCEPT !.phase = "unpack"]
          /\ restored' = [restored EXCEPT ![h] = [complete |-> FALSE, parts |-> <<>>]]
      BY <1>3 DEF Unzip
    <2>2. h \in ShardIds
      BY <1>1 DEF Inv, TypeInv, Downloading
    <2>3. down' = [phase |-> "unpack", todo |-> down.todo, meta |-> down.meta,
                   files |-> down.files, tries |-> down.tries]
      BY <2>1 DEF Inv, TypeInv
    <2> HIDE DEF h
    <2>4. TypeInv'
      <3>1. [complete |-> FALSE, parts |-> <<>>]
                \in [complete : BOOLEAN, parts : Seq(SUBSET Object)]
        OBVIOUS
      <3>2. restored' \in [ShardIds -> [complete : BOOLEAN, parts : Seq(SUBSET Object)]
                                           \union {None}]
        BY <2>1, <2>2, <3>1 DEF Inv, TypeInv
      <3>3. down' \in [phase : {"off", "metadata", "chunks", "unpack", "running"},
                       todo : Seq(ShardIds), meta : Seq(MetaData) \union {None},
                       files : Seq(SUBSET Object), tries : Nat]
        BY <2>3 DEF Inv, TypeInv
      <3>4. QED
        BY <1>1, <3>2, <3>3 DEF Inv, TypeInv
    <2>5. Meta' = Meta
      BY <2>3 DEF Meta
    <2>6. PICK v \in Versions :
              /\ Describes(Meta, Head(down.todo), v)
              /\ \A k \in DOMAIN down.files : \A o \in down.files[k] :
                     o.part = Meta.chunks[k] /\ o.version = v
      BY <1>1 DEF Inv, Downloading
    <2>7. Describes(Meta, Head(down.todo), v)'
      BY <1>1, <2>3, <2>5, <2>6 DEF Describes, OfVersion
    <2>8. Downloading'
      BY <1>1, <1>3, <2>3, <2>5, <2>6, <2>7 DEF Inv, Downloading
    <2>9. RestoredWhole'
      <3>1. /\ ~restored'[h].complete
            /\ \A s \in ShardIds : s # h => restored'[s] = restored[s]
        BY <2>1, <2>2 DEF Inv, TypeInv
      <3>2. QED
        BY <3>1, RestoredStays DEF Inv
    <2>10. QED
      BY <1>1, <2>4, <2>8, <2>9, BucketUnchanged DEF Inv
  <1>4. QED
    BY <1>2, <1>3

\* The files that were unpacked are those of one version.
LEMMA UnpackedKeeps ==
  ASSUME Inv, Unpacked
  PROVE  Inv'
  <1> DEFINE h == Head(down.todo)
             r == [complete |-> TRUE, parts |-> down.files]
  <1>1. /\ down.phase = "unpack"
        /\ restored' = [restored EXCEPT ![h] = r]
        /\ UNCHANGED <<version, up, clock, objects, latest>>
    BY DEF Unpacked
  <1>2. /\ down.todo # <<>> /\ down.meta \in Seq(MetaData) /\ Len(down.meta) = 1
        /\ Len(down.files) = Len(Meta.chunks)
        /\ \A k \in DOMAIN down.files : down.files[k] # {}
    BY <1>1 DEF Inv, Downloading
  <1>3. PICK v \in Versions :
            /\ Describes(Meta, h, v)
            /\ \A k \in DOMAIN down.files : \A o \in down.files[k] :
                   o.part = Meta.chunks[k] /\ o.version = v
    BY <1>1 DEF Inv, Downloading
  <1>4. /\ h \in ShardIds /\ Tail(down.todo) \in Seq(ShardIds)
        /\ down.files \in Seq(SUBSET Object)
    BY <1>2 DEF Inv, TypeInv
  <1>5. Meta \in MetaData
    BY <1>2 DEF Meta
  <1>6. Whole(down.files)
    <2>1. DOMAIN down.files = DOMAIN Meta.chunks
      BY <1>2, <1>4, <1>5 DEF MetaData
    <2>2. Len(down.files) = Len(ChunksOf(v))
      BY <1>2, <1>3 DEF Describes
    <2>3. ASSUME NEW i \in DOMAIN ChunksOf(v)
          PROVE  \E k \in DOMAIN down.files : \E o \in down.files[k] :
                     o.part = i /\ o.version = v
      <3>1. PICK k \in DOMAIN Meta.chunks : Meta.chunks[k] = i
        BY <1>3 DEF Describes
      <3>2. PICK o \in down.files[k] : TRUE
        BY <1>2, <2>1
      <3>3. QED
        BY <1>3, <2>1, <3>1, <3>2
    <2>4. QED
      BY <2>2, <2>3 DEF Whole
  <1>7. down' = [phase |-> "metadata", todo |-> Tail(down.todo), meta |-> None,
                 files |-> <<>>, tries |-> 0]
    BY DEF Unpacked, NodeOff
  <1>8. r \in [complete : BOOLEAN, parts : Seq(SUBSET Object)] /\ r.parts = down.files
    BY <1>4
  <1> HIDE DEF h, r
  <1>9. TypeInv'
    <2>1. restored' \in [ShardIds -> [complete : BOOLEAN, parts : Seq(SUBSET Object)]
                                         \union {None}]
      BY <1>1, <1>4, <1>8 DEF Inv, TypeInv
    <2>2. down' \in [phase : {"off", "metadata", "chunks", "unpack", "running"},
                     todo : Seq(ShardIds), meta : Seq(MetaData) \union {None},
                     files : Seq(SUBSET Object), tries : Nat]
      BY <1>4, <1>7
    <2>3. QED
      BY <1>1, <2>1, <2>2 DEF Inv, TypeInv
  <1>10. Downloading'
    BY <1>7 DEF Downloading
  <1>11. RestoredWhole'
    <2>1. \A s \in ShardIds : restored'[s] = restored[s] \/ Whole(restored'[s].parts)
      BY <1>1, <1>4, <1>6, <1>8 DEF Inv, TypeInv
    <2>2. QED
      BY <2>1, RestoredStays DEF Inv
  <1>12. QED
    BY <1>1, <1>9, <1>10, <1>11, BucketUnchanged DEF Inv

\* Every step keeps the invariant.
LEMMA InvNext == SnapshotConstants /\ Inv /\ [Next]_vars => Inv'
  <1> SUFFICES ASSUME SnapshotConstants, Inv, [Next]_vars PROVE Inv'
    OBVIOUS
  <1> DEFINE Rest == [phase : {"idle", "backup", "put", "clear"}, todo : Seq(ShardIds),
                      time : Nat, version : Nat, files : SUBSET Nat, names : Seq(Nat)]
  <1>1. ASSUME NEW p \in {"idle", "backup"}, NEW q \in Seq(ShardIds),
               up' = [phase |-> p, todo |-> q, time |-> 0, version |-> 0,
                      files |-> {}, names |-> <<>>],
               UNCHANGED <<version, clock, objects, latest, down, restored>>
        PROVE  Inv'
    <2>1. up' \in Rest /\ up'.phase = p
      BY <1>1
    <2>2. TypeInv'
      BY <1>1, <2>1 DEF Inv, TypeInv
    <2>3. QED
      BY <1>1, <2>1, <2>2, UploadEndKeeps
  <1> HIDE DEF Rest
  <1>2. ASSUME NEW s \in ShardIds, Commit(s) PROVE Inv'
    <2>1. /\ version' = [version EXCEPT ![s] = @ + 1] /\ version[s] + 1 \in Versions
          /\ UNCHANGED <<up, clock, objects, latest, down, restored>>
      BY <1>2 DEF Commit
    <2>2. TypeInv'
      BY <2>1 DEF Inv, TypeInv
    <2>3. Downloading' /\ RestoredWhole'
      BY <2>1, BucketUnchanged, DownloadWaits
    <2>4. QED
      BY <2>1, <2>2, <2>3, BucketUnchanged DEF Inv
  <1>3. ASSUME NEW q \in UploadOrders, StartUpload(q) PROVE Inv'
    <2>1. q \in Seq(ShardIds)
      BY OrdersAreSequences
    <2>2. /\ up' = [phase |-> "backup", todo |-> q, time |-> 0, version |-> 0,
                    files |-> {}, names |-> <<>>]
          /\ UNCHANGED <<version, clock, objects, latest, down, restored>>
      BY <1>3 DEF StartUpload, NoUpload
    <2>3. QED
      BY <1>1, <2>1, <2>2
  <1>4. ASSUME UploadFails PROVE Inv'
    <2>1. Tail(up.todo) \in Seq(ShardIds)
      BY <1>4 DEF UploadFails, Inv, TypeInv
    <2>2. /\ up' = [phase |-> "backup", todo |-> Tail(up.todo), time |-> 0, version |-> 0,
                    files |-> {}, names |-> <<>>]
          /\ UNCHANGED <<version, clock, objects, latest, down, restored>>
      BY <1>4 DEF UploadFails, NextShard, NoUpload
    <2>3. QED
      BY <1>1, <2>1, <2>2
  <1>5. ASSUME EndUpload \/ CrashUpload PROVE Inv'
    <2>1. <<>> \in Seq(ShardIds)
      OBVIOUS
    <2>2. /\ up' = [phase |-> "idle", todo |-> <<>>, time |-> 0, version |-> 0,
                    files |-> {}, names |-> <<>>]
          /\ UNCHANGED <<version, clock, objects, latest, down, restored>>
      BY <1>5 DEF EndUpload, CrashUpload, NoUpload
    <2>3. QED
      BY <1>1, <2>1, <2>2
  <1>6. ASSUME NEW q \in DownloadOrders, StartNode(q) PROVE Inv'
    <2>1. q \in Seq(ShardIds) /\ <<>> \in Seq(ShardIds)
      BY OrdersAreSequences
    <2>2. UNCHANGED <<version, up, clock, objects, latest, restored>>
      BY <1>6 DEF StartNode
    <2>3. \/ down' = [phase |-> "metadata", todo |-> q, meta |-> None, files |-> <<>>, tries |-> 0]
          \/ down' = [phase |-> "running", todo |-> <<>>, meta |-> None, files |-> <<>>, tries |-> 0]
      BY <1>6 DEF StartNode, NodeOff
    <2>4. QED
      BY <2>1, <2>2, <2>3, DownloadEndKeeps
  <1>7. ASSUME NodeStarted \/ CrashDownload PROVE Inv'
    <2>1. <<>> \in Seq(ShardIds)
      OBVIOUS
    <2>2. UNCHANGED <<version, up, clock, objects, latest, restored>>
      BY <1>7 DEF NodeStarted, CrashDownload
    <2>3. \E p \in {"off", "running"} :
              down' = [phase |-> p, todo |-> <<>>, meta |-> None, files |-> <<>>, tries |-> 0]
      BY <1>7 DEF NodeStarted, CrashDownload, NodeOff
    <2>4. QED
      BY <2>1, <2>2, <2>3, DownloadEndKeeps
  <1>8. CASE UNCHANGED vars
    <2>1. UNCHANGED <<version, up, clock, objects, latest, down, restored>>
      BY <1>8 DEF vars
    <2>2. TypeInv'
      BY <2>1 DEF Inv, TypeInv
    <2>3. Downloading' /\ RestoredWhole'
      BY <2>1, BucketUnchanged, DownloadWaits
    <2>4. QED
      BY <2>1, <2>2, <2>3, BucketUnchanged DEF Inv
  <1>9. CASE Next
    BY <1>2, <1>3, <1>4, <1>5, <1>6, <1>7, <1>9, BackupKeeps, PutChunkKeeps, PutMetadataKeeps,
       ClearKeeps, DownloadMetadataKeeps, DownloadFileKeeps, DownloadBreaksKeeps,
       UnzipKeeps, UnpackedKeeps DEF Next, UploadStep, DownloadStep
  <1>10. QED
    BY <1>8, <1>9

-----------------------------------------------------------------------------
\* Whatever puts, deletions, failures and crashes cut uploads short, every
\* chunk that latest.json names is in the bucket: the metadata goes last and
\* clear_old_snapshots spares its directory, as long as no shard's directory
\* is a prefix of another's.
THEOREM LatestAlwaysServable == SnapshotConstants => (Spec => []LatestServable)
  <1> SUFFICES ASSUME SnapshotConstants PROVE Spec => []LatestServable
    OBVIOUS
  <1>1. Init => Inv
    BY InvInit
  <1>2. Inv /\ [Next]_vars => Inv'
    BY InvNext
  <1>3. Inv => LatestServable
    BY DEF Inv
  <1>4. QED
    BY <1>1, <1>2, <1>3, PTL DEF Spec

\* A database that was downloaded to its end is all of one copy, although the
\* uploader replaces and clears what the download reads: a chunk that is gone
\* ends the download, and no upload writes into an earlier one's directory.
THEOREM RestoredAlwaysWhole == SnapshotConstants => (Spec => []RestoredWhole)
  <1> SUFFICES ASSUME SnapshotConstants PROVE Spec => []RestoredWhole
    OBVIOUS
  <1>1. Init => Inv
    BY InvInit
  <1>2. Inv /\ [Next]_vars => Inv'
    BY InvNext
  <1>3. Inv => RestoredWhole
    BY DEF Inv
  <1>4. QED
    BY <1>1, <1>2, <1>3, PTL DEF Spec
=============================================================================
