----------------------------- MODULE CodeIndex -----------------------------
(***************************************************************************)
(* The code index: ingest_repo (data/ingestion.py) with the freshness      *)
(* index that lets it skip unchanged files (data/freshness.py).  Every     *)
(* statement is a transaction of its own; a run may die between any two of *)
(* them, files change meanwhile, and nothing keeps two runs apart.         *)
(***************************************************************************)
EXTENDS Naturals

CONSTANTS Paths,        \* files of the repository
          Position,     \* and the place of each in sorted order
          Versions,     \* contents a file may have
          Size,         \* chunk_file: how many chunks each content has
          Rejected,     \* contents the embedder or the upsert refuses (empty, a NUL)
          Ingestors,    \* processes that run the ingestion, over and over
          None,
          MaxEdits, MaxFaults   \* bounds on edits, and on what goes wrong

ASSUME IndexAssumption ==
    /\ Size \in [Versions -> Nat \ {0}]
    /\ Position \in [Paths -> Nat]
    /\ \A S \in SUBSET Paths : S # {} => \E p \in S : \A q \in S \ {p} : Position[p] < Position[q]
    /\ Versions # {} /\ Rejected \subseteq Versions
    /\ None \notin Versions
    /\ MaxEdits \in Nat /\ MaxFaults \in Nat

VARIABLES disk,         \* the content of each file; None: there is no such file
          chunks,       \* code_chunks: content a chunk of the file is from, by chunk_index
          index,        \* repo_file_index.content_hash
          pc, todo,     \* where a run stands; the files it has before it
          content,      \* the content it read of the first of them
          upserted,     \* how many chunks of it are upserted
          disturbed,    \* files whose chunks an interrupted or overlapping run left behind
          edits, faults

tables == <<chunks, index>>
vars == <<disk, tables, pc, todo, content, upserted, disturbed, edits, faults>>

Contents == Versions \cup {None}
\* Between its DELETE and its last statement a run is rewriting a file.
Window == {"embed", "upsert"}
Locations == {"idle", "read", "check", "delete"} \cup Window
ChunksOf(v) == (1..Size[v]) \X {v}

\* The first of the files the run has before it.
File(i) == CHOOSE p \in todo[i] : \A q \in todo[i] \ {p} : Position[p] < Position[q]
Rewriting(p) == {i \in Ingestors : pc[i] \in Window /\ File(i) = p}

TypeOK ==
    /\ disk \in [Paths -> Contents]
    /\ chunks \in [Paths -> SUBSET (Nat \X Versions)]
    /\ index \in [Paths -> Contents]
    /\ pc \in [Ingestors -> Locations]
    /\ todo \in [Ingestors -> SUBSET Paths]
    /\ content \in [Ingestors -> Contents]
    /\ upserted \in [Ingestors -> Nat]
    /\ disturbed \subseteq Paths
    /\ edits \in 0..MaxEdits /\ faults \in 0..MaxFaults
    /\ \A i \in Ingestors : pc[i] \in {"check", "delete"} \cup Window =>
          todo[i] # {} /\ content[i] \in Versions /\ upserted[i] <= Size[content[i]]

Init ==
    /\ disk \in [Paths -> Contents]
    /\ chunks = [p \in Paths |-> {}]
    /\ index = [p \in Paths |-> None]
    /\ pc = [i \in Ingestors |-> "idle"]
    /\ todo = [i \in Ingestors |-> {}]
    /\ content = [i \in Ingestors |-> None]
    /\ upserted = [i \in Ingestors |-> 0]
    /\ disturbed = {}
    /\ edits = 0 /\ faults = 0
-----------------------------------------------------------------------------
Goto(i, location) == pc' = [pc EXCEPT ![i] = location]
NextFile(i) == Goto(i, "read") /\ todo' = [todo EXCEPT ![i] = @ \ {File(i)}]

\* A file is created, changed, changed back or removed.
Edit(p, v) ==
    /\ edits < MaxEdits
    /\ edits' = edits + 1
    /\ disk' = [disk EXCEPT ![p] = v]
    /\ UNCHANGED <<tables, pc, todo, content, upserted, disturbed, faults>>

\* collect_files
Start(i) ==
    /\ pc[i] = "idle"
    /\ todo' = [todo EXCEPT ![i] = {p \in Paths : disk[p] # None}]
    /\ Goto(i, "read")
    /\ UNCHANGED <<disk, tables, content, upserted, disturbed, edits, faults>>

Finish(i) ==
    /\ pc[i] = "read" /\ todo[i] = {}
    /\ Goto(i, "idle")
    /\ UNCHANGED <<disk, tables, todo, content, upserted, disturbed, edits, faults>>

ReadFile(i) ==
    /\ pc[i] = "read" /\ todo[i] # {} /\ disk[File(i)] # None
    /\ content' = [content EXCEPT ![i] = disk[File(i)]]
    /\ upserted' = [upserted EXCEPT ![i] = 0]
    /\ Goto(i, "check")
    /\ UNCHANGED <<disk, tables, todo, disturbed, edits, faults>>

\* A fault to compare Check with: any indexed file counts as unchanged.
SkipIndexed(i) ==
    /\ pc[i] = "check"
    /\ IF index[File(i)] # None THEN NextFile(i)
                                ELSE Goto(i, "delete") /\ UNCHANGED todo
    /\ UNCHANGED <<disk, tables, content, upserted, disturbed, edits, faults>>

\* is_file_changed
Check(i) ==
    /\ pc[i] = "check"
    /\ IF index[File(i)] = content[i] THEN NextFile(i)
                                      ELSE Goto(i, "delete") /\ UNCHANGED todo
    /\ UNCHANGED <<disk, tables, content, upserted, disturbed, edits, faults>>

\* What a DELETE does to the history: alone it gives the file a fresh start; during a
\* rewriting with another content the two runs mix their chunks.
Disturbed(i) ==
    LET p == File(i)
    IN  IF Rewriting(p) = {} THEN disturbed \ {p}
        ELSE IF \E j \in Rewriting(p) : content[j] # content[i] THEN disturbed \cup {p}
        ELSE disturbed

\* delete_stale_chunks
Delete(i) ==
    /\ pc[i] = "delete"
    /\ chunks' = [chunks EXCEPT ![File(i)] = {}]
    /\ disturbed' = Disturbed(i)
    /\ Goto(i, "embed")
    /\ UNCHANGED <<disk, index, todo, content, upserted, edits, faults>>

\* embed_batch. (What the upsert will refuse gets past it.)
Embed(i) ==
    /\ pc[i] = "embed"
    /\ Goto(i, "upsert")
    /\ UNCHANGED <<disk, tables, todo, content, upserted, disturbed, edits, faults>>

Upserted(i, n) == {c \in chunks[File(i)] : c[1] # n} \cup {<<n, content[i]>>}

Upsert(i) ==
    /\ pc[i] = "upsert" /\ upserted[i] < Size[content[i]]
    /\ content[i] \in Rejected => upserted[i] + 1 < Size[content[i]]
    /\ upserted' = [upserted EXCEPT ![i] = @ + 1]
    /\ chunks' = [chunks EXCEPT ![File(i)] = Upserted(i, upserted[i] + 1)]
    /\ UNCHANGED <<disk, index, pc, todo, content, disturbed, edits, faults>>

\* A fault to compare UpdateIndex with: the hash is stored before the last chunk.
IndexEarly(i) ==
    /\ pc[i] = "upsert"
    /\ index' = [index EXCEPT ![File(i)] = content[i]]
    /\ NextFile(i)
    /\ UNCHANGED <<disk, chunks, content, upserted, disturbed, edits, faults>>

UpdateIndex(i) ==
    /\ pc[i] = "upsert" /\ upserted[i] = Size[content[i]]
    /\ index' = [index EXCEPT ![File(i)] = content[i]]
    /\ NextFile(i)
    /\ UNCHANGED <<disk, chunks, content, upserted, disturbed, edits, faults>>

\* The run ends where it stands, and with it the files it had still before it.
Abandon(i) ==
    /\ Goto(i, "idle")
    /\ disturbed' = IF pc[i] \in Window THEN disturbed \cup {File(i)} ELSE disturbed
    /\ UNCHANGED <<disk, tables, todo, content, upserted, edits>>

\* The file is gone since collect_files.
FileIsGone(i) ==
    /\ pc[i] = "read" /\ todo[i] # {} /\ disk[File(i)] = None
    /\ Abandon(i) /\ UNCHANGED faults

\* embed_batch refuses the texts of the file, or the database one of its chunks.
ContentRejected(i) ==
    /\ pc[i] \in Window /\ content[i] \in Rejected
    /\ Abandon(i) /\ UNCHANGED faults

\* A statement or the embedder raises, or the process dies.
Fails(i) ==
    /\ pc[i] # "idle"
    /\ faults < MaxFaults
    /\ faults' = faults + 1
    /\ Abandon(i)
-----------------------------------------------------------------------------
IngestStep(i) ==
    \/ Start(i) \/ Finish(i) \/ ReadFile(i) \/ Check(i) \/ Delete(i) \/ Embed(i)
    \/ Upsert(i) \/ UpdateIndex(i) \/ FileIsGone(i) \/ ContentRejected(i)

Next ==
    \/ \E p \in Paths, v \in Contents : Edit(p, v)
    \/ \E i \in Ingestors : IngestStep(i) \/ Fails(i)

Spec == Init /\ [][Next]_vars

\* The ingestion is run again and again, and each run goes on.
FairSpec == Spec /\ \A i \in Ingestors : WF_vars(IngestStep(i))
-----------------------------------------------------------------------------
\* What the index says of a file is what retrieval finds: the chunks of exactly that
\* content.  It can be wrong only while a run rewrites the file, and after a rewriting that
\* was interrupted, or that overlapped with one of another content, until the file is
\* next rewritten by a run alone.
IndexIsTrue ==
    \A p \in Paths \ disturbed :
        index[p] # None /\ Rewriting(p) = {} => chunks[p] = ChunksOf(index[p])

\* Chunks of different contents of one file are found together only after a rewriting was
\* interrupted or overlapped; in particular never while a single run is at work.
NoMixedChunks ==
    \A p \in Paths \ disturbed : \E v \in Versions : chunks[p] \subseteq ChunksOf(v)

\* What retrieval can rely on.
IndexIsSound == TypeOK /\ IndexIsTrue /\ NoMixedChunks

\* When the files no longer change, the index catches up with every file whose turn comes,
\* whatever failed before: the turn of a file comes unless a file that sorts
\* before it is refused.
CatchesUp ==
    \A p \in Paths :
        LET upTo == {q \in Paths : Position[q] <= Position[p]} IN
        (\A q \in upTo : disk[q] \notin Rejected)
            ~> \/ index[p] = disk[p]
               \/ disk[p] = None
               \/ \E q \in upTo : disk[q] \in Rejected
=============================================================================
