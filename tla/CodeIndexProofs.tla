--------------------------- MODULE CodeIndexProofs ---------------------------
(***************************************************************************)
(* Proofs about CodeIndex, for any files, contents and number of           *)
(* overlapping ingestions: what the chunks and the index of a file are     *)
(* follows from the runs that are rewriting it.                            *)
(***************************************************************************)
EXTENDS CodeIndex, TLAPS

\* Where a run stands in a file, it has upserted so much of it.
Standing(i) == pc[i] \in {"check", "delete", "embed"} => upserted[i] = 0

\* Nobody is rewriting the file: nothing of it, or all that the index says.
AtRest(p) ==
    \/ index[p] = None /\ chunks[p] = {}
    \/ index[p] \in Versions /\ chunks[p] = ChunksOf(index[p])

\* Runs are rewriting it with one content v: its chunks are of v, and they are all there,
\* or what one of these runs has upserted is.
InWork(p, v) ==
    /\ \A i \in Rewriting(p) : content[i] = v
    /\ chunks[p] \subseteq ChunksOf(v)
    /\ \/ chunks[p] = ChunksOf(v)
       \/ \E i \in Rewriting(p) : (1..upserted[i]) \X {v} \subseteq chunks[p]

Sound(p) ==
    p \notin disturbed =>
        \/ Rewriting(p) = {} /\ AtRest(p)
        \/ Rewriting(p) # {} /\ \E v \in Versions : InWork(p, v)

IInv ==
    /\ TypeOK
    /\ \A i \in Ingestors : Standing(i)
    /\ \A p \in Paths : Sound(p)

USE IndexAssumption DEF Contents, Window, Locations

\* Nothing is indexed at first.
LEMMA InitInv == Init => IInv
BY DEF Init, IInv, TypeOK, Standing, Sound, AtRest, Rewriting

\* The file a run is at is one of those it has before it.
LEMMA FileIsAPath == ASSUME IInv, NEW i \in Ingestors, todo[i] # {} PROVE File(i) \in Paths
<1>1. todo[i] \in SUBSET Paths
    BY DEF IInv, TypeOK
<1>2. \E p \in todo[i] : \A q \in todo[i] \ {p} : Position[p] < Position[q]
    BY <1>1
<1> QED BY <1>1, <1>2 DEF File

\* What a step leaves alone keeps its soundness.
LEMMA SoundStays ==
    ASSUME NEW p, Sound(p), p \notin disturbed' => p \notin disturbed,
           chunks'[p] = chunks[p], index'[p] = index[p], Rewriting(p)' = Rewriting(p),
           \A i \in Rewriting(p) : content'[i] = content[i] /\ upserted'[i] = upserted[i]
    PROVE  Sound(p)'
BY DEF Sound, AtRest, InWork, ChunksOf

\* A run that is not in the window, neither before nor after, rewrites nothing.
LEMMA OutsideWindow ==
    ASSUME IInv, NEW i \in Ingestors, pc[i] \notin Window,
           NEW location \in Locations \ Window, pc' = [pc EXCEPT ![i] = location],
           \A j \in Ingestors \ {i} : todo'[j] = todo[j] /\ content'[j] = content[j]
                                      /\ upserted'[j] = upserted[j],
           UNCHANGED <<tables, disturbed>>
    PROVE  (\A p \in Paths : Sound(p))'
<1>1. \A p : Rewriting(p)' = Rewriting(p) /\ i \notin Rewriting(p)
    BY DEF Rewriting, File, IInv, TypeOK
<1> QED BY <1>1, SoundStays DEF IInv, tables, Rewriting

\* A run ends where it stands; the file it was rewriting is disturbed.
LEMMA AbandonInv ==
    ASSUME IInv, NEW i \in Ingestors, Abandon(i), faults' \in 0..MaxFaults,
           pc[i] \in Window => todo[i] # {}
    PROVE  IInv'
<1> USE DEF Abandon, Goto
<1>1. disturbed' \subseteq Paths
    BY FileIsAPath DEF IInv, TypeOK
<1>2. TypeOK'
    BY <1>1 DEF IInv, TypeOK, tables
<1>3. \A p \in Paths : p \notin disturbed' => p \notin disturbed /\ Rewriting(p)' = Rewriting(p)
    BY DEF Rewriting, File, IInv, TypeOK
<1>4. (\A p \in Paths : Sound(p))'
  <2> SUFFICES ASSUME NEW p \in Paths, p \notin disturbed' PROVE Sound(p)'
      BY DEF Sound
  <2> QED BY <1>3, SoundStays DEF IInv, tables
<1>5. (\A j \in Ingestors : Standing(j))'
    BY DEF IInv, TypeOK, Standing
<1> QED BY <1>2, <1>4, <1>5 DEF IInv

\* DELETE: alone it gives the file a fresh start, beside a rewriting with the same
\* content it makes it start again, with another one it disturbs the file.
LEMMA DeleteInv ==
    ASSUME IInv, NEW i \in Ingestors, Delete(i)
    PROVE  IInv'
<1>0. PICK f \in Paths, w \in Versions : f = File(i) /\ w = content[i]
    BY FileIsAPath DEF Delete, IInv, TypeOK
<1>1. /\ pc[i] = "delete" /\ pc' = [pc EXCEPT ![i] = "embed"] /\ chunks' = [chunks EXCEPT ![f] = {}]
      /\ UNCHANGED <<disk, index, todo, content, upserted, edits, faults>>
      /\ disturbed' = Disturbed(i)
    BY <1>0 DEF Delete, Goto
<1>2. f \in Paths /\ w \in Versions /\ upserted[i] = 0 /\ todo[i] # {}
    BY <1>0, <1>1, FileIsAPath DEF IInv, TypeOK, Standing
<1>3. /\ TypeOK'
      /\ (\A j \in Ingestors : Standing(j))'
    BY <1>0, <1>1, <1>2 DEF IInv, TypeOK, Standing, Disturbed
<1>4. \A j \in Ingestors : File(j)' = File(j)
    BY <1>1 DEF File
<1>5. Rewriting(f)' = Rewriting(f) \cup {i} /\ \A p : p # f => Rewriting(p)' = Rewriting(p)
    BY <1>0, <1>1, <1>4 DEF Rewriting, IInv, TypeOK
<1>6. \A p \in Paths \ {f} : Sound(p)'
  <2> SUFFICES ASSUME NEW p \in Paths \ {f} PROVE Sound(p)'
      OBVIOUS
  <2>1. p \notin disturbed' => p \notin disturbed
      BY <1>0, <1>1 DEF Disturbed
  <2> QED BY <1>1, <1>5, <2>1, SoundStays DEF IInv, TypeOK
<1>7. Sound(f)'
  <2> SUFFICES ASSUME f \notin disturbed' PROVE InWork(f, w)'
      BY <1>2, <1>5 DEF Sound
  <2>1. \A j \in Rewriting(f) : content[j] = w
      BY <1>0, <1>1 DEF Disturbed
  <2>2. chunks'[f] = {} /\ (1..upserted'[i]) = {}
      BY <1>1, <1>2 DEF IInv, TypeOK
  <2>3. (1..upserted'[i]) \X {w} \subseteq chunks'[f]
      BY <2>2
  <2>4. \A j \in Rewriting(f)' : content'[j] = w
      BY <1>0, <1>1, <1>5, <2>1
  <2>5. chunks'[f] \subseteq ChunksOf(w) /\ i \in Rewriting(f)'
      BY <1>5, <2>2
  <2> QED BY <2>3, <2>4, <2>5 DEF InWork, ChunksOf
<1> QED BY <1>3, <1>6, <1>7 DEF IInv

\* INSERT ... ON CONFLICT DO UPDATE of the next chunk.
LEMMA UpsertInv ==
    ASSUME IInv, NEW i \in Ingestors, Upsert(i)
    PROVE  IInv'
<1>0. PICK f \in Paths, w \in Versions : f = File(i) /\ w = content[i]
    BY FileIsAPath DEF Upsert, IInv, TypeOK
<1> DEFINE n == upserted[i] + 1
<1>1. /\ pc[i] = "upsert" /\ upserted[i] < Size[w]
      /\ upserted' = [upserted EXCEPT ![i] = n]
      /\ chunks' = [chunks EXCEPT ![f] = Upserted(i, n)]
      /\ UNCHANGED <<disk, index, pc, todo, content, disturbed, edits, faults>>
    BY <1>0 DEF Upsert
<1>2. f \in Paths /\ w \in Versions /\ todo[i] # {} /\ upserted[i] \in Nat /\ Size[w] \in Nat
    BY <1>0, <1>1, FileIsAPath DEF IInv, TypeOK
<1>3. n \in 1..Size[w]
    BY <1>1, <1>2
<1>4. Upserted(i, n) \in SUBSET (Nat \X Versions)
    BY <1>0, <1>2, <1>3 DEF Upserted, IInv, TypeOK
<1>5. /\ TypeOK'
      /\ (\A j \in Ingestors : Standing(j))'
    BY <1>0, <1>1, <1>2, <1>3, <1>4 DEF IInv, TypeOK, Standing
<1>6. \A p : Rewriting(p)' = Rewriting(p)
    BY <1>1 DEF Rewriting, File
<1>7. i \in Rewriting(f) /\ \A p : p # f => i \notin Rewriting(p)
    BY <1>0, <1>1 DEF Rewriting
<1>8. \A p \in Paths \ {f} : Sound(p)'
    BY <1>1, <1>6, <1>7, SoundStays DEF IInv, TypeOK, Rewriting
<1>9. Sound(f)'
  <2> SUFFICES ASSUME f \notin disturbed PROVE InWork(f, w)'
      BY <1>1, <1>2, <1>6, <1>7 DEF Sound
  <2>1. InWork(f, w)
      BY <1>0, <1>2, <1>7 DEF IInv, Sound, InWork
  <2>2. chunks'[f] = chunks[f] \cup {<<n, w>>}
    <3>1. \A c \in chunks[f] : c[1] = n => c = <<n, w>>
        BY <2>1 DEF InWork, ChunksOf
    <3> QED BY <1>0, <1>1, <1>2, <3>1 DEF Upserted, IInv, TypeOK
  <2>3. <<n, w>> \in ChunksOf(w)
      BY <1>3 DEF ChunksOf
  <2>4. CASE chunks[f] = ChunksOf(w)
      BY <1>1, <1>6, <2>1, <2>2, <2>3, <2>4 DEF InWork, ChunksOf
  <2>5. ASSUME NEW j \in Rewriting(f), (1..upserted[j]) \X {w} \subseteq chunks[f]
        PROVE  (1..upserted'[j]) \X {w} \subseteq chunks'[f]
    <3>1. CASE j # i
        BY <1>1, <2>2, <2>5, <3>1 DEF IInv, TypeOK, Rewriting
    <3>2. CASE j = i
      <4>1. upserted'[i] = n /\ 1..n = (1..upserted[i]) \cup {n}
        <5>1. \A k \in Nat : 1..(k + 1) = (1..k) \cup {k + 1} OBVIOUS
        <5> QED BY <1>1, <1>2, <5>1 DEF IInv, TypeOK
      <4> QED BY <2>2, <2>5, <3>2, <4>1
    <3> QED BY <3>1, <3>2
  <2> QED BY <1>1, <1>6, <2>1, <2>2, <2>3, <2>4, <2>5 DEF InWork, ChunksOf
<1> QED BY <1>5, <1>8, <1>9 DEF IInv

\* update_file_index: the run leaves its file, which is complete or in the work of others.
LEMMA UpdateIndexInv ==
    ASSUME IInv, NEW i \in Ingestors, UpdateIndex(i)
    PROVE  IInv'
<1>0. PICK f \in Paths, w \in Versions : f = File(i) /\ w = content[i]
    BY FileIsAPath DEF UpdateIndex, IInv, TypeOK
<1>1. /\ pc[i] = "upsert" /\ upserted[i] = Size[w]
      /\ index' = [index EXCEPT ![f] = w]
      /\ pc' = [pc EXCEPT ![i] = "read"] /\ todo' = [todo EXCEPT ![i] = todo[i] \ {f}]
      /\ UNCHANGED <<disk, chunks, content, upserted, disturbed, edits, faults>>
    BY <1>0 DEF UpdateIndex, NextFile, Goto
<1>2. f \in Paths /\ w \in Versions /\ todo[i] # {}
    BY <1>0, <1>1, FileIsAPath DEF IInv, TypeOK
<1>3. /\ TypeOK'
      /\ (\A j \in Ingestors : Standing(j))'
    BY <1>0, <1>1, <1>2 DEF IInv, TypeOK, Standing
<1>4. \A j \in Ingestors \ {i} : File(j)' = File(j)
    BY <1>1 DEF File, IInv, TypeOK
<1>5. /\ i \in Rewriting(f) /\ Rewriting(f)' = Rewriting(f) \ {i}
      /\ \A p : p # f => Rewriting(p)' = Rewriting(p)
    BY <1>0, <1>1, <1>4 DEF Rewriting, IInv, TypeOK
<1>6. \A p \in Paths \ {f} : Sound(p)'
    BY <1>1, <1>5, SoundStays DEF IInv, TypeOK
<1>7. Sound(f)'
  <2> SUFFICES ASSUME f \notin disturbed PROVE Sound(f)'
      BY <1>1 DEF Sound
  <2>1. InWork(f, w)
      BY <1>0, <1>2, <1>5 DEF IInv, Sound, InWork
  <2>2. CASE chunks[f] = ChunksOf(w)
    <3>1. CASE Rewriting(f)' = {}
        BY <1>1, <1>2, <2>2, <3>1 DEF Sound, AtRest, ChunksOf, IInv, TypeOK
    <3>2. CASE Rewriting(f)' # {}
      <4>1. InWork(f, w)'
          BY <1>1, <1>5, <2>1, <2>2 DEF InWork, ChunksOf
      <4> QED BY <1>2, <3>2, <4>1 DEF Sound
    <3> QED BY <3>1, <3>2
  <2>3. CASE chunks[f] # ChunksOf(w)
    <3>1. PICK j \in Rewriting(f) : (1..upserted[j]) \X {w} \subseteq chunks[f]
        BY <2>1, <2>3 DEF InWork
    <3>2. j # i
        BY <1>1, <2>1, <2>3, <3>1 DEF InWork, ChunksOf
    <3>3. InWork(f, w)' /\ Rewriting(f)' # {}
        BY <1>1, <1>5, <2>1, <3>1, <3>2 DEF InWork, ChunksOf
    <3> QED BY <1>2, <3>3 DEF Sound
  <2> QED BY <2>2, <2>3
<1> QED BY <1>3, <1>6, <1>7 DEF IInv

\* The steps of a run outside its window, and the embedding, touch no table.
LEMMA QuietInv ==
    ASSUME IInv, NEW i \in Ingestors,
           Start(i) \/ Finish(i) \/ ReadFile(i) \/ Check(i) \/ Embed(i)
    PROVE  IInv'
<1> USE DEF Goto, NextFile
<1>1. TypeOK'
    BY FileIsAPath DEF Start, Finish, ReadFile, Check, Embed, IInv, TypeOK, tables
<1>2. (\A j \in Ingestors : Standing(j))'
    BY DEF Start, Finish, ReadFile, Check, Embed, IInv, TypeOK, Standing
<1>3. CASE Embed(i)
  <2>1. \A p : Rewriting(p)' = Rewriting(p)
      BY <1>3 DEF Embed, Rewriting, File, IInv, TypeOK
  <2> QED BY <1>1, <1>2, <1>3, <2>1, SoundStays DEF Embed, IInv, tables
<1>4. CASE Start(i) \/ Finish(i) \/ ReadFile(i) \/ Check(i)
  <2>1. pc[i] \notin Window /\ UNCHANGED <<tables, disturbed>>
      BY <1>4 DEF Start, Finish, ReadFile, Check
  <2>2. \E location \in Locations \ Window : pc' = [pc EXCEPT ![i] = location]
      BY <1>4 DEF Start, Finish, ReadFile, Check
  <2>3. \A j \in Ingestors \ {i} : todo'[j] = todo[j] /\ content'[j] = content[j]
                                   /\ upserted'[j] = upserted[j]
      BY <1>4 DEF Start, Finish, ReadFile, Check, IInv, TypeOK
  <2> QED BY <1>1, <1>2, <2>1, <2>2, <2>3, OutsideWindow DEF IInv
<1> QED BY <1>3, <1>4

\* Every step keeps the invariant.
LEMMA StepInv == IInv /\ [Next]_vars => IInv'
<1> SUFFICES ASSUME IInv, [Next]_vars PROVE IInv'
    OBVIOUS
<1>1. ASSUME UNCHANGED <<tables, pc, todo, content, upserted, disturbed>>,
             disk' \in [Paths -> Contents], edits' \in 0..MaxEdits, faults' \in 0..MaxFaults
      PROVE  IInv'
  <2>1. \A p : Rewriting(p)' = Rewriting(p)
      BY <1>1 DEF Rewriting, File
  <2> QED BY <1>1, <2>1, SoundStays DEF IInv, TypeOK, Standing, tables
<1>2. ASSUME NEW p \in Paths, NEW v \in Contents, Edit(p, v) PROVE IInv'
    BY <1>1, <1>2 DEF Edit, IInv, TypeOK
<1>3. CASE UNCHANGED vars
    BY <1>1, <1>3 DEF vars, IInv, TypeOK
<1>4. ASSUME NEW i \in Ingestors, FileIsGone(i) \/ ContentRejected(i) \/ Fails(i) PROVE IInv'
  <2>1. pc[i] \in Window => todo[i] # {}
      BY DEF IInv, TypeOK
  <2>2. Abandon(i) /\ faults' \in 0..MaxFaults
      BY <1>4 DEF FileIsGone, ContentRejected, Fails, IInv, TypeOK
  <2> QED BY <2>1, <2>2, AbandonInv
<1> QED BY <1>2, <1>3, <1>4, DeleteInv, UpsertInv, UpdateIndexInv, QuietInv DEF Next, IngestStep

\* The strengthened invariant, from which the promise follows.
THEOREM InvariantHolds == Spec => []IInv
BY InitInv, StepInv, PTL DEF Spec

\* What repo_file_index says of a file, retrieval finds in code_chunks, and never chunks of
\* two contents, unless an ingestion of the file was cut off or overlapped with one of
\* another content and the file was not rewritten since.
THEOREM IndexTrue == Spec => []IndexIsSound
<1> SUFFICES ASSUME IInv PROVE IndexIsSound
    BY InvariantHolds, PTL
<1>1. IndexIsTrue
    BY DEF IInv, Sound, AtRest, IndexIsTrue
<1>2. NoMixedChunks
  <2> SUFFICES ASSUME NEW p \in Paths, p \notin disturbed
               PROVE  \E v \in Versions : chunks[p] \subseteq ChunksOf(v)
      BY DEF NoMixedChunks
  <2>1. CASE Rewriting(p) = {} /\ AtRest(p)
      BY <2>1 DEF AtRest
  <2>2. CASE \E v \in Versions : InWork(p, v)
      BY <2>2 DEF InWork
  <2> QED BY <2>1, <2>2 DEF IInv, Sound
<1> QED BY <1>1, <1>2 DEF IInv, IndexIsSound
==============================================================================
