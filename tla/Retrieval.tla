------------------------------ MODULE Retrieval ------------------------------
(* Hybrid retrieval (backend/memory/context_retriever.py): the vector lane and *)
(* the full-text lane are two statements of one connection, each with its own  *)
(* snapshot, so that a re-ingestion may commit between them; their results are *)
(* merged by reciprocal rank fusion.                                           *)
EXTENDS Integers, Sequences, SequencesExt, FiniteSets, FiniteSetsExt

CONSTANTS
  Spots,     \* (path, chunk_index) pairs of one repository
  TopK,       \* how many results are asked for
  RrfK,       \* the constant k of the fusion (60 in the code)
  MaxId       \* bound: highest row id ever allocated

ASSUME RetrievalAssumption ==
  /\ TopK \in Nat \ {0} /\ RrfK \in Nat /\ TopK <= RrfK
  /\ IsFiniteSet(Spots)
  /\ MaxId \in Nat /\ Cardinality(Spots) <= MaxId

VARIABLES
  rows,       \* code_chunks: a set of [id, place]
  nextId,     \* the sequence behind the id column
  phase,      \* "idle", "vector", "fts", "fuse" or "done"
  vec,        \* ids the vector lane returned, best first
  fts,        \* ids the full-text lane returned, best first
  placeOf,    \* id -> place, as the lanes read it
  hits,     \* the ids retrieve_hybrid returns
  rewritten   \* places re-ingested while the query ran

searchVars == <<rows, nextId, phase, vec, fts, placeOf, hits, rewritten>>

-------------------------------------------------------------------------------
(* Fractions: <<numerator, denominator>> with a positive denominator. *)
Exceeds(x, y) == x[1] * y[2] > y[1] * x[2]
Plus(x, y) == <<x[1] * y[2] + y[1] * x[2], x[2] * y[2]>>

Lane(rank) == <<1, RrfK + rank>>

(* Ranks are 0-based: enumerate(cur.fetchall()). *)
Rank(lane, id) == (CHOOSE i \in DOMAIN lane : lane[i] = id) - 1

\* A fault to compare Fused with: the second lane replaces the score of the first.
FusedLastLane(id, v, f) ==
  IF id \in ToSet(f) THEN Lane(Rank(f, id)) ELSE Lane(Rank(v, id))

Fused(id, v, f) ==
  IF id \in ToSet(v) /\ id \in ToSet(f)
    THEN Plus(Lane(Rank(v, id)), Lane(Rank(f, id)))
  ELSE IF id \in ToSet(v) THEN Lane(Rank(v, id))
  ELSE Lane(Rank(f, id))

Found(v, f) == ToSet(v) \cup ToSet(f)

(* The insertion order of the dict by_id: the vector lane, then what only the  *)
(* other lane found.                                                           *)
Inserted(x, y, v, f) ==
  \/ x \in ToSet(v) /\ y \notin ToSet(v)
  \/ x \in ToSet(v) /\ y \in ToSet(v) /\ Rank(v, x) < Rank(v, y)
  \/ x \notin ToSet(v) /\ y \notin ToSet(v) /\ Rank(f, x) < Rank(f, y)

(* sorted(..., reverse=True) is stable: equal scores keep the insertion order. *)
Sorted(x, y, v, f) ==
  \/ Exceeds(Fused(x, v, f), Fused(y, v, f))
  \/ ~Exceeds(Fused(y, v, f), Fused(x, v, f)) /\ Inserted(x, y, v, f)

Ahead(x, v, f) == {y \in Found(v, f) : Sorted(y, x, v, f)}

(* What has n - 1 results ahead of it is the n-th, up to top_k.                *)
FuseLanes(v, f) ==
  [n \in 1 .. Min({TopK, Cardinality(Found(v, f))}) |->
     CHOOSE x \in Found(v, f) : Cardinality(Ahead(x, v, f)) = n - 1]

-------------------------------------------------------------------------------
SearchInit ==
  /\ rows = {} /\ nextId = 1 /\ phase = "idle"
  /\ vec = <<>> /\ fts = <<>> /\ placeOf = <<>> /\ hits = <<>>
  /\ rewritten = {}

SearchIdle == phase = "idle"

(* A query on a repository of which some places are ingested. *)
Ask(indexed) ==
  /\ phase = "idle"
  /\ LET order == SetToSeq(indexed)
     IN rows' = {[id |-> i, place |-> order[i]] : i \in DOMAIN order}
  /\ nextId' = Cardinality(indexed) + 1
  /\ phase' = "vector"
  /\ UNCHANGED <<vec, fts, placeOf, hits, rewritten>>

Ids == {r.id : r \in rows}
PlaceOf(id) == (CHOOSE r \in rows : r.id = id).place
Read == [id \in DOMAIN placeOf \cup Ids |->
           IF id \in Ids THEN PlaceOf(id) ELSE placeOf[id]]

Orders(S, n) == UNION {{s \in [1 .. m -> S] : IsInjective(s)} :
                         m \in 0 .. Min({n, Cardinality(S)})}

(* ORDER BY distance LIMIT top_k: any order, every row if they are few. *)
VectorLane(order) ==
  /\ phase = "vector"
  /\ Len(order) = Min({TopK, Cardinality(rows)})
  /\ vec' = order
  /\ placeOf' = Read
  /\ phase' = "fts"
  /\ UNCHANGED <<rows, nextId, fts, hits, rewritten>>

(* The WHERE clause keeps the rows whose text matches, possibly none. *)
FtsLane(order) ==
  /\ phase = "fts"
  /\ fts' = order
  /\ placeOf' = Read
  /\ phase' = "fuse"
  /\ UNCHANGED <<rows, nextId, vec, hits, rewritten>>

Fuse ==
  /\ phase = "fuse"
  /\ hits' = FuseLanes(vec, fts)
  /\ phase' = "done"
  /\ UNCHANGED <<rows, nextId, vec, fts, placeOf, rewritten>>

(* Ingestion deletes the rows of a changed file and commits; the new rows      *)
(* follow in another transaction. Only what happens between the two lanes      *)
(* matters: before and after them it is another query, or none.                *)
DeleteRows(p) ==
  /\ phase = "fts"
  /\ \E r \in rows : r.place = p
  /\ rows' = {r \in rows : r.place # p}
  /\ rewritten' = rewritten \cup {p}
  /\ UNCHANGED <<nextId, phase, vec, fts, placeOf, hits>>

InsertRow(p) ==
  /\ phase = "fts"
  /\ nextId <= MaxId
  /\ p \in rewritten /\ \A r \in rows : r.place # p
  /\ rows' = rows \cup {[id |-> nextId, place |-> p]}
  /\ nextId' = nextId + 1
  /\ UNCHANGED <<phase, vec, fts, placeOf, hits, rewritten>>

SearchNext ==
  \/ \E indexed \in SUBSET Spots : Ask(indexed)
  \/ \E order \in Orders(Ids, TopK) : VectorLane(order)
  \/ \E order \in Orders(Ids, TopK) : FtsLane(order)
  \/ Fuse
  \/ \E p \in Spots : DeleteRows(p) \/ InsertRow(p)

SearchSpec == SearchInit /\ [][SearchNext]_searchVars

-------------------------------------------------------------------------------
SearchTypeOK ==
  /\ phase \in {"idle", "vector", "fts", "fuse", "done"}
  /\ Len(hits) <= TopK
  /\ ToSet(vec) \cup ToSet(fts) \subseteq DOMAIN placeOf
  /\ nextId \in 1 .. MaxId + 1

(* Two results for one place, an old text and its replacement, appear only     *)
(* when the place was re-ingested while the query ran; and no row is returned  *)
(* twice at all.                                                               *)
TwinsMeanReingestion ==
  \A i, j \in DOMAIN hits :
    i # j => /\ hits[i] # hits[j]
             /\ placeOf[hits[i]] = placeOf[hits[j]]
                  => placeOf[hits[i]] \in rewritten

(* A chunk both lanes found comes before every chunk only one of them found,   *)
(* and is returned whenever any such chunk is.                                 *)
BothLanesComeFirst ==
  phase = "done" =>
    \A x \in ToSet(vec) \cap ToSet(fts) :
      \A n \in DOMAIN hits :
        hits[n] \notin ToSet(vec) \cap ToSet(fts) =>
          \E m \in 1 .. n - 1 : hits[m] = x

(* The best vector match is always returned. The best full-text match is left  *)
(* out only when the vector lane's best took the last place at the same score. *)
BestMatchIsKept ==
  phase = "done" =>
    /\ vec # <<>> => vec[1] \in ToSet(hits)
    /\ (fts # <<>> /\ fts[1] \notin ToSet(hits)) =>
         /\ fts[1] \notin ToSet(vec)
         /\ Last(hits) = vec[1] /\ vec[1] \notin ToSet(fts)

\* What the fusion promises of its two lanes.
RetrievalIsSound == SearchTypeOK /\ TwinsMeanReingestion /\ BothLanesComeFirst /\ BestMatchIsKept
==============================================================================
