--------------------------- MODULE IndexingProofs ---------------------------
(***************************************************************************)
(* What becomes of the chunks of data sources, for any jobs on the         *)
(* collection, any files and batches of any size: each chunk is under the  *)
(* vector of its own text and its owner's name, they come with one upsert  *)
(* and go with one deletion, and searches are given those of their user.   *)
(*                                                                         *)
(* The argument is about positions: texts and vectors are paired by place, *)
(* and a batch that is refused fills its places with empty vectors.        *)
(***************************************************************************)
EXTENDS Indexing, SheetReading, SequenceTheorems, FiniteSetTheorems,
        WellFoundedInduction, TLAPS

\* What a job is, and which operation takes which steps.
Shape(l) ==
    DOMAIN l = {"pc", "op", "user", "source", "anySource", "texts", "vectors", "sent",
                "refused", "result", "count", "lost"}
Takes(l) ==
    /\ l.pc \in {"list", "create"} => l.op \in {"start", "index"}
    /\ l.pc \in {"embed", "upsert"} => l.op = "index"
    /\ l.pc \in {"count", "remove"} => l.op = "delete"
    /\ l.op # "search" => ~l.anySource
    /\ l.lost = "upsert" => l.op = "index"
    /\ l.lost = "remove" => l.op = "delete"
    /\ l.lost # "nothing" => l.pc = "failed"

\* The embeddings that came are those of the texts that were sent, or empty.
Entries(l) == {l.texts[i] : i \in DOMAIN l.texts} \cup {Empty}
Aligned(l) ==
    /\ l.pc \in {"embed", "upsert"} \/ l.lost = "upsert" =>
          /\ l.texts \in Seq(Entries(l)) /\ l.vectors \in Seq(Entries(l))
          /\ Len(l.vectors) = l.sent /\ l.sent <= Len(l.texts)
          /\ \A i \in 1 .. l.sent : l.vectors[i] \in {l.texts[i], Empty}
    /\ l.pc = "embed" => l.sent < Len(l.texts)
    /\ l.pc \in {"idle", "list", "create"} => l.vectors = <<>> /\ l.sent = 0

\* What a job is about, of(s) being the owner of s: an indexer has its owner's
\* data source, and a search has found nothing of others.
Within(l, of) ==
    /\ l.op = "index" => l.user = of[l.source]
    /\ l.pc # "done" => l.result = {}
    /\ \A p \in l.result : /\ p.user = l.user /\ of[p.source] = l.user
                           /\ l.anySource \/ p.source = l.source

Good(l, of) == Shape(l) /\ Takes(l) /\ Aligned(l) /\ Within(l, of)

\* A job that does not come to any points any more.
Over(l) == l.pc \in {"done", "failed"} /\ l.lost # "upsert"

\* Points are those of a job that is over, under its name.
PointsFit ==
    \A p \in points :
        /\ p.vector = p.content /\ p.user = owner[p.source]
        /\ \E j \in Jobs : \E i : p.id = <<j, i>> /\ Over(job[j])

IInv ==
    /\ job = [j \in Jobs |-> job[j]]
    /\ \A j \in Jobs : Good(job[j], owner)
    /\ PointsFit

----------------------------------------------------------------------------
(* One job.                                                                *)

LEMMA EmptyJobIsGood == ASSUME NEW of PROVE Good(EmptyJob, of)
BY DEF EmptyJob, Good, Shape, Takes, Aligned, Within

LEMMA FailedIsGood ==
    ASSUME NEW l, NEW of, Good(l, of)
    PROVE  Good(Failed(l), of) /\ Over(Failed(l))
<1>. DEFINE m == Failed(l)
<1>1. /\ m.pc = "failed" /\ m.op = l.op /\ m.user = l.user /\ m.source = l.source
      /\ ~m.anySource /\ m.result = {} /\ m.lost = "nothing"
  BY DEF Failed, EmptyJob
<1>2. Shape(m)
  BY DEF Failed, EmptyJob, Shape
<1>3. Within(l, of)
  BY DEF Good
<1>. HIDE DEF m
<1>4. Takes(m) /\ Aligned(m) /\ Within(m, of)
  BY <1>1, <1>3 DEF Takes, Aligned, Within
<1>. QED  BY <1>1, <1>2, <1>4 DEF Good, Over, m

\* A job that is given up keeps what its command was about.
LEMMA AbandonedIsGood ==
    ASSUME NEW l, NEW of, Good(l, of), l.pc \notin {"idle", "done", "failed"}
    PROVE  Good(Abandoned(l), of)
<1>1. CASE l.pc \notin Commands
  BY <1>1, FailedIsGood DEF Abandoned
<1>2. CASE l.pc \in Commands
  <2>. DEFINE m == [l EXCEPT !.pc = "failed", !.lost = l.pc]
  <2>1. Shape(l) /\ Takes(l) /\ Aligned(l) /\ Within(l, of)
    BY DEF Good
  <2>2. /\ m.pc = "failed" /\ m.op = l.op /\ m.user = l.user /\ m.source = l.source
        /\ m.anySource = l.anySource /\ m.texts = l.texts /\ m.vectors = l.vectors
        /\ m.sent = l.sent /\ m.result = l.result /\ m.lost = l.pc
        /\ Shape(m)
    BY <2>1 DEF Shape
  <2>3. Abandoned(l) = m
    BY <1>2 DEF Abandoned
  <2>. HIDE DEF m
  <2>4. Takes(m)
    BY <1>2, <2>1, <2>2 DEF Takes, Commands
  <2>5. Aligned(m)
    <3>1. Entries(m) = Entries(l)
      BY <2>2 DEF Entries
    <3>. QED  BY <1>2, <2>1, <2>2, <3>1 DEF Aligned, Commands
  <2>6. Within(m, of)
    BY <1>2, <2>1, <2>2 DEF Within, Commands
  <2>. QED  BY <2>2, <2>3, <2>4, <2>5, <2>6 DEF Good
<1>. QED  BY <1>1, <1>2

\* A job that does not embed goes on with what it has.
LEMMA MovedIsGood ==
    ASSUME NEW l, NEW of, Good(l, of), NEW step, step \notin {"idle", "embed", "upsert"},
           step \in {"list", "create"} =>
              l.op \in {"start", "index"} /\ l.pc \in {"idle", "list", "create"},
           step \in {"count", "remove"} => l.op = "delete",
           l.pc \notin {"done", "failed"}
    PROVE  Good([l EXCEPT !.pc = step], of)
<1>. DEFINE m == [l EXCEPT !.pc = step]
<1>1. Shape(l) /\ Takes(l) /\ Aligned(l) /\ Within(l, of)
  BY DEF Good
<1>2. /\ m.pc = step /\ m.op = l.op /\ m.user = l.user /\ m.source = l.source
      /\ m.anySource = l.anySource /\ m.texts = l.texts /\ m.vectors = l.vectors
      /\ m.sent = l.sent /\ m.refused = l.refused /\ m.result = l.result /\ m.count = l.count
      /\ m.lost = l.lost /\ Shape(m)
  BY <1>1 DEF Shape
<1>. HIDE DEF m
<1>3. Takes(m) /\ m.lost = "nothing"
  BY <1>1, <1>2 DEF Takes
<1>4. Aligned(m)
  BY <1>1, <1>2, <1>3 DEF Aligned
<1>5. Within(m, of)
  BY <1>1, <1>2 DEF Within
<1>. QED  BY <1>2, <1>3, <1>4, <1>5 DEF Good, m

\* A job takes a step, and no points but those it has come to.
LEMMA StepKeeps ==
    ASSUME IInv, NEW j \in Jobs, NEW l, Over(job[j]) => Over(l), Step(j, l), Good(l, owner),
           owner' = owner, points' \subseteq points
    PROVE  IInv'
<1>1. job' = [k \in Jobs |-> job'[k]] /\ job'[j] = l /\ \A k \in Jobs \ {j} : job'[k] = job[k]
  BY DEF IInv, Step
<1>2. \A k \in Jobs : Good(job'[k], owner')
  BY <1>1 DEF IInv
<1>3. PointsFit'
  BY <1>1 DEF IInv, PointsFit
<1>. QED  BY <1>1, <1>2, <1>3 DEF IInv

LEMMA BeginKeeps == ASSUME IInv, NEW j \in Jobs, Begin(j) PROVE IInv'
<1>1. PICK op \in Operations, s \in Sources, u \in Users, any \in BOOLEAN :
        /\ op = "index" => u = owner[s]
        /\ any => op = "search"
        /\ Step(j, [job[j] EXCEPT !.pc = FirstStep[op], !.op = op, !.source = s, !.user = u,
                                  !.anySource = any])
  BY DEF Begin
<1>2. Good(job[j], owner) /\ job[j].pc = "idle"
  BY DEF IInv, Begin, At
<1>3. job[j].result = {} /\ job[j].vectors = <<>> /\ job[j].sent = 0 /\ job[j].lost = "nothing"
  BY <1>2 DEF Good, Takes, Aligned, Within
<1>. DEFINE l == [job[j] EXCEPT !.pc = FirstStep[op], !.op = op, !.source = s, !.user = u,
                                !.anySource = any]
<1>4. Shape(job[j])
  BY <1>2 DEF Good
<1>5. /\ l.pc = FirstStep[op] /\ l.op = op /\ l.user = u /\ l.source = s /\ l.anySource = any
      /\ l.result = {} /\ l.vectors = <<>> /\ l.sent = 0 /\ l.lost = "nothing"
      /\ Shape(l)
  BY <1>3, <1>4 DEF Shape
<1>. HIDE DEF l
<1>6. Good(l, owner)
  BY <1>1, <1>5 DEF Good, Takes, Aligned, Within, FirstStep, Operations
<1>. QED  BY <1>1, <1>2, <1>6, StepKeeps DEF Begin, Over, l

----------------------------------------------------------------------------
(* Calls that embed nothing.                                               *)

\* What follows the collection: extraction gives the indexer texts, and it has
\* sent none of them.
LEMMA InitializedIsGood ==
    ASSUME IInv, NEW j \in Jobs, job[j].pc \in {"list", "create"}, Initialized(j)
    PROVE  \E l : Step(j, l) /\ Good(l, owner)
<1>1. Good(job[j], owner)
  BY DEF IInv
<1>2. ASSUME NEW step \in {"done", "failed"}, Goto(j, step)
      PROVE  \E l : Step(j, l) /\ Good(l, owner)
  BY <1>1, <1>2, MovedIsGood DEF Goto
<1>3. ASSUME job[j].op # "start", NEW file \in Files, NEW chunks \in Extractions(file),
             Step(j, [job[j] EXCEPT !.pc = IF chunks = <<>> THEN "done" ELSE "embed",
                                    !.texts = chunks])
      PROVE  \E l : Step(j, l) /\ Good(l, owner)
  <2>. DEFINE l == [job[j] EXCEPT !.pc = IF chunks = <<>> THEN "done" ELSE "embed",
                                  !.texts = chunks]
  <2>1. Shape(job[j]) /\ Takes(job[j]) /\ Aligned(job[j]) /\ Within(job[j], owner)
    BY <1>1 DEF Good
  <2>2. /\ Shape(l) /\ l.op = job[j].op /\ l.user = job[j].user /\ l.source = job[j].source
        /\ l.anySource = job[j].anySource /\ l.vectors = job[j].vectors
        /\ l.sent = job[j].sent /\ l.result = job[j].result /\ l.texts = chunks
        /\ l.lost = job[j].lost
        /\ l.pc = IF chunks = <<>> THEN "done" ELSE "embed"
    BY <2>1 DEF Shape
  <2>3. l.vectors = <<>> /\ l.sent = 0 /\ l.result = {} /\ l.op = "index" /\ l.lost = "nothing"
    BY <1>3, <2>1, <2>2 DEF Takes, Aligned, Within
  <2>. HIDE DEF l
  <2>4. chunks \in Seq(Range(chunks)) /\ Range(chunks) \subseteq Entries(l)
    BY <2>2, ExtractionAssumption DEF Range, Entries
  <2>5. chunks \in Seq(Entries(l)) /\ Len(chunks) \in Nat /\ (chunks # <<>> => Len(chunks) > 0)
    BY <2>4
  <2>6. Aligned(l)
    BY <2>2, <2>3, <2>5 DEF Aligned
  <2>7. Takes(l) /\ Within(l, owner)
    BY <2>1, <2>2, <2>3 DEF Takes, Within
  <2>. QED  BY <1>3, <2>2, <2>6, <2>7 DEF Good, l
<1>. QED  BY <1>2, <1>3 DEF Initialized

LEMMA ListCollectionsKeeps == ASSUME IInv, NEW j \in Jobs, ListCollections(j) PROVE IInv'
<1>1. Good(job[j], owner) /\ job[j].pc = "list" /\ UNCHANGED <<points, owner>>
  BY DEF IInv, ListCollections, At
<1>2. CASE Initialized(j)
  BY <1>1, <1>2, InitializedIsGood, StepKeeps DEF Over
<1>3. CASE Goto(j, "create")
  <2>1. job[j].op \in {"start", "index"}
    BY <1>1 DEF Good, Takes
  <2>2. Good([job[j] EXCEPT !.pc = "create"], owner)
    BY <1>1, <2>1, MovedIsGood
  <2>. QED  BY <1>1, <1>3, <2>2, StepKeeps DEF Goto, Over
<1>. QED  BY <1>2, <1>3 DEF ListCollections

LEMMA CreateCollectionKeeps == ASSUME IInv, NEW j \in Jobs, CreateCollection(j) PROVE IInv'
<1>1. Good(job[j], owner) /\ job[j].pc = "create" /\ UNCHANGED <<points, owner>>
  BY DEF IInv, CreateCollection, At
<1>2. CASE Initialized(j)
  BY <1>1, <1>2, InitializedIsGood, StepKeeps DEF Over
<1>3. CASE Goto(j, "failed")
  <2>1. Good([job[j] EXCEPT !.pc = "failed"], owner)
    BY <1>1, MovedIsGood
  <2>. QED  BY <1>1, <1>3, <2>1, StepKeeps DEF Goto, Over
<1>. QED  BY <1>2, <1>3 DEF CreateCollection

LEMMA EmbedQueryKeeps == ASSUME IInv, NEW j \in Jobs, EmbedQuery(j) PROVE IInv'
<1>1. Good(job[j], owner) /\ job[j].pc = "embedQuery" /\ UNCHANGED <<points, owner>>
  BY DEF IInv, EmbedQuery, At
<1>2. PICK step \in {"query", "failed"} : Goto(j, step)
  BY DEF EmbedQuery
<1>3. Good([job[j] EXCEPT !.pc = step], owner)
  BY <1>1, MovedIsGood
<1>. QED  BY <1>1, <1>2, <1>3, StepKeeps DEF Goto, Over

\* A search is given points of its user, which are of data sources of the user.
LEMMA QueryKeeps == ASSUME IInv, NEW j \in Jobs, Query(j) PROVE IInv'
<1>1. Good(job[j], owner) /\ job[j].pc = "query" /\ UNCHANGED <<points, owner>>
  BY DEF IInv, Query, At
<1>2. PICK hits \in SUBSET Matching(j) : Step(j, [job[j] EXCEPT !.pc = "done", !.result = hits])
  BY DEF Query
<1>. DEFINE l == [job[j] EXCEPT !.pc = "done", !.result = hits]
<1>3. Shape(job[j]) /\ Takes(job[j]) /\ Within(job[j], owner)
  BY <1>1 DEF Good
<1>4. /\ Shape(l) /\ l.pc = "done" /\ l.op = job[j].op /\ l.user = job[j].user
      /\ l.source = job[j].source /\ l.anySource = job[j].anySource /\ l.result = hits
      /\ l.lost = job[j].lost
  BY <1>3 DEF Shape
<1>5. \A p \in hits : /\ p.user = job[j].user /\ owner[p.source] = job[j].user
                      /\ job[j].anySource \/ p.source = job[j].source
  BY DEF Matching, IInv, PointsFit
<1>. HIDE DEF l
<1>6. Takes(l) /\ Aligned(l) /\ Within(l, owner)
  BY <1>1, <1>3, <1>4, <1>5 DEF Takes, Aligned, Within
<1>. QED  BY <1>1, <1>2, <1>4, <1>6, StepKeeps DEF Good, Over, l

LEMMA CountKeeps == ASSUME IInv, NEW j \in Jobs, Count(j) PROVE IInv'
<1>1. Good(job[j], owner) /\ job[j].pc = "count" /\ UNCHANGED <<points, owner>>
  BY DEF IInv, Count, At
<1>. DEFINE l == [job[j] EXCEPT !.pc = "remove", !.count = Cardinality(Matching(j))]
<1>2. Shape(job[j]) /\ Takes(job[j]) /\ Within(job[j], owner)
  BY <1>1 DEF Good
<1>3. /\ Shape(l) /\ l.pc = "remove" /\ l.op = job[j].op /\ l.user = job[j].user
      /\ l.source = job[j].source /\ l.anySource = job[j].anySource /\ l.result = job[j].result
      /\ l.lost = job[j].lost
  BY <1>2 DEF Shape
<1>4. Step(j, l)
  BY DEF Count
<1>. HIDE DEF l
<1>5. Takes(l) /\ Aligned(l) /\ Within(l, owner)
  BY <1>1, <1>2, <1>3 DEF Takes, Aligned, Within
<1>. QED  BY <1>1, <1>3, <1>4, <1>5, StepKeeps DEF Good, Over

LEMMA RemovePointsKeeps == ASSUME IInv, NEW j \in Jobs, RemovePoints(j) PROVE IInv'
<1>1. Good(job[j], owner) /\ job[j].pc = "remove" /\ owner' = owner /\ points' \subseteq points
  BY DEF IInv, RemovePoints, At
<1>2. Good([job[j] EXCEPT !.pc = "done"], owner)
  BY <1>1, MovedIsGood
<1>. QED  BY <1>1, <1>2, StepKeeps DEF RemovePoints, Goto, Over

LEMMA QdrantFailsKeeps == ASSUME IInv, NEW j \in Jobs, QdrantFails(j) PROVE IInv'
<1>1. /\ Good(job[j], owner) /\ job[j].pc \notin {"idle", "done", "failed"}
      /\ UNCHANGED <<points, owner>> /\ Step(j, Abandoned(job[j]))
  BY DEF IInv, QdrantFails, Fail
<1>. QED  BY <1>1, AbandonedIsGood, StepKeeps DEF Over

LEMMA RestartKeeps == ASSUME IInv, Restart PROVE IInv'
<1>1. /\ job' = [j \in Jobs |-> job'[j]]
      /\ \A j \in Jobs : job'[j] = IF job[j].pc \in {"idle", "done", "failed"} THEN job[j]
                                   ELSE Abandoned(job[j])
      /\ UNCHANGED <<points, owner>>
  BY DEF Restart
<1>2. \A j \in Jobs : Good(job'[j], owner')
  BY <1>1, AbandonedIsGood DEF IInv
<1>3. PointsFit'
  BY <1>1 DEF IInv, PointsFit, Over
<1>. QED  BY <1>1, <1>2, <1>3 DEF IInv

----------------------------------------------------------------------------
(* Batches.                                                                *)

\* A batch is what is left of the texts, up to the size of a batch.
LEMMA BatchIs ==
    ASSUME NEW j \in Jobs, NEW sent \in Nat, job[j].sent = sent,
           NEW total \in Nat, Len(job[j].texts) = total, sent < total
    PROVE  \E last \in sent + 1 .. total :
              /\ Batch(j) = sent + 1 .. last
              /\ Max(Batch(j)) = last
              /\ Cardinality(Batch(j)) = last - sent
<1>. DEFINE full == sent + 1 + BatchSize - 1
            last == IF full <= total THEN full ELSE total
<1>1. full \in Nat /\ full >= sent + 1 /\ last \in sent + 1 .. total
  BY IndexingAssumption
<1>2. Min({full, total}) = last
  BY <1>1 DEF Min
<1>3. Batch(j) = sent + 1 .. last
  BY <1>2 DEF Batch
<1>4. Max(sent + 1 .. last) = last
  <2>1. last \in sent + 1 .. last /\ \A y \in sent + 1 .. last : last >= y
    BY <1>1
  <2>2. \A x \in sent + 1 .. last : (\A y \in sent + 1 .. last : x >= y) => x = last
    BY <1>1
  <2>. HIDE DEF last
  <2>. QED  BY <2>1, <2>2 DEF Max
<1>5. Cardinality(sent + 1 .. last) = last - sent
  <2>1. sent + 1 \in Int /\ last \in Int /\ ~(sent + 1 > last)
    BY <1>1
  <2>2. Cardinality(sent + 1 .. last) = last - (sent + 1) + 1
    BY <2>1, FS_Interval
  <2>. QED  BY <1>1, <2>2
<1>. HIDE DEF last
<1>. QED  BY <1>1, <1>3, <1>4, <1>5

\* The answer to a batch, its vectors or as many empty ones, is appended to
\* the vectors in their places.
LEMMA AnsweredIsGood ==
    ASSUME IInv, NEW j \in Jobs, At(j, "embed"), NEW vectors, NEW refused,
           vectors \in {TextsOf(j, Batch(j)), Padding(Batch(j))}, Answered(j, vectors, refused)
    PROVE  \E l : Step(j, l) /\ Good(l, owner)
<1>. DEFINE o == job[j]
            local == [o EXCEPT !.vectors = @ \o vectors, !.refused = @ \cup refused,
                               !.sent = Max(Batch(j))]
            step == CASE local.sent < Len(local.texts) -> "embed"
                      [] local.sent = Len(local.texts) /\ Embedded(local) = {} -> "done"
                      [] OTHER -> "upsert"
            l == [local EXCEPT !.pc = step]
<1>1. Good(o, owner) /\ o.pc = "embed"
  BY DEF IInv, At
<1>2. Shape(o) /\ Takes(o) /\ Aligned(o) /\ Within(o, owner)
  BY <1>1 DEF Good
<1>3. /\ o.texts \in Seq(Entries(o)) /\ o.vectors \in Seq(Entries(o))
      /\ Len(o.vectors) = o.sent /\ o.sent < Len(o.texts)
      /\ \A i \in 1 .. o.sent : o.vectors[i] \in {o.texts[i], Empty}
  BY <1>1, <1>2 DEF Aligned
<1>4. o.sent \in Nat /\ Len(o.texts) \in Nat
  BY <1>3
<1>5. PICK last \in o.sent + 1 .. Len(o.texts) :
        Max(Batch(j)) = last /\ Cardinality(Batch(j)) = last - o.sent
  <2>. HIDE DEF o
  <2>1. \E last \in o.sent + 1 .. Len(o.texts) :
          /\ Batch(j) = o.sent + 1 .. last
          /\ Max(Batch(j)) = last
          /\ Cardinality(Batch(j)) = last - o.sent
    BY <1>3, <1>4, BatchIs DEF o
  <2>. QED  BY <2>1
<1>6. /\ Shape(l) /\ l.pc = step /\ l.op = o.op /\ l.user = o.user /\ l.source = o.source
      /\ l.anySource = o.anySource /\ l.result = o.result /\ l.texts = o.texts
      /\ l.lost = o.lost
      /\ l.vectors = o.vectors \o vectors /\ l.sent = last
  BY <1>2, <1>5 DEF Shape
<1>7. Step(j, l)
  BY DEF Answered
<1>8. /\ step \in {"embed", "done", "upsert"}
      /\ step = "embed" => last < Len(o.texts)
  <2>1. local.sent = last /\ local.texts = o.texts
    BY <1>2, <1>5 DEF Shape
  <2>2. CASE last < Len(o.texts)
    BY <2>1, <2>2
  <2>3. CASE ~(last < Len(o.texts))
    <3>1. step \in {"done", "upsert"}
      BY <2>1, <2>3, <1>4
    <3>. QED  BY <3>1
  <2>. QED  BY <2>2, <2>3
<1>. HIDE DEF l, step
<1>9. /\ vectors \in Seq(Entries(o)) /\ Len(vectors) = last - o.sent
      /\ \A k \in 1 .. last - o.sent : vectors[k] \in {o.texts[o.sent + k], Empty}
  <2>1. last - o.sent \in Nat
    BY <1>4, <1>5
  <2>2. \A k \in 1 .. last - o.sent : o.sent + k \in 1 .. Len(o.texts)
    BY <1>4, <1>5
  <2>3. \A k \in 1 .. last - o.sent : o.texts[o.sent + k] \in Entries(o)
    BY <1>3, <2>2 DEF Entries
  <2>4. CASE vectors = TextsOf(j, Batch(j))
    <3>1. vectors = [k \in 1 .. last - o.sent |-> o.texts[o.sent + k]]
      BY <1>5, <2>4 DEF TextsOf
    <3>. HIDE DEF o
    <3>. QED  BY <2>1, <2>3, <3>1
  <2>5. CASE vectors = Padding(Batch(j))
    <3>1. vectors = [k \in 1 .. last - o.sent |-> Empty]
      BY <1>5, <2>5 DEF Padding
    <3>. QED  BY <2>1, <3>1 DEF Entries
  <2>. QED  BY <2>4, <2>5
<1>10. Aligned(l)
  <2>1. Entries(l) = Entries(o)
    BY <1>6 DEF Entries
  <2>2. /\ l.vectors \in Seq(Entries(o)) /\ Len(l.vectors) = o.sent + (last - o.sent)
        /\ \A i \in 1 .. o.sent + (last - o.sent) :
              l.vectors[i] = IF i <= o.sent THEN o.vectors[i] ELSE vectors[i - o.sent]
    <3>. DEFINE all == o.vectors \o vectors
    <3>1. /\ all \in Seq(Entries(o)) /\ Len(all) = Len(o.vectors) + Len(vectors)
          /\ \A i \in 1 .. Len(o.vectors) + Len(vectors) :
                all[i] = IF i <= Len(o.vectors) THEN o.vectors[i] ELSE vectors[i - Len(o.vectors)]
      BY <1>3, <1>9, ConcatProperties
    <3>. HIDE DEF all
    <3>2. /\ all \in Seq(Entries(o)) /\ Len(all) = o.sent + (last - o.sent)
          /\ \A i \in 1 .. o.sent + (last - o.sent) :
                all[i] = IF i <= o.sent THEN o.vectors[i] ELSE vectors[i - o.sent]
      BY <1>3, <1>9, <3>1
    <3>. QED  BY <1>6, <3>2 DEF all
  <2>3. o.sent + (last - o.sent) = last
    BY <1>4, <1>5
  <2>4. ASSUME NEW i \in 1 .. last
        PROVE  l.vectors[i] \in {o.texts[i], Empty}
    <3>1. CASE i <= o.sent
      <4>1. i \in 1 .. o.sent
        BY <1>4, <3>1
      <4>. QED  BY <1>3, <2>2, <2>3, <3>1, <4>1
    <3>2. CASE ~(i <= o.sent)
      <4>1. i - o.sent \in 1 .. last - o.sent /\ o.sent + (i - o.sent) = i
        BY <1>4, <1>5, <3>2
      <4>. QED  BY <1>9, <2>2, <2>3, <3>2, <4>1
    <3>. QED  BY <3>1, <3>2
  <2>5. /\ l.texts \in Seq(Entries(l)) /\ l.vectors \in Seq(Entries(l))
        /\ Len(l.vectors) = l.sent /\ l.sent <= Len(l.texts)
    BY <1>3, <1>4, <1>5, <1>6, <2>1, <2>2, <2>3
  <2>6. \A i \in 1 .. l.sent : l.vectors[i] \in {l.texts[i], Empty}
    BY <1>6, <2>4
  <2>. HIDE DEF o
  <2>. QED  BY <1>6, <1>8, <2>5, <2>6 DEF Aligned
<1>11. Takes(l)
  BY <1>1, <1>2, <1>6, <1>8 DEF Takes
<1>12. Within(l, owner)
  BY <1>1, <1>2, <1>6 DEF Within
<1>. QED  BY <1>6, <1>7, <1>10, <1>11, <1>12 DEF Good

LEMMA EmbedBatchKeeps == ASSUME IInv, NEW j \in Jobs, EmbedBatch(j) PROVE IInv'
<1>1. At(j, "embed") /\ UNCHANGED <<points, owner>>
  BY DEF EmbedBatch
<1>2. \E l : Step(j, l) /\ Good(l, owner)
  BY <1>1, AnsweredIsGood DEF EmbedBatch
<1>. QED  BY <1>1, <1>2, StepKeeps DEF At, Over

----------------------------------------------------------------------------
(* The upsert.                                                             *)

\* What is about to be stored is under the vector of its own text.
LEMMA NewPointsFit ==
    ASSUME IInv, NEW j \in Jobs, At(j, "upsert") \/ job[j].lost = "upsert", NEW p \in NewPoints(j)
    PROVE  /\ p.vector = p.content
           /\ p.user = owner[p.source]
           /\ \E i : p.id = <<j, i>>
<1>. DEFINE l == job[j]
<1>1. Good(l, owner) /\ (l.pc = "upsert" \/ l.lost = "upsert")
  BY DEF IInv, At
<1>2. l.op = "index" /\ l.user = owner[l.source]
  BY <1>1 DEF Good, Takes, Within
<1>3. /\ Len(l.vectors) = l.sent /\ l.vectors \in Seq(Entries(l))
      /\ \A i \in 1 .. l.sent : l.vectors[i] \in {l.texts[i], Empty}
      /\ l.texts \in Seq(Entries(l))
  BY <1>1 DEF Good, Aligned
<1>4. PICK i \in Embedded(l) :
        p = [id |-> <<j, i>>, user |-> l.user, source |-> l.source,
             content |-> l.texts[i], vector |-> Embedding(l, i)]
  BY DEF NewPoints
<1>5. i \in DOMAIN l.texts /\ Embedding(l, i) # Empty
  BY DEF Embedded
<1>6. i \in 1 .. Len(l.texts)
  BY <1>3, <1>5
<1>7. i <= Len(l.vectors) /\ Embedding(l, i) = l.vectors[i]
  BY <1>5 DEF Embedding
<1>8. i \in 1 .. l.sent
  BY <1>3, <1>6, <1>7
<1>9. l.vectors[i] = l.texts[i]
  BY <1>3, <1>5, <1>7, <1>8
<1>. QED  BY <1>2, <1>4, <1>7, <1>9

\* Whoever comes to its points, in time or late, is over.
LEMMA StoringKeeps ==
    ASSUME IInv, NEW j \in Jobs, At(j, "upsert") \/ job[j].lost = "upsert",
           points' = points \cup NewPoints(j), owner' = owner,
           NEW l, Step(j, l), Good(l, owner), Over(l)
    PROVE  IInv'
<1>1. job' = [k \in Jobs |-> job'[k]] /\ job'[j] = l /\ \A k \in Jobs \ {j} : job'[k] = job[k]
  BY DEF IInv, Step
<1>2. PointsFit'
  <2>1. \A p \in points : \E k \in Jobs : \E i : p.id = <<k, i>> /\ Over(job'[k])
    BY <1>1 DEF IInv, PointsFit
  <2>2. \A p \in NewPoints(j) : /\ p.vector = p.content /\ p.user = owner[p.source]
                                /\ \E i : p.id = <<j, i>> /\ Over(job'[j])
    BY <1>1, NewPointsFit
  <2>. QED  BY <2>1, <2>2 DEF IInv, PointsFit
<1>. QED  BY <1>1, <1>2 DEF IInv

LEMMA UpsertKeeps == ASSUME IInv, NEW j \in Jobs, Upsert(j) PROVE IInv'
<1>. DEFINE l == [job[j] EXCEPT !.pc = "done", !.count = Cardinality(Embedded(job[j])),
                                !.texts = <<>>, !.vectors = <<>>, !.refused = {}, !.sent = 0]
<1>1. /\ Good(job[j], owner) /\ job[j].pc = "upsert" /\ owner' = owner
      /\ points' = points \cup NewPoints(j) /\ Step(j, l)
  BY DEF IInv, Upsert, At
<1>2. Shape(job[j]) /\ Takes(job[j]) /\ Within(job[j], owner)
  BY <1>1 DEF Good
<1>3. /\ Shape(l) /\ l.pc = "done" /\ l.op = job[j].op /\ l.user = job[j].user
      /\ l.source = job[j].source /\ l.anySource = job[j].anySource /\ l.result = job[j].result
      /\ l.lost = job[j].lost
  BY <1>2 DEF Shape
<1>. HIDE DEF l
<1>4. l.lost = "nothing" /\ Over(l)
  BY <1>1, <1>2, <1>3 DEF Takes, Over
<1>5. Good(l, owner)
  BY <1>1, <1>2, <1>3, <1>4 DEF Good, Takes, Aligned, Within
<1>. QED  BY <1>1, <1>4, <1>5, StoringKeeps DEF At

LEMMA QdrantIsLateKeeps == ASSUME IInv, NEW j \in Jobs, QdrantIsLate(j) PROVE IInv'
<1>1. Good(Failed(job[j]), owner) /\ Over(Failed(job[j])) /\ Step(j, Failed(job[j]))
      /\ owner' = owner
  BY FailedIsGood DEF IInv, QdrantIsLate
<1>2. CASE job[j].lost = "upsert" /\ points' = points \cup NewPoints(j)
  BY <1>1, <1>2, StoringKeeps
<1>3. CASE points' \subseteq points
  BY <1>1, <1>3, StepKeeps
<1>. QED  BY <1>2, <1>3 DEF QdrantIsLate

----------------------------------------------------------------------------

LEMMA Invariance == Spec => []IInv
<1>1. Init => IInv
  BY EmptyJobIsGood DEF Init, IInv, PointsFit
<1>2. ASSUME IInv, Next PROVE IInv'
  BY <1>2, BeginKeeps, ListCollectionsKeeps, CreateCollectionKeeps, EmbedBatchKeeps, UpsertKeeps,
     EmbedQueryKeeps, QueryKeeps, CountKeeps, RemovePointsKeeps, QdrantFailsKeeps, RestartKeeps,
     QdrantIsLateKeeps DEF Next, Run
<1>3. IInv /\ UNCHANGED vars => IInv'
  BY DEF vars, IInv, PointsFit
<1>. QED  BY <1>1, <1>2, <1>3, PTL DEF Spec

----------------------------------------------------------------------------
(* What a step does to the points.                                         *)

\* Points of a job have names that nobody else's have.
LEMMA NewPointsAreNew ==
    ASSUME IInv, NEW j \in Jobs, At(j, "upsert") \/ job[j].lost = "upsert"
    PROVE  NewPoints(j) \cap points = {} /\ \A p \in points : p.id[1] # j
<1>1. ~Over(job[j])
  BY DEF At, Over
<1>2. \A p \in points : \E k \in Jobs : Over(job[k]) /\ p.id[1] = k
  BY DEF IInv, PointsFit
<1>3. \A p \in points : p.id[1] # j
  BY <1>1, <1>2
<1>4. \A p \in NewPoints(j) : p.id[1] = j
  BY NewPointsFit
<1>. QED  BY <1>3, <1>4

LEMMA UpsertStores ==
    ASSUME IInv, NEW j \in Jobs, Upsert(j)
    PROVE  Stores(j) /\ points \subseteq points'
<1>. DEFINE l == job[j]
            point(i) == [id |-> <<j, i>>, user |-> l.user, source |-> l.source,
                         content |-> l.texts[i], vector |-> Embedding(l, i)]
            f == [i \in Embedded(l) |-> point(i)]
<1>1. /\ At(j, "upsert") /\ points' = points \cup NewPoints(j)
      /\ Step(j, [l EXCEPT !.pc = "done", !.count = Cardinality(Embedded(l)),
                           !.texts = <<>>, !.vectors = <<>>, !.refused = {}, !.sent = 0])
  BY DEF Upsert
<1>2. Good(l, owner)
  BY DEF IInv
<1>3. job'[j].count = Cardinality(Embedded(l)) /\ job'[j].pc = "done"
  BY <1>1, <1>2 DEF IInv, Step, Good, Shape
<1>4. NewPoints(j) \cap points = {} /\ \A p \in points : p.id[1] # j
  BY <1>1, NewPointsAreNew
<1>5. NewPoints(j) = {point(i) : i \in Embedded(l)}
  BY DEF NewPoints
<1>6. IsFiniteSet(Embedded(l))
  <2>1. l.texts \in Seq(Entries(l))
    BY <1>1, <1>2 DEF At, Good, Aligned
  <2>2. Embedded(l) \subseteq 1 .. Len(l.texts)
    BY <2>1 DEF Embedded
  <2>3. IsFiniteSet(1 .. Len(l.texts))
    BY <2>1, FS_Interval
  <2>. QED  BY <2>2, <2>3, FS_Subset
<1>7. f \in Bijection(Embedded(l), NewPoints(j))
  <2>1. \A i, k \in Embedded(l) : point(i) = point(k) => i = k
    OBVIOUS
  <2>. HIDE DEF point
  <2>2. f \in [Embedded(l) -> NewPoints(j)] /\ \A i \in Embedded(l) : f[i] = point(i)
    BY <1>5
  <2>3. \A p \in NewPoints(j) : \E i \in Embedded(l) : f[i] = p
    BY <1>5, <2>2
  <2>. HIDE DEF f
  <2>4. f \in Injection(Embedded(l), NewPoints(j))
    BY <2>1, <2>2 DEF Injection, IsInjective
  <2>5. f \in Surjection(Embedded(l), NewPoints(j))
    BY <2>2, <2>3 DEF Surjection
  <2>. QED  BY <2>4, <2>5 DEF Bijection
<1>8. Cardinality(NewPoints(j)) = Cardinality(Embedded(l))
  BY <1>6, <1>7, FS_Bijection DEF ExistsBijection
<1>9. points' \ points = NewPoints(j)
  BY <1>1, <1>4
<1>10. l.op = "index"
  BY <1>1, <1>2 DEF At, Good, Takes
<1>. QED  BY <1>1, <1>3, <1>4, <1>8, <1>9, <1>10 DEF Stores, At

LEMMA RemovingRemoves ==
    ASSUME IInv, NEW j \in Jobs, At(j, "remove") \/ job[j].lost = "remove",
           points' = points \ Matching(j)
    PROVE  points' \subseteq points /\ \A p \in points \ points' : Removes(j, p)
<1>1. Good(job[j], owner)
  BY DEF IInv
<1>2. job[j].op = "delete" /\ ~job[j].anySource
  BY <1>1 DEF At, Good, Takes
<1>. QED  BY <1>2 DEF Matching, Removes

LEMMA LateStep ==
    ASSUME IInv, NEW j \in Jobs, QdrantIsLate(j)
    PROVE  /\ points' \ points # {} => Stores(j)
           /\ \A p \in points \ points' : Removes(j, p)
<1>1. CASE job[j].lost = "upsert" /\ points' = points \cup NewPoints(j)
  <2>1. job[j].op = "index" /\ At(j, "failed")
    BY <1>1 DEF IInv, Good, Takes, QdrantIsLate
  <2>2. points' \ points = NewPoints(j) /\ \A p \in points : p.id[1] # j
    BY <1>1, NewPointsAreNew
  <2>3. job'[j].lost = "nothing"
    BY DEF QdrantIsLate, Step, IInv, Failed, EmptyJob
  <2>. QED  BY <1>1, <2>1, <2>2, <2>3 DEF Stores
<1>2. CASE job[j].lost = "remove" /\ points' = points \ Matching(j)
  BY <1>2, RemovingRemoves
<1>. QED  BY <1>1, <1>2 DEF QdrantIsLate

LEMMA PointsStep ==
    ASSUME IInv, [Next]_vars
    PROVE  /\ points' \ points # {} => \E j \in Jobs : Stores(j)
           /\ \A p \in points \ points' : \E j \in Jobs : Removes(j, p)
<1>1. ASSUME NEW j \in Jobs, Upsert(j)
      PROVE  /\ points' \ points # {} => \E k \in Jobs : Stores(k)
             /\ \A p \in points \ points' : \E k \in Jobs : Removes(k, p)
  BY <1>1, UpsertStores
<1>2. ASSUME NEW j \in Jobs, RemovePoints(j)
      PROVE  /\ points' \ points # {} => \E k \in Jobs : Stores(k)
             /\ \A p \in points \ points' : \E k \in Jobs : Removes(k, p)
  BY <1>2, RemovingRemoves DEF RemovePoints
<1>3. ASSUME NEW j \in Jobs, Begin(j) \/ (Run(j) /\ ~Upsert(j) /\ ~RemovePoints(j))
      PROVE  points' = points
  BY <1>3 DEF Begin, Run, ListCollections, CreateCollection, EmbedBatch, EmbedQuery, Query, Count,
     QdrantFails, Fail
<1>4. CASE Restart \/ UNCHANGED vars
  BY <1>4 DEF Restart, vars
<1>. QED  BY <1>1, <1>2, <1>3, <1>4, LateStep DEF Next, Run

----------------------------------------------------------------------------

\* Whatever batches are refused, a chunk is stored under the vector of its own
\* text or not at all: embed_texts fills the places of a refused batch.
THEOREM TextsKeepTheirVectors == Spec => []VectorsAreOfTheirText
<1>1. IInv => VectorsAreOfTheirText
  BY NewPointsFit DEF IInv, PointsFit, VectorsAreOfTheirText
<1>. QED  BY <1>1, Invariance, PTL

\* A search finds nothing of other users, though it does not look up whose the
\* data source is: search filters by the user who asks, and index_data_source
\* wrote the owner into each point.
THEOREM SearchesStayWithin == Spec => []SearchStaysWithin
<1>1. IInv => SearchStaysWithin
  BY DEF IInv, Good, Within, SearchStaysWithin
<1>. QED  BY <1>1, Invariance, PTL

\* However often and whenever a data source is indexed (POST /{id}/index), and
\* whatever requests Qdrant carries out although they failed: a job's points
\* come at once and once, as many as it reports unless it has failed, and points
\* go with a deletion for their owner only (_upload_chunks, delete_data_source).
THEOREM ChunksComeAtOnce == Spec => IndexedAtOnce
<1>1. IInv /\ [Next]_vars =>
        [ /\ points' \ points # {} => \E j \in Jobs : Stores(j)
          /\ \A p \in points \ points' : \E j \in Jobs : Removes(j, p) ]_vars
  BY PointsStep
<1>. QED  BY <1>1, Invariance, PTL DEF Spec, IndexedAtOnce
----------------------------------------------------------------------------
(* What is said of a sheet of any size (SheetReading): its rows are of one *)
(* width, and every sheet like that has the properties.                    *)

IsSheet(sheet, width) ==
    sheet \in [top : Nat, rows : Seq([1 .. width -> Cell]) \ {<<>>}]

\* Every sheet that grows row by row is one.
LEMMA SheetsGrow == SheetSpec => [](\E width \in Nat : IsSheet(worksheet, width))
<1>1. FirstRow => \E width \in Nat : IsSheet(worksheet, width)
  <2>. SUFFICES ASSUME FirstRow PROVE \E width \in Nat : IsSheet(worksheet, width)
    OBVIOUS
  <2>1. PICK shape \in Shapes : worksheet \in [top : Tops, rows : [{1} -> Rows(shape[1])]]
    BY DEF FirstRow
  <2>2. shape[1] \in Nat
    BY SheetAssumption
  <2>3. PICK row \in [1 .. shape[1] -> Cell] : worksheet.rows = [i \in {1} |-> row]
    BY <2>1, SheetAssumption DEF Rows
  <2>4. worksheet.rows \in Seq([1 .. shape[1] -> Cell]) \ {<<>>}
    <3>1. worksheet.rows = <<row>>
      BY <2>3
    <3>2. <<row>> \in Seq([1 .. shape[1] -> Cell]) /\ <<row>> # <<>>
      OBVIOUS
    <3>. QED  BY <3>1, <3>2
  <2>5. worksheet.top \in Nat /\ worksheet = [top |-> worksheet.top, rows |-> worksheet.rows]
    BY <2>1, SheetAssumption
  <2>. QED  BY <2>2, <2>4, <2>5 DEF IsSheet
<1>2. ASSUME NEW width \in Nat, IsSheet(worksheet, width), AddRow
      PROVE  IsSheet(worksheet', width)
  <2>1. Columns(worksheet) = 1 .. width
    BY <1>2 DEF IsSheet, Columns
  <2>2. Cardinality(Columns(worksheet)) = width
    BY <2>1, FS_Interval
  <2>3. PICK row \in Rows(width) : worksheet' = [worksheet EXCEPT !.rows = Append(@, row)]
    BY <1>2, <2>2 DEF AddRow
  <2>4. row \in [1 .. width -> Cell]
    BY SheetAssumption DEF Rows
  <2>5. Append(worksheet.rows, row) \in Seq([1 .. width -> Cell]) \ {<<>>}
    BY <1>2, <2>4 DEF IsSheet
  <2>. QED  BY <1>2, <2>3, <2>5 DEF IsSheet
<1>3. (\E width \in Nat : IsSheet(worksheet, width)) /\ [AddRow]_worksheet
        => (\E width \in Nat : IsSheet(worksheet, width))'
  BY <1>2
<1>. QED  BY <1>1, <1>3, PTL DEF SheetSpec

----------------------------------------------------------------------------
(* Regions. *)

LEMMA RegionsOfASheet ==
    ASSUME NEW width \in Nat, NEW sheet, IsSheet(sheet, width)
    PROVE  RegionsPartition(sheet)
<1>. DEFINE end == MaxRow(sheet)
            within(row) == {region \in DetectDataRegions(sheet) :
                              row \in region.first .. region.last}
<1>1. end \in Nat
  BY DEF IsSheet, MaxRow
<1>2. SUFFICES ASSUME NEW row \in 2 .. end
               PROVE  \E region : within(row) = {region}
  BY FS_Singleton DEF RegionsPartition
<1>3. row \notin 1 .. 1 /\ row \in Nat /\ 2 <= row /\ row <= end
  BY <1>1
<1>4. CASE LastRowHasTotal(sheet) /\ row = end
  <2>1. within(row) = {Region("totals", end, end)}
    BY <1>1, <1>3, <1>4
    DEF DetectDataRegions, HeaderRegion, TotalsRegion, DataRegion, Region
  <2>. QED  BY <2>1
<1>5. CASE LastRowHasTotal(sheet) /\ row # end
  <2>1. within(row) = {Region("data", 2, end - 1)}
    BY <1>1, <1>3, <1>5
    DEF DetectDataRegions, HeaderRegion, TotalsRegion, DataRegion, Region
  <2>. QED  BY <2>1
<1>6. CASE ~LastRowHasTotal(sheet)
  <2>1. within(row) = {Region("data", 2, end)}
    BY <1>1, <1>3, <1>6
    DEF DetectDataRegions, HeaderRegion, TotalsRegion, DataRegion, Region
  <2>. QED  BY <2>1
<1>. QED  BY <1>4, <1>5, <1>6

----------------------------------------------------------------------------
(* Statistics. *)

\* A column in which there are numbers, and nothing else, is of that type.
LEMMA NumbersDecide ==
    ASSUME NEW width \in Nat, NEW sheet, IsSheet(sheet, width), NEW c, IsNumeric(sheet, c)
    PROVE  InferColumnType(sheet, c) = "numeric"
<1>. DEFINE of(t) == {r \in Filled(sheet, c) : TypeOf(sheet.rows[r][c].value) = t}
            count(t) == Cardinality(of(t))
            counts == {count(TypeOrder[i]) : i \in 1 .. 4}
            best == Max(counts)
            places == {i \in 1 .. 4 : count(TypeOrder[i]) = best}
<1>1. \A r \in Filled(sheet, c) : TypeOf(sheet.rows[r][c].value) = "numeric"
  BY DEF IsNumeric, Numeric, TypeOf, Numbers, Whole, Texts
<1>2. of("numeric") = Filled(sheet, c)
  BY <1>1
<1>3. of("text") = {} /\ of("date") = {} /\ of("boolean") = {}
  BY <1>1
<1>4. count("numeric") \in Nat \ {0}
  <2>1. Filled(sheet, c) \subseteq 2 .. Len(sheet.rows) /\ Len(sheet.rows) \in Nat
    BY DEF Filled, DataRows, IsSheet
  <2>2. IsFiniteSet(Filled(sheet, c))
    <3>1. IsFiniteSet(2 .. Len(sheet.rows))
      BY <2>1, FS_Interval
    <3>. QED  BY <2>1, <3>1, FS_Subset
  <2>3. Filled(sheet, c) # {}
    BY DEF IsNumeric
  <2>. QED  BY <1>2, <2>2, <2>3, FS_CardinalityType, FS_EmptySet
<1>5. count("text") = 0 /\ count("date") = 0 /\ count("boolean") = 0
  BY <1>3, FS_EmptySet
<1>6. /\ TypeOrder[1] = "numeric" /\ TypeOrder[2] = "text"
      /\ TypeOrder[3] = "date" /\ TypeOrder[4] = "boolean"
  BY DEF TypeOrder
<1>. HIDE DEF count
<1>7. counts = {count("numeric"), 0}
  BY <1>5, <1>6
<1>8. best = count("numeric")
  BY <1>4, <1>7 DEF Max
<1>9. places = {1}
  BY <1>4, <1>5, <1>6, <1>8
<1>10. Min(places) = 1
  BY <1>9 DEF Min
<1>11. Filled(sheet, c) # {}
  BY DEF IsNumeric
<1>12. InferColumnType(sheet, c) = TypeOrder[Min(places)]
  BY <1>11 DEF InferColumnType, count
<1>. QED  BY <1>6, <1>10, <1>12

LEMMA StatisticsOfASheet ==
    ASSUME NEW width \in Nat, NEW sheet, IsSheet(sheet, width)
    PROVE  StatisticsAgree(sheet)
<1>. SUFFICES ASSUME NEW s \in SummaryStatistics(sheet)
              PROVE  \E c \in Columns(sheet) :
                        /\ s.name = Name(sheet, c)
                        /\ AnalyzeColumn(sheet, c).type = "numeric"
                        /\ s.sum = "series" \/ AnalyzeColumn(sheet, c).nonNull = s.count
  BY DEF StatisticsAgree
<1>1. PICK c \in Columns(sheet) :
        /\ IsNumeric(sheet, c)
        /\ s = IF Selected(sheet, c) = {c} THEN Statistics(sheet, c)
               ELSE StatisticsOfMany(sheet, c)
  BY DEF SummaryStatistics
<1>2. AnalyzeColumn(sheet, c).type = "numeric"
  BY <1>1, NumbersDecide DEF AnalyzeColumn
<1>3. AnalyzeColumn(sheet, c).nonNull = Cardinality(Numeric(sheet, c))
  BY <1>1 DEF AnalyzeColumn, IsNumeric
<1>4. CASE s = Statistics(sheet, c)
  BY <1>2, <1>3, <1>4 DEF Statistics
<1>5. CASE s = StatisticsOfMany(sheet, c)
  BY <1>2, <1>5 DEF StatisticsOfMany
<1>. QED  BY <1>1, <1>4, <1>5
----------------------------------------------------------------------------
(* Chunks of columns.  The k-th is that of the k-th column which is the    *)
(* first of its purpose: such columns are numbered without a gap.          *)

Group(sheet, c) == {d \in Columns(sheet) : Purpose(sheet, d) = Purpose(sheet, c)}
FirstColumns(sheet) == {c \in Columns(sheet) : \A d \in Group(sheet, c) : c <= d}
Place(S, c) == Cardinality({d \in S : d <= c})

\* A set of columns has a first one.
LEMMA FirstOfColumns ==
    ASSUME NEW n \in Nat, NEW I, I \subseteq 1 .. n, I # {}
    PROVE  \E i \in I : \A k \in I : i <= k
<1>. DEFINE T == {1 .. i : i \in I}
<1>1. PICK t \in T : \A u \in T : <<u, t>> \notin StrictSubsetOrdering(1 .. n)
  <2>1. T \subseteq FiniteSubsetsOf(1 .. n)
    <3>1. ASSUME NEW i \in I PROVE 1 .. i \in FiniteSubsetsOf(1 .. n)
      <4>1. i \in Int /\ 1 .. i \subseteq 1 .. n
        OBVIOUS
      <4>2. IsFiniteSet(1 .. i)
        BY <4>1, FS_Interval
      <4>. QED  BY <4>1, <4>2 DEF FiniteSubsetsOf
    <3>. QED  BY <3>1
  <2>2. T # {}
    OBVIOUS
  <2>. QED  BY <2>1, <2>2, WFMin, FS_StrictSubsetOrderingWellFounded
<1>2. PICK i \in I : t = 1 .. i
  OBVIOUS
<1>3. ASSUME NEW k \in I, k < i PROVE FALSE
  <2>1. 1 .. k \in T /\ 1 .. k \subseteq 1 .. i /\ 1 .. i \subseteq 1 .. n
    BY <1>3
  <2>2. i \in 1 .. i /\ i \notin 1 .. k
    BY <1>3
  <2>3. <<1 .. k, t>> \in StrictSubsetOrdering(1 .. n)
    BY <1>2, <2>1, <2>2 DEF StrictSubsetOrdering
  <2>. QED  BY <1>1, <2>1, <2>3
<1>. QED  BY <1>2, <1>3

\* The places of a set of columns are the numbers up to its size, one each.
LEMMA PlacesAreAll ==
    ASSUME NEW n \in Nat, NEW S, S \subseteq 1 .. n
    PROVE  /\ Cardinality(S) \in Nat
           /\ \A c \in S : Place(S, c) \in 1 .. Cardinality(S)
           /\ \A c, d \in S : Place(S, c) = Place(S, d) => c = d
           /\ \A k \in 1 .. Cardinality(S) : \E c \in S : Place(S, c) = k
<1>. DEFINE upTo(c) == {d \in S : d <= c}
            f == [c \in S |-> Place(S, c)]
<1>1. IsFiniteSet(S) /\ Cardinality(S) \in Nat
  <2>1. IsFiniteSet(1 .. n)
    BY FS_Interval
  <2>. QED  BY <2>1, FS_Subset, FS_CardinalityType
<1>2. ASSUME NEW c \in S
      PROVE  /\ IsFiniteSet(upTo(c)) /\ Place(S, c) = Cardinality(upTo(c))
             /\ Place(S, c) \in 1 .. Cardinality(S)
  <2>1. upTo(c) \subseteq S /\ c \in upTo(c)
    OBVIOUS
  <2>2. IsFiniteSet(upTo(c)) /\ Cardinality(upTo(c)) <= Cardinality(S)
    BY <1>1, <2>1, FS_Subset
  <2>3. Cardinality(upTo(c)) \in Nat /\ Cardinality(upTo(c)) # 0
    BY <2>1, <2>2, FS_CardinalityType, FS_EmptySet
  <2>. QED  BY <1>1, <2>2, <2>3 DEF Place
<1>3. ASSUME NEW c \in S, NEW d \in S, c < d
      PROVE  Place(S, c) # Place(S, d)
  <2>1. upTo(c) \subseteq upTo(d) /\ d \in upTo(d) /\ d \notin upTo(c)
    <3>1. ASSUME NEW e \in S, e <= c PROVE e <= d
      <4>1. e \in Int /\ c \in Int /\ d \in Int
        OBVIOUS
      <4>. QED  BY <1>3, <3>1, <4>1
    <3>2. c \in Int /\ d \in Int
      OBVIOUS
    <3>3. upTo(c) \subseteq upTo(d)
      BY <3>1
    <3>4. d \in upTo(d) /\ d \notin upTo(c)
      BY <1>3, <3>2
    <3>. QED  BY <3>3, <3>4
  <2>2. Cardinality(upTo(c)) # Cardinality(upTo(d))
    BY <1>2, <2>1, FS_Subset
  <2>. QED  BY <1>2, <2>2
<1>4. \A c, d \in S : Place(S, c) = Place(S, d) => c = d
  <2>1. \A c, d \in S : c < d \/ d < c \/ c = d
    OBVIOUS
  <2>. QED  BY <1>3, <2>1
<1>5. f \in Injection(S, 1 .. Cardinality(S))
  BY <1>2, <1>4 DEF Injection, IsInjective
<1>6. IsFiniteSet(1 .. Cardinality(S)) /\ Cardinality(1 .. Cardinality(S)) = Cardinality(S)
  BY <1>1, FS_Interval
<1>7. f \in Surjection(S, 1 .. Cardinality(S))
  BY <1>5, <1>6, FS_Injection
<1>8. \A k \in 1 .. Cardinality(S) : \E c \in S : Place(S, c) = k
  BY <1>7 DEF Surjection
<1>. QED  BY <1>1, <1>2, <1>4, <1>8

ChunkTypes ==
    {"sheet_overview", "schema", "column_analysis", "formula_analysis", "error_analysis",
     "data_patterns", "statistics"}
Chunks(sheet) == [type : ChunkTypes, sheet : {1}, columns : SUBSET Columns(sheet)]

LEMMA ChunkIs ==
    ASSUME NEW sheet, NEW type \in ChunkTypes, NEW columns \in SUBSET Columns(sheet)
    PROVE  /\ Chunk(type, 1, columns) \in Chunks(sheet)
           /\ Chunk(type, 1, columns).type = type
           /\ Chunk(type, 1, columns).columns = columns
BY DEF Chunk, Chunks

LEMMA ChunksOfColumns ==
    ASSUME NEW width \in Nat, NEW sheet, IsSheet(sheet, width)
    PROVE  /\ ColumnChunks(sheet, 1) \in Seq(Chunks(sheet))
           /\ \A i \in DOMAIN ColumnChunks(sheet, 1) :
                ColumnChunks(sheet, 1)[i].type = "column_analysis"
           /\ \A c \in Columns(sheet) : \E i \in DOMAIN ColumnChunks(sheet, 1) :
                c \in ColumnChunks(sheet, 1)[i].columns
           /\ \A i, k \in DOMAIN ColumnChunks(sheet, 1) :
                \A c \in ColumnChunks(sheet, 1)[i].columns,
                   d \in ColumnChunks(sheet, 1)[k].columns :
                      Purpose(sheet, c) = Purpose(sheet, d) <=> i = k
<1>. DEFINE chunks == ColumnChunks(sheet, 1)
            S == FirstColumns(sheet)
            n == Cardinality(S)
<1>1. Columns(sheet) = 1 .. width
  BY DEF IsSheet, Columns
<1>2. S \subseteq 1 .. width
  BY <1>1 DEF FirstColumns
<1>3. /\ n \in Nat
      /\ \A c \in S : Place(S, c) \in 1 .. n
      /\ \A c, d \in S : Place(S, c) = Place(S, d) => c = d
      /\ \A k \in 1 .. n : \E c \in S : Place(S, c) = k
  BY <1>2, PlacesAreAll
<1>4. chunks = [k \in 1 .. n |->
                  Chunk("column_analysis", 1, Group(sheet, CHOOSE c \in S : Place(S, c) = k))]
  <2>. DEFINE purpose == [c \in Columns(sheet) |-> Purpose(sheet, c)]
              group == [c \in Columns(sheet) |->
                          {d \in Columns(sheet) : purpose[d] = purpose[c]}]
              first == {c \in Columns(sheet) : \A d \in group[c] : c <= d}
              nth(k) == CHOOSE c \in first : Cardinality({d \in first : d <= c}) = k
  <2>1. \A c \in Columns(sheet) : group[c] = Group(sheet, c)
    BY DEF Group
  <2>2. first = S
    BY <2>1 DEF FirstColumns
  <2>3. chunks = [k \in 1 .. Cardinality(first) |->
                    Chunk("column_analysis", 1, group[nth(k)])]
    BY DEF ColumnChunks
  <2>4. \A k : nth(k) = CHOOSE c \in S : Place(S, c) = k
    BY <2>2 DEF Place
  <2>5. \A k \in 1 .. n : (CHOOSE c \in S : Place(S, c) = k) \in Columns(sheet)
    BY <1>1, <1>2, <1>3
  <2>. HIDE DEF group, first, nth
  <2>. QED  BY <2>1, <2>2, <2>3, <2>4, <2>5
<1>5. ASSUME NEW k \in DOMAIN chunks
      PROVE  \E f \in S : /\ chunks[k] = Chunk("column_analysis", 1, Group(sheet, f))
                          /\ Place(S, f) = k
  BY <1>3, <1>4
<1>6. ASSUME NEW f \in S, NEW g \in S, Purpose(sheet, f) = Purpose(sheet, g)
      PROVE  f = g
  BY <1>1, <1>6 DEF FirstColumns, Group
<1>7. chunks \in Seq(Chunks(sheet))
  <2>1. \A f \in S : Chunk("column_analysis", 1, Group(sheet, f)) \in Chunks(sheet)
    <3>1. \A f : Group(sheet, f) \in SUBSET Columns(sheet)
      BY DEF Group
    <3>. QED  BY <3>1, ChunkIs DEF ChunkTypes
  <2>. HIDE DEF chunks
  <2>2. DOMAIN chunks = 1 .. n
    BY <1>4
  <2>4. \A k \in DOMAIN chunks : chunks[k] \in Chunks(sheet)
    BY <1>5, <2>1
  <2>3. chunks \in [1 .. n -> Chunks(sheet)]
    BY <1>4, <2>2, <2>4
  <2>. QED  BY <1>3, <2>3
<1>8. ASSUME NEW c \in Columns(sheet)
      PROVE  \E i \in DOMAIN chunks : c \in chunks[i].columns
  <2>1. PICK f \in Group(sheet, c) : \A d \in Group(sheet, c) : f <= d
    <3>1. c \in Group(sheet, c) /\ Group(sheet, c) \subseteq 1 .. width
      BY <1>1 DEF Group
    <3>. QED  BY <3>1, FirstOfColumns
  <2>2. f \in S /\ c \in Group(sheet, f)
    BY <2>1 DEF FirstColumns, Group
  <2>3. PICK k \in DOMAIN chunks : k = Place(S, f)
    BY <1>3, <1>4, <2>2
  <2>4. chunks[k].columns = Group(sheet, f)
    BY <1>3, <1>5, <2>2, <2>3 DEF Chunk
  <2>. QED  BY <2>2, <2>4
<1>9. ASSUME NEW i \in DOMAIN chunks, NEW k \in DOMAIN chunks,
             NEW c \in chunks[i].columns, NEW d \in chunks[k].columns
      PROVE  Purpose(sheet, c) = Purpose(sheet, d) <=> i = k
  <2>1. PICK f \in S : chunks[i].columns = Group(sheet, f) /\ Place(S, f) = i
    BY <1>5 DEF Chunk
  <2>2. PICK g \in S : chunks[k].columns = Group(sheet, g) /\ Place(S, g) = k
    BY <1>5 DEF Chunk
  <2>3. Purpose(sheet, c) = Purpose(sheet, f) /\ Purpose(sheet, d) = Purpose(sheet, g)
    BY <1>9, <2>1, <2>2 DEF Group
  <2>. QED  BY <1>3, <1>6, <2>1, <2>2, <2>3
<1>10. \A i \in DOMAIN chunks : chunks[i].type = "column_analysis"
  BY <1>5 DEF Chunk
<1>. HIDE DEF chunks
<1>11. QED
  <2>1. /\ chunks \in Seq(Chunks(sheet))
        /\ \A i \in DOMAIN chunks : chunks[i].type = "column_analysis"
        /\ \A c \in Columns(sheet) : \E i \in DOMAIN chunks : c \in chunks[i].columns
        /\ \A i, k \in DOMAIN chunks : \A c \in chunks[i].columns, d \in chunks[k].columns :
              Purpose(sheet, c) = Purpose(sheet, d) <=> i = k
    BY <1>7, <1>8, <1>9, <1>10
  <2>. QED  BY <2>1 DEF chunks

LEMMA Behind ==
    ASSUME NEW U, NEW s \in Seq(U), NEW t \in Seq(U)
    PROVE  /\ s \o t \in Seq(U) /\ Len(s \o t) = Len(s) + Len(t)
           /\ \A i \in DOMAIN t : (s \o t)[Len(s) + i] = t[i]
           /\ \A i \in DOMAIN s : (s \o t)[i] = s[i]
OBVIOUS

\* What comes behind the chunks of columns is of other types.
LEMMA ChunksOfASheet ==
    ASSUME NEW width \in Nat, NEW sheet, IsSheet(sheet, width)
    PROVE  OneChunkPerPurpose(sheet)
<1>. DEFINE own == ColumnChunks(sheet, 1)
            n == Len(own)
            chunks == SheetChunks(sheet, 1)
            about == {i \in DOMAIN chunks : chunks[i].type = "column_analysis"}
            s1 == <<Chunk("sheet_overview", 1, {}), Chunk("schema", 1, Columns(sheet))>>
            s2 == s1 \o own
            s3 == s2 \o Optional(Formulas(sheet) # {}, Chunk("formula_analysis", 1, {}))
            s4 == s3 \o Optional(Errors(sheet) # {}, Chunk("error_analysis", 1, {}))
            s5 == s4 \o Optional(HasPatterns(sheet), Chunk("data_patterns", 1, {}))
            s6 == s5 \o Optional(HasStatistics(sheet), Chunk("statistics", 1, {}))
            has(s) == /\ s \in Seq(Chunks(sheet)) /\ n + 2 <= Len(s)
                      /\ {i \in DOMAIN s : s[i].type = "column_analysis"} = 3 .. n + 2
                      /\ \A i \in 3 .. n + 2 : s[i] = own[i - 2]
<1>1. /\ own \in Seq(Chunks(sheet)) /\ n \in Nat
      /\ \A i \in DOMAIN own : own[i].type = "column_analysis"
      /\ \A c \in Columns(sheet) : \E i \in DOMAIN own : c \in own[i].columns
      /\ \A i, k \in DOMAIN own : \A c \in own[i].columns, d \in own[k].columns :
            Purpose(sheet, c) = Purpose(sheet, d) <=> i = k
  BY ChunksOfColumns
<1>2. chunks = s6
  BY DEF SheetChunks
<1>. HIDE DEF own
<1>3. has(s2)
  <2>1. /\ s1 \in Seq(Chunks(sheet)) /\ Len(s1) = 2
        /\ s1[1].type = "sheet_overview" /\ s1[2].type = "schema"
    <3>1. /\ Chunk("sheet_overview", 1, {}) \in Chunks(sheet)
          /\ Chunk("sheet_overview", 1, {}).type = "sheet_overview"
          /\ Chunk("schema", 1, Columns(sheet)) \in Chunks(sheet)
          /\ Chunk("schema", 1, Columns(sheet)).type = "schema"
      BY ChunkIs DEF ChunkTypes
    <3>. QED  BY <3>1
  <2>. HIDE DEF s1
  <2>0. own \in Seq(Chunks(sheet)) /\ n \in Nat
    BY <1>1
  <2>2. s2 \in Seq(Chunks(sheet)) /\ Len(s2) = n + 2
    <3>1. s2 \in Seq(Chunks(sheet)) /\ Len(s2) = Len(s1) + n
      BY <2>0, <2>1, Behind
    <3>. HIDE DEF s2, n
    <3>. QED  BY <2>0, <2>1, <3>1
  <2>3. /\ \A i \in 3 .. n + 2 : i - 2 \in DOMAIN own /\ s2[i] = own[i - 2]
        /\ s2[1] = s1[1] /\ s2[2] = s1[2]
    <3>1. /\ \A i \in DOMAIN own : s2[Len(s1) + i] = own[i]
          /\ \A i \in DOMAIN s1 : s2[i] = s1[i]
      <4>1. s1 \in Seq(Chunks(sheet)) /\ own \in Seq(Chunks(sheet))
        BY <2>0, <2>1
      <4>. QED  BY <4>1, Behind
    <3>2. DOMAIN own = 1 .. n /\ DOMAIN s1 = 1 .. 2
      BY <2>0, <2>1
    <3>. HIDE DEF s2, n
    <3>3. ASSUME NEW i \in 3 .. n + 2
          PROVE  i - 2 \in DOMAIN own /\ s2[i] = own[i - 2]
      <4>1. i - 2 \in 1 .. n /\ 2 + (i - 2) = i
        BY <2>0
      <4>. QED  BY <2>1, <3>1, <3>2, <4>1
    <3>. QED  BY <3>1, <3>2, <3>3
  <2>4. \A i \in DOMAIN s2 : i = 1 \/ i = 2 \/ i \in 3 .. n + 2
    BY <1>1, <2>2
  <2>5. 3 .. n + 2 \subseteq DOMAIN s2
    BY <1>1, <2>2
  <2>. HIDE DEF s2
  <2>6. {i \in DOMAIN s2 : s2[i].type = "column_analysis"} = 3 .. n + 2
    BY <1>1, <2>1, <2>3, <2>4, <2>5
  <2>. QED  BY <1>1, <2>2, <2>3, <2>6
<1>4. ASSUME NEW s, has(s), NEW type \in ChunkTypes, type # "column_analysis",
             NEW t \in {<<>>, <<Chunk(type, 1, {})>>}
      PROVE  has(s \o t)
  <2>1. Chunk(type, 1, {}) \in Chunks(sheet) /\ Chunk(type, 1, {}).type = type
    BY ChunkIs
  <2>2. CASE t = <<>>
    BY <1>4, <2>2
  <2>3. CASE t = <<Chunk(type, 1, {})>>
    BY <1>1, <1>4, <2>1, <2>3
  <2>. QED  BY <2>2, <2>3
<1>5. \A present, k : Optional(present, k) \in {<<>>, <<k>>}
  BY DEF Optional
<1>. HIDE DEF has, s2
<1>6. has(s3)
  BY <1>3, <1>4, <1>5 DEF ChunkTypes
<1>. HIDE DEF s3
<1>7. has(s4)
  BY <1>4, <1>5, <1>6 DEF ChunkTypes
<1>. HIDE DEF s4
<1>8. has(s5)
  BY <1>4, <1>5, <1>7 DEF ChunkTypes
<1>. HIDE DEF s5
<1>9. has(chunks)
  BY <1>2, <1>4, <1>5, <1>8 DEF ChunkTypes
<1>. USE DEF has
<1>. HIDE DEF chunks
<1>10. about = 3 .. n + 2 /\ \A i \in about : i - 2 \in DOMAIN own /\ chunks[i] = own[i - 2]
  BY <1>1, <1>9
<1>. HIDE DEF about
<1>11. \A i, k \in about : \A c \in chunks[i].columns, d \in chunks[k].columns :
          Purpose(sheet, c) = Purpose(sheet, d) <=> i = k
  BY <1>1, <1>10
<1>12. ASSUME NEW c \in Columns(sheet)
       PROVE  Cardinality({i \in about : c \in chunks[i].columns}) = 1
  <2>1. PICK k \in DOMAIN own : c \in own[k].columns
    BY <1>1
  <2>2. k + 2 \in about /\ c \in chunks[k + 2].columns
    BY <1>1, <1>10, <2>1
  <2>3. {i \in about : c \in chunks[i].columns} = {k + 2}
    BY <1>11, <2>2
  <2>. QED  BY <2>3, FS_Singleton
<1>13. \A i \in about : chunks[i].columns \subseteq Columns(sheet)
  <2>1. \A k \in DOMAIN own : own[k] \in Chunks(sheet)
    BY <1>1
  <2>. QED  BY <1>10, <2>1 DEF Chunks
<1>. QED  BY <1>11, <1>12, <1>13 DEF OneChunkPerPurpose, chunks, about

----------------------------------------------------------------------------

\* However a sheet is laid out and wherever it begins, each of its rows below
\* the first is in one region: _detect_data_regions finds header, totals and
\* data separately, each by conditions of its own.
THEOREM RowsAreParted == SheetSpec => []Regions
<1>1. (\E width \in Nat : IsSheet(worksheet, width)) => Regions
  BY RegionsOfASheet DEF Regions
<1>. QED  BY <1>1, SheetsGrow, PTL

\* Of a sheet of any size, statistics are of columns that the analysis found to
\* be of numbers, and about all of them (_calculate_summary_statistics works on
\* a data frame of its own), and every column is in one chunk, together with all
\* of its purpose and no other (_create_column_chunks).
THEOREM ColumnsAreSaidAlike == SheetSpec => []ColumnsAgree
<1>1. (\E width \in Nat : IsSheet(worksheet, width)) => ColumnsAgree
  BY StatisticsOfASheet, ChunksOfASheet DEF ColumnsAgree
<1>. QED  BY <1>1, SheetsGrow, PTL
============================================================================
