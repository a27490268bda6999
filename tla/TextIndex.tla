--------------------------------- MODULE TextIndex ---------------------------------
(***************************************************************************)
(* The full-text index of yt-engine (bm25.rs, bm25_disk.rs): a base read   *)
(* from the cache file, and a delta of what was indexed since; the writer  *)
(* that feeds, saves, clears and loads it under write_lock; and threads    *)
(* that search it.  A search takes the state's lock several times: for     *)
(* the counts, for the terms, for each batch of blocks, and to store its   *)
(* answer in the query cache; equal searches wait for the first of them.   *)
(*                                                                         *)
(* Events carry their text as logs, so that a span's folded text is the    *)
(* texts of its events; a document is a span, a number in the order of     *)
(* (trace, span).  The epochs, which a search compares with those it saw,  *)
(* are kept as its flags "no change since".  ln and the division of the    *)
(* length norm are replaced by integer functions that grow the same way.   *)
(* Left out: the cache of posting blocks (their file never changes) and    *)
(* the eviction of the query cache (an entry less is a search more).       *)
(***************************************************************************)
EXTENDS Tokenizer

CONSTANTS Doc, Text,       \* Doc[e], Text[e]: the span and the text of event e
          Keys,            \* the searches: <<query, k>>
          Filtered,        \* those of allowed documents only: <<query, k, documents>>
          Stored,          \* the events of the store when it is opened
          Threads,
          Modes,           \* the tokenizers: "word", "bigram"
          BlockSize, Batch,
          MaxVersion       \* bound: manifest versions

Events == DOMAIN Doc
Docs == {Doc[e] : e \in Events}

ASSUME TextIndexConstants ==
  /\ Docs \subseteq Nat /\ DOMAIN Text = Events /\ Stored \subseteq Events /\ Modes \subseteq {"word", "bigram"}
  /\ \A s \in Keys \cup Filtered : s[2] \in Nat \ {0}
  /\ BlockSize \in Nat \ {0} /\ Batch \in Nat \ {0}

VARIABLES mode,     \* the tokenizer the index was built with
          ix,       \* Bm25State: base, delta, counts
          cache,    \* the query cache: key |-> hits
          inflight, \* searches being computed, <<query, k>>
          th,       \* the searching threads
          file,     \* the cache file
          store,    \* what the engine holds: events, those in segments, version
          todo      \* what the holder of write_lock has yet to do to the index
vars == <<mode, ix, cache, inflight, th, file, store, todo>>
-----------------------------------------------------------------------------
(* Terms, and counts of terms: functions from terms or documents to Nat.  *)
(* A function with `@@ <<>>' is the same one, which TLC computes once.    *)
TermsOf == [m \in Modes |-> [s \in {Text[e] : e \in Events} \cup {a[1] : a \in Keys \cup Filtered} |->
                           Tokenize(m, s)] @@ <<>>] @@ <<>>
Terms(s) == TermsOf[mode][s]

At(f, x) == IF x \in DOMAIN f THEN f[x] ELSE 0
Plus(f, g) ==
  [x \in DOMAIN f \cap DOMAIN g |-> f[x] + g[x]] @@ f @@ g
SumOf(f) == FoldFunction(+, 0, f)
Counts(terms) ==
  [w \in ToSet(terms) |-> Cardinality({i \in DOMAIN terms : terms[i] = w})]

(* A list of postings for each term: document |-> term frequency.  This is  *)
(* merge_sorted_postings, on lists and on tables of lists.                  *)
List(table, w) == IF w \in DOMAIN table THEN table[w] ELSE <<>>
Merge(table, more) ==
  [w \in DOMAIN table \cap DOMAIN more |-> Plus(table[w], more[w])] @@ table @@ more

NoDisk == [present |-> FALSE, docs |-> <<>>, events |-> {}, postings |-> <<>>]
EmptyIndex == [disk |-> NoDisk, postings |-> <<>>, docLen |-> <<>>, total |-> 0,
               seen |-> {}]

DocCount(x) == Cardinality(DOMAIN x.disk.docs \cup DOMAIN x.docLen)
HasEvent(x, e) == e \in x.seen \/ e \in x.disk.events
PostingsFor(x, w) ==
  Plus(List(x.disk.postings, w), List(x.postings, w))
CleanDisk(x) ==
  x.docLen = <<>> /\ x.postings = <<>> /\ x.disk.present
-----------------------------------------------------------------------------
(* Scores *)
Idf(n, df) == (100 * (2 * n + 1 - 2 * df)) \div (2 * n + 2)
Norm(tf, dl, n, total) == (2000 * tf * total) \div (8 * tf * total + 3 * total + 9 * dl * n)
NormBound == 250

Better(a, b) == a.score > b.score \/ (a.score = b.score /\ a.doc < b.doc)
Worst(heap) == CHOOSE a \in heap : \A b \in heap \ {a} : Better(b, a)
Ranked(heap) == SetToSortSeq(heap, Better)

PushTopK(heap, k, hit) ==
  IF Cardinality(heap) < k THEN heap \cup {hit}
  ELSE IF Better(hit, Worst(heap)) THEN (heap \ {Worst(heap)}) \cup {hit}
  ELSE heap

CannotEnter(heap, k, upper, first) ==
  /\ Cardinality(heap) >= k
  /\ \/ upper < Worst(heap).score
     \/ upper = Worst(heap).score /\ first > Worst(heap).doc

QueryTerms(q) == ToSet(Terms(q))
Weighted(list, lens, n, total) ==
  [d \in DOMAIN list |-> Idf(n, Cardinality(DOMAIN list)) * Norm(list[d], lens[d], n, total)]
Scores(table, lens, n, total) ==
  FoldFunction(LAMBDA list, sum : Plus(Weighted(list, lens, n, total), sum), <<>>, table)

(* search_exact_for_eval: every posting of every term of the query *)
Exact(x, q, k, allow) ==
  LET table == [w \in QueryTerms(q) |-> PostingsFor(x, w)]
      scores == Scores(table, Plus(x.disk.docs, x.docLen), DocCount(x), x.total)
      hits == {[doc |-> d, score |-> scores[d]] : d \in DOMAIN scores \cap allow}
  IN Ranked({a \in hits : Cardinality({b \in hits : Better(b, a)}) < k})
-----------------------------------------------------------------------------
(* Blocks of a list of postings, in the order of documents *)
Blocks(list) ==
  LET ds == SetToSortSeq(DOMAIN list, <) IN
  [b \in 1..((Len(ds) + BlockSize - 1) \div BlockSize) |->
     SubSeq(ds, (b - 1) * BlockSize + 1, IF b * BlockSize < Len(ds) THEN b * BlockSize ELSE Len(ds))]

MaxOf(S) == CHOOSE x \in S : \A y \in S : x >= y
MinOf(S) == CHOOSE x \in S : \A y \in S : x <= y

(* In memory the bound of a block is that of its greatest frequency in its  *)
(* shortest document; in the file it is the greatest norm in the block.     *)
BlockBound(list, lens, block, n, total) ==
  Norm(MaxOf({list[d] : d \in ToSet(block)}), MinOf({lens[d] : d \in ToSet(block)}), n, total)

DiskBlockBound(list, lens, block, n, total) ==
  MaxOf({Norm(list[d], lens[d], n, total) : d \in ToSet(block)})

(* One term: skip the blocks whose bound is below the k-th score. *)
SearchOne(list, lens, n, total, k, allow) ==
  LET idf == Idf(n, Cardinality(DOMAIN list))
      scores == Scores([one \in {1} |-> list], lens, n, total)
      step(heap, block) ==
        IF Cardinality(heap) >= k
           /\ idf * BlockBound(list, lens, block, n, total) < Worst(heap).score
        THEN heap
        ELSE FoldLeft(LAMBDA h, d : PushTopK(h, k, [doc |-> d, score |-> scores[d]]),
                      heap, SelectSeq(block, LAMBDA d : d \in allow))
  IN FoldLeft(step, {}, Blocks(list))

(* Several terms: a cursor per term, each on its next document.  The pivot  *)
(* is the first document, in document order, at which the bounds of the     *)
(* terms so far can reach the k-th score.                                   *)
WandStep(s, bound, scores, k, allow) ==
  LET open == {w \in DOMAIN s.left : s.left[w] # {}}
      at == [w \in open |-> MinOf(s.left[w])] @@ <<>>
      upTo(d) == SumOf([w \in {v \in open : at[v] <= d} |-> bound[w]])
      reach == {d \in Range(at) : Cardinality(s.heap) < k \/ upTo(d) >= Worst(s.heap).score}
  IN IF reach = {} THEN [s EXCEPT !.done = TRUE]
     ELSE LET pivot == MinOf(reach)
              first == MinOf(Range(at))
          IN IF first = pivot
             THEN [s EXCEPT !.heap = IF pivot \notin allow THEN @
                                     ELSE PushTopK(@, k, [doc |-> pivot, score |-> scores[pivot]]),
                            !.left = [w \in DOMAIN @ |-> @[w] \ {pivot}]]
             ELSE [s EXCEPT !.left =
                     LET w == CHOOSE v \in open : at[v] = first
                     IN [@ EXCEPT ![w] = {d \in @ : d >= pivot}]]

Wand(table, lens, n, total, k, allow) ==
  LET bound == [w \in DOMAIN table |-> Idf(n, Cardinality(DOMAIN table[w])) * NormBound] @@ <<>>
      scores == Scores(table, lens, n, total)
      steps == SumOf([w \in DOMAIN table |-> Cardinality(DOMAIN table[w])]) + 1
  IN FoldLeft(LAMBDA s, i : IF s.done THEN s ELSE WandStep(s, bound, scores, k, allow),
              [left |-> [w \in DOMAIN table |-> DOMAIN table[w]], heap |-> {}, done |-> FALSE],
              [i \in 1..steps |-> i]).heap

(* search_filtered, from the second lock on; n and total are from the first *)
SearchAll(x, q, k, allow, n, total) ==
  LET known == {w \in QueryTerms(q) : PostingsFor(x, w) # <<>>}
      table == [w \in known |-> PostingsFor(x, w)] @@ <<>>
      lens == Plus(x.disk.docs, x.docLen)
  IN IF known = {} THEN {}
     ELSE IF Cardinality(known) = 1
     THEN SearchOne(table[CHOOSE w \in known : TRUE], lens, n, total, k, allow)
     ELSE Wand(table, lens, n, total, k, allow)
-----------------------------------------------------------------------------
(* disk_query_terms, and the order in which blocks are visited: the best    *)
(* bound first, then the smallest document.  Terms whose blocks do not      *)
(* cover the same documents have no such order.                             *)
DiskTerms(disk, q) == {w \in QueryTerms(q) : w \in DOMAIN disk.postings}
Ranges(list) == [b \in DOMAIN Blocks(list) |-> <<Head(Blocks(list)[b]), Last(Blocks(list)[b])>>]
SameLayout(disk, q) ==
  \A v, w \in DiskTerms(disk, q) : Ranges(disk.postings[v]) = Ranges(disk.postings[w])

BlockOrder(disk, q, n, total) ==
  LET ws == DiskTerms(disk, q)
      ranges == Ranges(disk.postings[CHOOSE w \in ws : TRUE])
      upper(b) == SumOf([w \in ws |->
        Idf(n, Cardinality(DOMAIN disk.postings[w]))
          * DiskBlockBound(disk.postings[w], disk.docs, Blocks(disk.postings[w])[b], n, total)])
      all == {[block |-> b, upper |-> upper(b), first |-> ranges[b][1]] : b \in DOMAIN ranges}
  IN SetToSortSeq(all, LAMBDA a, b : a.upper > b.upper \/ (a.upper = b.upper /\ a.first < b.first))

(* One batch of blocks, read from disk; stop at the first that cannot enter *)
(* any more.  Lengths and weights are those of the base chosen at first.    *)
ScoreBatch(disk, base, q, k, allow, n, total, heap, batch) ==
  LET table == Restrict(disk.postings, DiskTerms(base, q))
      scores == Scores(table, base.docs, n, total)
      docs(b) == UNION {ToSet(Blocks(list)[b.block]) : list \in Range(table)} \cap allow
      push(h, d) == PushTopK(h, k, [doc |-> d, score |-> scores[d]])
      step(s, b) ==
        IF s.stop \/ CannotEnter(s.heap, k, b.upper, b.first) THEN [s EXCEPT !.stop = TRUE]
        ELSE [s EXCEPT !.heap = FoldLeft(push, @, SetToSortSeq(docs(b), <))]
  IN FoldLeft(step, [heap |-> heap, stop |-> FALSE], batch).heap
-----------------------------------------------------------------------------
(* Updates of the index, each under the lock *)
Counted(x, d, terms) ==
  [x EXCEPT !.total = @ + Len(terms),
            !.docLen = Plus(@, d :> Len(terms)),
            !.postings = Merge(@, [w \in ToSet(terms) |-> d :> Counts(terms)[w]])]

(* An event that the base or the delta knows is not marked again. *)
MarkEvents(x, S) == [x EXCEPT !.seen = @ \cup {e \in S : ~HasEvent(x, e)}]

(* index_event: a known event, or one without terms, adds nothing. *)
Adds(x, e) == ~HasEvent(x, e) /\ Terms(Text[e]) # <<>>
IndexEvent(x, e) == Counted(MarkEvents(x, {e}), Doc[e], Terms(Text[e]))

(* index_text of a folded span: the texts of its events, separated *)
SpanTerms(d) ==
  FlattenSeq([i \in 1..Cardinality({e \in store.events : Doc[e] = d}) |->
    Terms(Text[SetToSortSeq({e \in store.events : Doc[e] = d}, <)[i]])])
IndexSpan(x, d) == IF SpanTerms(d) = <<>> THEN x ELSE Counted(x, d, SpanTerms(d))

(* save_cache writes base and delta as one, and keeps both as they are.     *)
Saved(x, version) ==
  [version |-> version, total |-> x.total,
   docs |-> Plus(x.disk.docs, x.docLen), events |-> x.disk.events \cup x.seen,
   postings |-> Merge(x.disk.postings, x.postings)]

(* What another process, or an earlier one, holds and saves *)
Indexed(S) ==
  LET add(x, e) == IF Adds(x, e) THEN IndexEvent(x, e) ELSE MarkEvents(x, {e})
      first[n \in 0..Cardinality(S)] ==
        IF n = 0 THEN EmptyIndex ELSE add(first[n - 1], SetToSortSeq(S, <)[n])
  IN first[Cardinality(S)]
-----------------------------------------------------------------------------
Idle == [pc |-> "idle", key |-> <<>>, allow |-> {}, shared |-> FALSE, n |-> 0, total |-> 0,
         order |-> <<>>, started |-> FALSE, heap |-> {}, hits |-> <<>>,
         base |-> NoDisk,
         sameDisk |-> FALSE, sameQuery |-> FALSE, pure |-> FALSE]

Query(t) == th[t].key[1]
K(t) == th[t].key[2]

Init ==
  /\ mode \in Modes
  /\ ix = EmptyIndex
  /\ cache = <<>> /\ inflight = {}
  /\ th = [t \in Threads |-> Idle]
  /\ file \in {Saved(EmptyIndex, 0), Saved(Indexed(Stored), 1)}
  /\ store = [events |-> Stored, flushed |-> Stored, version |-> 1, dirty |-> FALSE, stale |-> TRUE]
  /\ todo = <<>>

(* What an update of the index does to the searches under way *)
Changed(newDisk) ==
  [t \in Threads |-> [th[t] EXCEPT !.sameQuery = FALSE, !.pure = FALSE,
                                   !.sameDisk = @ /\ ~newDisk]]
-----------------------------------------------------------------------------
(* search: a thread whose key is being computed waits; otherwise it takes   *)
(* the cached answer, or computes one for itself and for those who wait.    *)
Enter(t, key) ==
  \/ /\ key \in inflight
     /\ th' = [th EXCEPT ![t] = [Idle EXCEPT !.pc = "waiting", !.key = key]]
     /\ UNCHANGED <<cache, inflight>>
  \/ /\ key \notin inflight /\ key \in DOMAIN cache
     /\ th' = [th EXCEPT ![t] = Idle]
     /\ UNCHANGED <<cache, inflight>>
  \/ /\ key \notin inflight /\ key \notin DOMAIN cache
     /\ inflight' = inflight \cup {key}
     /\ th' = [th EXCEPT ![t] = [Idle EXCEPT !.pc = "count", !.key = key, !.allow = Docs,
                                             !.shared = TRUE, !.sameQuery = TRUE]]
     /\ UNCHANGED cache

Search(t) ==
  /\ th[t].pc = "idle" /\ ~store.stale
  /\ \E key \in Keys : Enter(t, key)
  /\ UNCHANGED <<mode, ix, file, store, todo>>

Woken(t) ==
  /\ th[t].pc = "enter"
  /\ Enter(t, th[t].key)
  /\ UNCHANGED <<mode, ix, file, store, todo>>

SearchFiltered(t) ==
  /\ th[t].pc = "idle" /\ ~store.stale
  /\ \E f \in Filtered :
       th' = [th EXCEPT ![t] = [Idle EXCEPT !.pc = "count", !.key = <<f[1], f[2]>>, !.allow = f[3]]]
  /\ UNCHANGED <<mode, ix, cache, inflight, file, store, todo>>

Answer(t, heap) ==
  th' = [th EXCEPT ![t].pc = IF th[t].shared THEN "store" ELSE "answered",
                   ![t].hits = Ranked(heap), ![t].heap = {}, ![t].order = <<>>,
                   ![t].started = FALSE, ![t].sameDisk = FALSE]

(* The first lock: the counts, and whether the base is all there is. *)
Count(t) ==
  /\ th[t].pc = "count"
  /\ th' = [th EXCEPT ![t].n = DocCount(ix), ![t].total = ix.total, ![t].pure = TRUE,
                      ![t].pc = IF DocCount(ix) = 0
                                THEN IF th[t].shared THEN "store" ELSE "answered"
                                ELSE IF CleanDisk(ix) THEN "terms" ELSE "score"]
  /\ UNCHANGED <<mode, ix, cache, inflight, file, store, todo>>

(* search_disk_block_max, its first lock.  The base may have gone, or be    *)
(* another one, since the counts.                                           *)
LookUpTerms(t) ==
  /\ th[t].pc = "terms"
  /\ LET q == Query(t) IN
     \/ /\ ix.disk.present /\ DiskTerms(ix.disk, q) = {}
        /\ Answer(t, {})
     \/ /\ ix.disk.present /\ DiskTerms(ix.disk, q) # {} /\ SameLayout(ix.disk, q)
        /\ th' = [th EXCEPT ![t].pc = "blocks", ![t].sameDisk = TRUE, ![t].base = ix.disk,
                            ![t].order = BlockOrder(ix.disk, q, th[t].n, th[t].total)]
     \/ /\ ~ix.disk.present \/ ~SameLayout(ix.disk, q)
        /\ th' = [th EXCEPT ![t].pc = "score"]
  /\ UNCHANGED <<mode, ix, cache, inflight, file, store, todo>>

(* A batch: the first block alone, to have a threshold early; of it the     *)
(* blocks before the first that cannot enter.                               *)
BatchSize(t) == IF th[t].started THEN Batch ELSE 1
NextBatch(t) ==
  LET left == th[t].order
      batch == SubSeq(left, 1, IF BatchSize(t) < Len(left) THEN BatchSize(t) ELSE Len(left))
      late == {i \in DOMAIN batch : CannotEnter(th[t].heap, K(t), batch[i].upper, batch[i].first)}
  IN IF late = {} THEN batch ELSE SubSeq(batch, 1, MinOf(late) - 1)

MutSameBase(t) ==
  /\ ix.disk.present
  /\ \A w \in DiskTerms(th[t].base, Query(t)) : w \in DOMAIN ix.disk.postings
  /\ \A w \in DiskTerms(th[t].base, Query(t)), i \in DOMAIN th[t].order :
       /\ th[t].order[i].block \in DOMAIN Blocks(ix.disk.postings[w])
       /\ DOMAIN ix.disk.postings[w] \subseteq DOMAIN th[t].base.docs

SameBase(t) == th[t].sameDisk

(* The blocks are read under the lock, of the base they were chosen in.     *)
ScoreBlocks(t) ==
  /\ th[t].pc = "blocks"
  /\ \/ /\ NextBatch(t) = <<>>
        /\ Answer(t, th[t].heap)
     \/ /\ NextBatch(t) # <<>> /\ ~SameBase(t)
        /\ th' = [th EXCEPT ![t].pc = "score", ![t].heap = {}, ![t].order = <<>>,
                            ![t].base = NoDisk]
     \/ /\ NextBatch(t) # <<>> /\ SameBase(t)
        /\ th' = [th EXCEPT ![t].started = TRUE,
                    ![t].heap = ScoreBatch(ix.disk, th[t].base, Query(t), K(t), th[t].allow,
                                           th[t].n, th[t].total, @, NextBatch(t)),
                    ![t].order = SubSeq(@, BatchSize(t) + 1, Len(@))]
  /\ UNCHANGED <<mode, ix, cache, inflight, file, store, todo>>

(* The general path: everything under one lock. *)
ScoreAll(t) ==
  /\ th[t].pc = "score"
  /\ Answer(t, SearchAll(ix, Query(t), K(t), th[t].allow, th[t].n, th[t].total))
  /\ UNCHANGED <<mode, ix, cache, inflight, file, store, todo>>

MutStoreAnyway(t) ==
  /\ th[t].pc = "store"
  /\ cache' = (th[t].key :> th[t].hits) @@ cache
  /\ th' = [th EXCEPT ![t].pc = "answered"]
  /\ UNCHANGED <<mode, ix, inflight, file, store, todo>>

Store(t) ==
  /\ th[t].pc = "store"
  /\ cache' = IF th[t].sameQuery THEN (th[t].key :> th[t].hits) @@ cache ELSE cache
  /\ th' = [th EXCEPT ![t].pc = "answered"]
  /\ UNCHANGED <<mode, ix, inflight, file, store, todo>>

MutLeave(t) ==
  /\ th[t].pc = "answered"
  /\ inflight' = IF th[t].shared THEN inflight \ {th[t].key} ELSE inflight
  /\ th' = [th EXCEPT ![t] = Idle]
  /\ UNCHANGED <<mode, ix, cache, file, store, todo>>

(* The guard of the computing thread is dropped: all who wait look again. *)
Leave(t) ==
  /\ th[t].pc = "answered"
  /\ inflight' = IF th[t].shared THEN inflight \ {th[t].key} ELSE inflight
  /\ th' = [u \in Threads |-> IF u = t THEN Idle
                              ELSE IF th[t].shared /\ th[u].pc = "waiting"
                              THEN [th[u] EXCEPT !.pc = "enter"] ELSE th[u]]
  /\ UNCHANGED <<mode, ix, cache, file, store, todo>>
-----------------------------------------------------------------------------
Loaded == [EmptyIndex EXCEPT !.total = file.total,
             !.disk = [present |-> TRUE, docs |-> file.docs, events |-> file.events,
                       postings |-> file.postings]]

(* The holder of write_lock takes its next step.  Only steps that change    *)
(* what a query may find count as changes.                                  *)
WriterStep ==
  /\ todo # <<>>
  /\ todo' = Tail(todo)
  /\ LET op == Head(todo)[1]
         arg == Head(todo)[2]
         update(x, newDisk) == /\ ix' = x
                               /\ cache' = <<>> /\ th' = Changed(newDisk)
                               /\ UNCHANGED <<file, store>>
     IN \/ op = "clear" /\ update(EmptyIndex, TRUE)
        \/ op = "load" /\ update(Loaded, TRUE)
        \/ op = "index" /\ ~Adds(ix, arg) /\ ix' = MarkEvents(ix, {arg})
                        /\ UNCHANGED <<cache, th, file, store>>
        \/ op = "index" /\ Adds(ix, arg) /\ update(IndexEvent(ix, arg), FALSE)
        \/ op = "span" /\ update(IndexSpan(ix, arg), FALSE)
        \/ op = "mark" /\ ix' = MarkEvents(ix, arg) /\ UNCHANGED <<cache, th, file, store>>
        \/ op = "save" /\ file' = Saved(ix, store.version) /\ UNCHANGED <<ix, cache, th, store>>
        \/ op = "stale" /\ store' = [store EXCEPT !.stale = arg] /\ UNCHANGED <<ix, cache, th, file>>
  /\ UNCHANGED <<mode, inflight>>

For(op, S) == [i \in 1..Cardinality(S) |-> <<op, SetToSortSeq(S, <)[i]>>]

MutEnsureAnyFile(st, events) == <<<<"load", 0>>, <<"stale", FALSE>>>>

(* ensure_segment_scan_indexes_current_locked: the cache file, if it is the *)
(* manifest's and no patch makes it out of date, or a scan, which is saved. *)
Ensure(st, events) ==
  IF file.version = st.version /\ ~st.dirty
  THEN <<<<"load", 0>>, <<"stale", FALSE>>>>
  ELSE <<<<"clear", 0>>>> \o For("index", events) \o <<<<"stale", FALSE>>, <<"save", 0>>>>

Unflushed(st) == st.events \ st.flushed
Save == IF store.stale THEN <<>> ELSE <<<<"save", 0>>>>

(* ingest: new events come in order, any earlier one may come again (a retry) *)
Ingest(e) ==
  /\ todo = <<>>
  /\ \A f \in Events : f < e => f \in store.events
  /\ store' = [store EXCEPT !.events = @ \cup {e}]
  /\ todo' = (IF store.stale THEN Ensure(store, store.flushed) ELSE <<>>) \o <<<<"index", e>>>>
  /\ UNCHANGED <<mode, ix, cache, inflight, th, file>>

Commits == todo = <<>> /\ store.version < MaxVersion

(* A flush and a compaction commit a manifest, then save the index if it is *)
(* loaded; the flush that ingest makes at its threshold saves nothing.      *)
Flush ==
  /\ Commits /\ Unflushed(store) # {}
  /\ store' = [store EXCEPT !.flushed = store.events, !.version = @ + 1]
  /\ todo' \in {Save, <<>>}
  /\ UNCHANGED <<mode, ix, cache, inflight, th, file>>

Compact ==
  /\ Commits /\ store.flushed # {}
  /\ store' = [store EXCEPT !.version = @ + 1, !.dirty = FALSE]
  /\ todo' = Save
  /\ UNCHANGED <<mode, ix, cache, inflight, th, file>>

(* commit_upgrade: the text of every span, then the ids of every event, the *)
(* tail's too, so that a late retry is still known.  Searches go on.        *)
Rebuild ==
  /\ Commits /\ store.flushed # {}
  /\ store' = [store EXCEPT !.version = @ + 1, !.dirty = TRUE]
  /\ todo' = <<<<"clear", 0>>>> \o For("span", {Doc[e] : e \in store.events})
               \o <<<<"mark", store.events>>, <<"stale", FALSE>>, <<"save", 0>>>>
  /\ UNCHANGED <<mode, ix, cache, inflight, th, file>>

(* The index is dropped and deferred, unless the log has a tail, which goes *)
(* onto the history.                                                        *)
Reset(st) ==
  <<<<"clear", 0>>, <<"stale", TRUE>>>>
    \o (IF Unflushed(st) = {} THEN <<>>
        ELSE Ensure(st, st.flushed) \o For("index", Unflushed(st)))

(* refresh_from_disk_locked, after another process has ingested and has     *)
(* committed a compaction, or a flush, with or without saving its index.    *)
Refresh ==
  /\ Commits
  /\ \E events \in {store.events} \cup {store.events \cup {e} : e \in Events} :
     \E flushed \in {store.flushed, events} :
       LET st == [store EXCEPT !.events = events, !.flushed = flushed, !.version = @ + 1] IN
       /\ store' = st /\ todo' = Reset(st)
       /\ file' \in {file, Saved(Indexed(events), st.version)}
  /\ UNCHANGED <<mode, ix, cache, inflight, th>>

Restart ==
  /\ todo' = Reset(store)
  /\ ix' = EmptyIndex /\ cache' = <<>> /\ inflight' = {}
  /\ th' = [t \in Threads |-> Idle]
  /\ store' = [store EXCEPT !.stale = TRUE]
  /\ UNCHANGED <<mode, file>>

(* The first search after a reset takes write_lock and fills the index. *)
FirstSearch ==
  /\ todo = <<>> /\ store.stale
  /\ todo' = Ensure(store, store.flushed)
  /\ UNCHANGED <<mode, ix, cache, inflight, th, file, store>>

Next ==
  \/ \E t \in Threads :
       \/ Search(t) \/ SearchFiltered(t) \/ Woken(t) \/ Count(t) \/ LookUpTerms(t)
       \/ ScoreBlocks(t) \/ ScoreAll(t) \/ Store(t) \/ Leave(t)
  \/ WriterStep
  \/ \E e \in Events : Ingest(e)
  \/ Flush \/ Compact \/ Rebuild \/ Refresh \/ Restart \/ FirstSearch

Spec == Init /\ [][Next]_vars
-----------------------------------------------------------------------------
(* What the index ought to hold: the terms of every event once. *)
Ref(S) ==
  LET terms(d) == FlattenSeq([i \in 1..Cardinality({e \in S : Doc[e] = d}) |->
                    Tokenize(mode, Text[SetToSortSeq({e \in S : Doc[e] = d}, <)[i]])])
      docs == {d \in Docs : terms(d) # <<>>}
  IN [lens |-> [d \in docs |-> Len(terms(d))], counts |-> [d \in docs |-> Counts(terms(d))]]

(* Between writes a loaded index counts every event of the store once: in   *)
(* the base or in the delta, after a retry, a rebuild from folded spans, a  *)
(* save with the log's tail in it followed by a replay of that tail, and    *)
(* whatever was saved or not saved before a crash (index_event, save_cache, *)
(* load_cache, rebuild_bm25_from_snapshot).                                 *)
IndexExact ==
  todo = <<>> /\ ~store.stale =>
    LET ref == Ref(store.events)
        all == Merge(ix.disk.postings, ix.postings)
    IN /\ ix.disk.events \cup ix.seen = store.events
       /\ Plus(ix.disk.docs, ix.docLen) = ref.lens
       /\ ix.total = SumOf(ref.lens)
       /\ \A w \in DOMAIN all : \A d \in DOMAIN all[w] : all[w][d] = At(ref.counts[d], w)
       /\ \A d \in DOMAIN ref.counts : \A w \in DOMAIN ref.counts[d] : d \in DOMAIN all[w]

(* A cached answer is the exact answer of the index as it is now, however   *)
(* the search that computed it ran against updates, resets and loads        *)
(* (query_epoch).                                                           *)
CacheFresh ==
  \A key \in DOMAIN cache : cache[key] = Exact(ix, key[1], key[2], Docs)

(* Pruning changes no answer: a search during which the index stood still   *)
(* returns what scoring every posting returns; and a search by blocks whose *)
(* counts were those of its base returns the exact answer of that base,     *)
(* although the index may have moved on meanwhile (block-max, WAND,         *)
(* disk_epoch).                                                             *)
SearchExact ==
  \A t \in Threads : th[t].pc \in {"store", "answered"} =>
    /\ th[t].pure => th[t].hits = Exact(ix, Query(t), K(t), th[t].allow)
    /\ LET base == [EmptyIndex EXCEPT !.disk = th[t].base, !.total = SumOf(th[t].base.docs)] IN
       base.disk.present /\ th[t].n = DocCount(base) /\ th[t].total = base.total =>
         th[t].hits = Exact(base, Query(t), K(t), th[t].allow)

(* No search waits for nobody: the one it waits for is under way, and wakes *)
(* it when it leaves (query_inflight, query_ready).                         *)
WaiterHasOwner ==
  /\ \A t \in Threads : th[t].pc = "waiting" => th[t].key \in inflight
  /\ \A key \in inflight : Cardinality({t \in Threads : th[t].key = key /\ th[t].shared
         /\ th[t].pc \in {"count", "terms", "blocks", "score", "store", "answered"}}) = 1

(* The default tokenizer cuts a run into pieces that make up the run, and   *)
(* no other cut at dictionary words or single characters is more probable   *)
(* (ChineseTokenizer::cut).                                                 *)
CutIsBest ==
  \A t \in Threads : mode = "word" /\ th[t].pc = "count" /\ ToSet(Query(t)) \subseteq Cjk =>
    LET q == Query(t)
        prob(words) == FoldLeft(LAMBDA p, w : p + LogProb(w), 0, words)
        cuts == {c \in SUBSET (1..Len(q)) : Len(q) \in c}
        pieces(c) == LET ends == SetToSortSeq(c, <) IN
          [i \in DOMAIN ends |-> Word(q, IF i = 1 THEN 0 ELSE ends[i - 1], ends[i])]
        legal == {c \in cuts : \A i \in DOMAIN pieces(c) :
                    Len(pieces(c)[i]) = 1 \/ pieces(c)[i] \in DOMAIN Dict}
    IN /\ FlattenSeq(Terms(q)) = q
       /\ \A c \in legal : prob(pieces(c)) <= prob(Terms(q))

(* What threads share stays right: no stored answer is stale, and no thread   *)
(* waits for an answer that nobody is computing (QueryResultCache, QueryInflightGuard).  *)
SharingSafe == CacheFresh /\ WaiterHasOwner

(* A text is cut as the model of the language says, and the hits are those    *)
(* of scoring every posting (tokenizer_cn.rs, Bm25Index::search).             *)
AnswersExact == SearchExact /\ CutIsBest

=============================================================================
