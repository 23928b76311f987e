# UltraMem in TLA+

A verification project for UltraMem, a memory engine for assistants: documents
are chunked and embedded into Qdrant, distilled by a language model into facts,
and the facts are reconciled with what is already known, so that a search
returns only what is current. The models are translated from the Rust code
under `src/crates/`; `PROJECT.json` ("map") names the lines each definition
stands for. File names below are relative to
`src/crates/ultramem-core/src/` unless they say otherwise.

What runs concurrently is what makes the engine hard: every HTTP request of
`ultramem-server` is a tokio task of its own, none takes a lock around its store
calls, a request's future may be dropped at any await, and Qdrant and Postgres
are written one after the other with nothing that spans both.

## 1. Inventory

| Component | State it keeps | Operations | Interacts with | Hard behaviours | What makes it correct |
|---|---|---|---|---|---|
| Memory lifecycle (`engine/mod.rs` `index_memories`, `engine/memory.rs`) | Qdrant facts collection; rows of `memories`, `memory_evidence` | search neighbours, classify, write, flip, mirror | LLM, embedder, both stores | interleaved ingests, stale neighbours, partial writes, retries | nothing superseded is served with its replacement; no acknowledged fact is lost; links stay in their namespace |
| Fact maintenance (`forget_memory`, `backfill_to_pg`, `rebuild_index_from_pg`) | the same two stores | erase, copy either way | ingestion, each other | snapshots written back late, failures half-way, loss of the index | erasure is total, retryable and scoped; the index is derivable from Postgres |
| Document ingest and delete (`add_document`, `delete_document_tagged`) | chunks collection; `documents`, `chunks` rows; blobs | dedup, chunk, embed, upsert, dual write, delete | lifecycle, graph, profile | dedup race, Qdrant/Postgres divergence | an acknowledged document is searchable; a deleted one is gone |
| Profile cache (`profile_tagged`, `refresh_profile`, `invalidate_profile`) | `profile_cache` (RwLock map, TTL 1 h) | read or compile, insert, invalidate | facts collection, LLM, deletes | a compile overtakes an invalidate | nothing is asserted that left the index before the entry was stamped |
| Re-distillation and jobs (`redistill_doc`, server `reindex`, `job_*`, `engine/distill.rs`) | facts, `jobs` rows, spawned tasks | list, load, delete, distill, index; job progress | chunker, LLM, lifecycle | delete before a call that may fail; overlapping jobs; process death | facts are replaced, not added to; a clean job covers the text; a job ends |
| Temporal graph (`index_edges`, `engine/graph.rs`) | graph collection | extract, embed, read latest, upsert, flag, resolve | LLM, embedder, deletes | latest edges read once per batch, non-fatal flag, overlap | event time decides, whatever the flags say; history is kept; a delete reaches the graph |
| Scopes and promotion (`scope.rs`, `promote_memory`, server `tenant.rs`) | `acl_entries` | grant, revoke, promote, visible scopes | both stores, audit trail | grant checked before four awaits; revoke and forget in between | a namespace changes only by a request entitled to it |
| Entity aliases (`entity.rs`) | `entity_aliases` | add, resolve | Postgres | none of note | last write wins, in its namespace |
| Chunker (`engine/chunker.rs`) | none | split, pack with overlap | ingest, re-distillation | boundaries, overlap, markdown and chat strategies | no text lost, bounded chunks |
| Retrieval (`retrieve_for_plan_tagged`, `rewrite.rs`) | none | plan, scopes, joined searches, union, retry, group, rerank, provenance | all stores, LLM, embedder, reranker | stores and grants change between its awaits; one search fails, the others do not | answers are of scopes visible to the caller; no hit is lost before the reranker |
| Point-in-time reads (`memories_as_of`) | `learned_at`, `superseded_at` of the rows | read as of t | lifecycle, promotion | rows are dated before they are written; marks overwritten | the past stays what it was |
| LLM client and providers (`llm.rs`, `engine/jina.rs`, `engine/mistral.rs`, `providers/`) | token counters | complete, stream, embed in batches, retry | hosted models | transient errors, answers out of order, streams cut short | bounded retries, vectors joined to their inputs, tokens delivered once |
| HTTP server and tenant binding (`ultramem-server/src`) | credentials | authenticate, resolve the tag, dispatch, audit | everything | handlers run concurrently | a request acts only in a namespace of its credential |
| Text hygiene (`redact`, `promptguard`, `urlinfo`, `extract`), blob store, probe, benchmarks | none | pure text functions, I/O | - | - | - |

## 2. Plan

In order of importance to what the engine promises; everything here is done
unless it says otherwise.

1. Memory lifecycle: `ReconcilePolicy`, `MemoryLifecycle`, its abstract
   specification `MemoryServing`, the inductive invariant and the proofs.
2. Fact maintenance: `FactMirror`, composed with the lifecycle.
3. Documents: `DocumentStore`.
4. Providers and the graph: `TemporalGraph` over `ProviderClient`.
5. Re-distillation: `Chunker` -> `ReindexJob` -> `ProfileCache`, each extending
   the one before it.
6. Tenancy: `TenantPolicy` -> `SearchFilter` -> `TenantService` -> `Retrieval`.
7. Proofs: the lifecycle, then `FactMirror`, `DocumentStore`, `ProviderClient`,
   `TemporalGraph`, `ReindexJob`, `ProfileCache`, and tenancy with search
   (section 5).
8. Left: what is only model-checked (end of section 5). Each needs either
   liveness, or an induction over the data of a sort or of the chunker's folds.

## 3. Modules

| Module | Models | Correspondence |
|---|---|---|
| `ReconcilePolicy` | `memory.rs` | the decision table `action_for`, and the plans a batch can get: classified, or degraded to all-new. The model is any verdict on any neighbour |
| `MemoryLifecycle` | `index_memories` | one action per store call; `pc[c]` is where call `c` is suspended. `points` is the facts collection, `rows` and `evidence` the two tables. `search` -> `plain` -> `flip` -> `supersede` -> `pg_insert` -> `pg_mark` -> `pg_evidence` |
| `MemoryServing` | the promise of `memory.rs:1-10` | abstract: memories are learned and retired, never removed or revived |
| `MemoryLifecycleInv` | - | the inductive invariant `LifecycleInv` |
| `FactMirror` | `forget_memory`, `backfill_to_pg`, `rebuild_index_from_pg` | extends `MemoryLifecycle`; `job[j]` is one maintenance request, its snapshot and its next write |
| `DocumentStore` | `add_document`, `delete_document_tagged`, the document half of backfill and rebuild | `call[c].at` is where an add is suspended (`lookup` -> `chunks` -> `doc_row` -> `chunk_rows` -> `facts` -> `fact_rows` -> `edges`), `job[j]` a maintenance request. `chunks`, `facts`, `edges` are the collections, `docRows`, `chunkRows`, `factRows` the tables |
| `ProviderClient` | `llm.rs`, `engine/jina.rs`, `engine/mistral.rs`, `providers/openai.rs` | `calls[c]` is the provider call of a caller: idle, sent, in back-off, ok or err. Completions and Jina embeddings retry, the rest is sent once; embeddings go in batches whose replies come in any order; streams may be cut |
| `TemporalGraph` | `engine/graph.rs`, `index_edges`, `add_document_graph_only`, the edge cascade of deletes | extends `ProviderClient`: `wr[w]` is an ingest at `extract` -> `embed` -> `upsert` -> `flag`. `edges` is the collection; `resolve` and the count of instances are operators on it |
| `Chunker` | `engine/chunker.rs` | pure: a text is a sequence of marked characters; `chunk_doc` picks the strategy |
| `ReindexJob` | server `reindex` mode=facts, `redistill_doc`, `distill_facts_typed`, `job_*` | extends `Chunker`: `jobs[j].pc` follows the spawned task through `load` -> `delete` -> `distill` -> `index` for each document; `row` is what Postgres says of it |
| `ProfileCache` | `profile_tagged`, `engine/profile.rs` | extends `ReindexJob`: `cache` is the entry of one namespace, `compiles[r]` a reader between its lookup and its insert |
| `TenantPolicy` | `tenant.rs`, `scope.rs` | pure: credentials, tag resolution, `visible_scopes`, `can_promote` |
| `SearchFilter` | the filter builders and `group_chunk_hits` of `engine/mod.rs` | pure: filters are records of must, should and must_not, and `Matches` is Qdrant's reading of them |
| `TenantService` | the handlers of the server that change state | `req[r]` is a request: its credential's policy, the namespace it acts in, and where it is suspended |
| `Retrieval` | `search`, `retrieve_tagged`, `retrieve_for_plan_tagged`, `memory_provenance` | extends `TenantService`: `found[r]` is what a search has gathered, `scopes` -> `embed` -> `search` -> (`retry`) -> `group` -> `rerank` -> `provenance` |
| `MemoryLifecycleProofs`, `MemorySafetyProofs` | - | proofs about `MemoryLifecycle`, the second extending the first; the refinement of `MemoryServing` is at its end |
| `FactMirrorProofs`, `DocumentStoreProofs`, `ProviderProofs`, `UpkeepProofs` | - | proofs about `FactMirror`, `DocumentStore`, `ProviderClient` and `ProfileCache` over `ReindexJob` |
| `TemporalGraphProofs` | - | proofs about `TemporalGraph`, extending `ProviderProofs` |
| `AccessProofs` | - | proofs about `Retrieval` over `TenantService`, from credentials to the stores |
| `MCLifecycle`, `MCMirror`, `MCDocuments`, `MCGraph`, `MCUpkeep`, `MCAccess` | - | instances for TLC |

**Failures.** In `MemoryLifecycle` a store write that fails may have taken
effect on any subset of its points: the Qdrant client gives up after 30 s
(`engine/qdrant.rs:15`) and reports an error though the server may apply the
request. `FlipFails` retries up to `FlipTries` times and then ends the call.
The three Postgres loops of the mirror each stop at their first error and log
it, so `PgLoopFails` goes on to the next loop. `Abort` is the dropped future or
the dead process; memory and stores survive it as they are, which is also what
a restart finds. `failed` is a history variable, read only by properties that
promise something about runs without failures.

In `DocumentStore` the same holds of the chunk upsert, the joined deletes, the
edge delete and the tables. Facts and edges of a document are stored as a whole
there, since `MemoryLifecycle` is about them one by one, and their writes may
fail and be logged, as the code does. A scroll that ends early because of an
error reply yields any part of a namespace. `about` records which text and
namespace an id was minted for: the payload of every point and the columns of
every row, which never change.

`ProviderClient` has every error class the retry loop tells apart, and a reply
that is not usable. In `ReindexJob` every call of every document may fail, a
delete may take effect and report an error, a job row may miss an update, and
`restart` kills the tasks and empties the profile cache while rows stay. In
`TenantService` audit events and mirror rows may be lost, and an upsert, a claim
or an erasure may fail half-way; what the lifecycle does inside a failing write
is left to `MemoryLifecycle`, and an ingest is there one document with one fact.

**Mutants.** Definitions headed "Mutant:" are the bugs the properties are
tested against; no specification uses them.

## 4. What TLC checks

| Run | Instance | Shows |
|---|---|---|
| `lifecycle` | 2 calls, 4 memories, 2 namespaces, batches of up to 2, 1 neighbour, 2 flip attempts | every safety property, the inductive invariant, and the refinement of `MemoryServing` |
| `lifecycle_live` | 2 calls, 3 memories, 1 namespace | every call returns |
| `lifecycle_race` | 2 calls, 3 memories, batches of 1 | **violated**: two concurrent updates of one memory are both served |
| `mirror` | 1 call, 1 maintenance request at a time, 2 memories, 2 namespaces | erasure is complete, retryable and scoped; the index is derivable from Postgres, after a loss too |
| `forget_race` | 1 call, 2 requests, 1 memory | **violated**: a rebuild under way resurrects a forgotten memory |
| `mirror_drift` | 2 calls, 1 request, 2 memories | **violated**: the mirror diverges without a failure, and a later rebuild serves a superseded memory |
| `documents` | 2 adds, 1 maintenance request at a time, 2 documents, 2 namespaces, 1 text with a URL | an acknowledged document is searchable; dedup is scoped; a delete is total; registry and index can be made from each other |
| `dedup_stale` | 1 add, 1 request, 2 documents | **violated**: a deleted document that is added again is acknowledged and not stored |
| `delete_retry` | 1 add, 1 request, 1 document | **violated**: a delete that fails before the edges leaves them out of reach of a retry |
| `graph` | 2 ingests at a time, 3 in all, 2 attributes, 6 model replies, 2 attempts, batches of 2 | vectors stay joined to inputs, answers are streamed once, demotions have a reason, event time decides, deletes reach the graph, ingests end |
| `upkeep` | every text of up to 3 lines of 8 kinds under 5 strategies; 2 jobs, 3 documents, 1 reader, restarts | chunks keep the text and their bounds; jobs replace facts and end; the profile is as fresh as its stamp |
| `access` | 3 requests, 3 namespaces, 4 keys, 4 plans, 4 chunks, 4 facts, one fact and one chunk that predate namespaces | answers come from visible scopes, a namespace changes only by those who may write to it, as-of reads are settled, hits reach the reranker |

The safety properties of the lifecycle:

- `ReplacementWaitsForDemotion`: whatever fails, a stored memory's predecessor
  has been demoted before it.
- `LinksStayInNamespace`, `SupersessionIsAcyclic`: although neighbours are stale
  when the plan is applied.
- `MirrorTrailsIndex`: Postgres never claims what Qdrant does not hold.
- `DemotionHasReplacement`: without failures a demoted memory has a replacement.
- `AckedFactsAreIndexed`: a call that succeeds has stored its batch.
- `ServingSpec`: the stored points, seen as unknown / served / quarantined /
  retired, implement `MemoryServing`.

Of the maintenance requests:

- `ForgottenStaysErased`, `ErasureIsRetryable`, `ErasureStaysInNamespace`,
  `IndexIsDerived` and `SupersededStaysRetired`. All but the third are conditional on `~raced`:
  no request between its snapshot and its write was overtaken by another actor.
  `forget_race` and `mirror_drift` show what that condition, and the single
  call, hide.

Of documents:

- `OkMeansSearchable`: the promise of mod.rs:502, for the call that stored the
  document; `OkIsNeverEmpty` is the same promise for a call that found it
  registered, and fails.
- `DedupStaysInNamespace`: the id a call is given is of its own namespace.
- `RegistryCoversIndex`: when nothing has failed and a namespace is at rest,
  every text that can be found has a registered document of the same source with
  all its chunks, and every registered document can be found, unless it was
  deleted or its index is lost and not yet rebuilt. `BackfillToPg` matters here: it
  registers documents that dedup cannot see, and they are rebuilt all the same.
- `DeleteIsTotal`: after `Ok(true)` nothing is left in any collection, *until a
  rebuild*: a delete never touches Postgres, so a rebuild stores the document
  again. The history variable `gone` says for which documents this has not
  happened.

Of the graph and its providers (`graph`):

- `VectorsMatchInputs`: callers zip inputs with vectors, whatever order, retries
  or short replies come back. `TokensDeliveredOnce`: an answer that fails half-way
  is not streamed again from the start.
- `DemotionHasReason`: only a stored edge of the same attribute takes the latest
  flag away. `OneLatestWhenSerial`: without overlap or failure exactly one edge of
  a singular attribute is latest. With overlap it is not, and
  `ResolvesByEventTime` is what holds then: reads sort by event time.
- `DeleteReachesGraph`, `HistoryIsKept`, and `IngestEnds` under fairness.

Of upkeep (`upkeep`):

- `ChunksKeepText` and `ChunksFitAndOverlap`, for every text of the survey: what
  is dropped is exactly separators and bodiless headings, and a chunk exceeds the
  target by an overlap at most.
- `CleanJobCoversText`: a job that ends `done` without an error has given every
  document the facts of its whole text, unless jobs overlapped, a reply was
  unusable, or the document is longer than is read back. `OnePassPerDocument`:
  old facts do not survive beside new ones. `JobEnds` under fairness.
- `ServedIsAsFreshAsStamped`, `DeletedIsNotAsserted`: the cache may lag by its TTL
  and no more; the entry is stamped before the scroll, not at the insert.

Of tenancy and search (`access`):

- `AnswersStayInVisibleScopes`: what any of a search's queries gathers, the
  relaxed retry included, is of the caller's namespace or of one it held a grant
  on when it looked, given by someone who acts as that scope.
- `WritesStayInNamespace`: an action property over the slices of all stores that
  belong to a namespace. Two things reach beyond the namespaces a request is
  entitled to, and both are stated exactly, not excused as a whole: a reindex
  (`ReachOfReindex`), and a forget or an ingest that looked at a fact without a
  namespace before a claim gave it one (`ReachOfClaimed`).
- `HistoryIsSettled`: once no request holds a clock reading of t, the answer to
  "as of t" changes only by a forget, or by an overwritten mark.
- `HitsReachReranker`: every hit of either query is in a candidate, or lost to a
  document of the same reference or to a full list, found ahead of it.

**Bounds.** `FlipTries` is 2 where the code has 3: one retry already separates
"failed and retried" from "failed for good". `TopK` is 1 where the code has 5: a
fact supersedes or extends one neighbour at most, and which neighbours were
offered is chosen freely, so a longer list adds no outcome for one fact. Four
memories give a chain of three with a concurrent sibling, and a batch of two
gives a plan that is partly plain and partly superseding, the case the order of
writes is about. Two namespaces are needed for a link to cross. `MirrorSpec` with
two memories has one supersession, the smallest history a rebuild can get
wrong. Two documents and two concurrent adds are
what a dedup race needs (a race of two texts
of one URL takes the branches that a race of one text takes), one chunk per document separates an upsert that took
effect from one that did not, and `UntilRaced` follows a behaviour until a
maintenance request meets another request *of its namespace* (requests of
different namespaces overlap freely): past that point the properties but
`DocTypeOK` and `DedupStaysInNamespace` promise nothing for that namespace.
In `graph`, two attempts separate "failed and retried" from "failed for good", and
one provider call is in flight at a time, since calls share nothing. In `upkeep`,
a target of 4 characters with an overlap of 1 reaches every branch of the packer;
one document is surveyed over all texts and the others have fixed texts, so the
chunker's inputs and the job's interleavings do not multiply. In `access`,
requests follow the stories listed in `MCAccess`, each a combination in which the
requests can affect one another; a request that runs alone runs under every key,
with every name and with every outcome of the searches, and one in company is
narrowed as `Narrow` says. `RERANK_LIMIT` is 2 where the code has 30, so that the
candidate list can be full, and `MaxTime` 2 gives a past, a present and one
supersession between them.

`lifecycle_live` uses one namespace because calls of different namespaces
share no store entry. The theorems hold without any of these bounds.

**Deadlock** is not checked: once every id of the bounded set is minted, nothing
is left to ingest, and a system that waits for requests may stop.

**Fairness.** `FairSpec` assumes weak fairness of `Step(c) \/ StoreFailure(c)`
for each call: tokio polls a ready future, and every awaited store call comes
back with an answer or an error (Qdrant requests time out). Neither success nor
failure alone is assumed fair, so a store may fail forever; a dropped future is
never assumed. `TemporalGraph` assumes the same of each ingest and of its
provider call, whose every answer, success or error, is a step; `ReindexJob` of
each spawned task, which tokio polls until the process dies. Both retry loops are
bounded, so neither property rests on a call ever succeeding.

## 5. What is proved

TLAPS proves, for any number of calls, memories, namespaces, neighbours, documents,
maintenance requests, ingests, jobs and readers, for any batch size and number of
retries, for any tenants file, requests, grants, plans and initial stores, and whatever the model, the providers and the chunker return:

| Theorem | Property | Module |
|---|---|---|
| `TypeCorrect` | `TypeOK` | `MemoryLifecycleProofs` |
| `InvHolds` | `LifecycleInv` | `MemorySafetyProofs` |
| `DemotionComesFirst` | `ReplacementWaitsForDemotion` | |
| `NamespacesAreSealed` | `LinksStayInNamespace` | |
| `MirrorFollows` | `MirrorTrailsIndex` | |
| `ChainsAreAcyclic` | `SupersessionIsAcyclic` | |
| `NothingAckedIsLost` | `AckedFactsAreIndexed` | |
| `DemotionIsNotInVain` | `DemotionHasReplacement` | |
| `IndexServes` | `ServingSpec`, the refinement | |
| `MirrorTyped` | `MirrorTypeOK` | `FactMirrorProofs` |
| `ForgottenStays` | `ForgottenStaysErased` | |
| `ErasureRetryable` | `ErasureIsRetryable` | |
| `ErasureIsScoped` | `ErasureStaysInNamespace` (action) | |
| `IndexIsRecoverable` | `IndexIsDerived`, ingests one at a time | |
| `RetiredOneByOne` | `SupersededStaysRetired`, ingests one at a time | |
| `DocumentsTyped` | `DocTypeOK` | `DocumentStoreProofs` |
| `DedupIsScoped` | `DedupStaysInNamespace` (action) | |
| `DeleteTotal` | `DeleteIsTotal` | |
| `OkSearchable` | `OkMeansSearchable` (action) | |
| `RegistryCovers` | `RegistryCoversIndex` | |
| `GraphTyped` | `GraphTypeOK` | `TemporalGraphProofs` |
| `VectorsMatch` | `VectorsMatchInputs` | |
| `TokensOnce` | `TokensDeliveredOnce` | |
| `DemotionExplained` | `DemotionHasReason` | |
| `OneLatest` | `OneLatestWhenSerial` | |
| `ResolvedInTime` | `ResolvesByEventTime` | |
| `DeleteErases` | `DeleteReachesGraph` | |
| `PastIsKept` | `HistoryIsKept` (action) | |
| `OnePass` | `OnePassPerDocument` | `UpkeepProofs` |
| `Fresh` | `ServedIsAsFreshAsStamped` | |
| `NotAsserted` | `DeletedIsNotAsserted` | |
| `SearchesStayInScope` | `AnswersStayInVisibleScopes` | `AccessProofs` |
| `WritesAreScoped` | `WritesStayInNamespace` (action) | |
| `HistorySettles` | `HistoryIsSettled` (action) | |
| `NoHitIsLost` | `HitsReachReranker` | |

The assumptions are those named at the head of each specification:
`LifecycleAssumption`, `NoneAssumption`, `DocumentAssumption`, `ClientAssumption`,
`GraphAssumption`, `JobAssumption`, `ProfileAssumption`, `TenantsAssumption`,
`StoresAssumption`, `LimitsAssumption`. They say that `None` is no
member of a set, that sizes, limits and retry counts are numbers (positive where
the code's constants are), that the documents of a namespace are finitely many,
what a reply of the model may consist of, that tenants and their keys form a list,
and which fields and ids the stores start with. TLC evaluates each of them in the runs.
`IndexIsRecoverable` and `RetiredOneByOne` assume two things more: that there is a
database to mirror into (`HasDb`) and that documents are ingested one at a time (at
most one call; it ingests any number of documents, beside any number of maintenance
requests). The second is no convenience: with two calls both properties are false.
`UntilRaced`, `MCNext` and the other narrowings of the instances are not part of
the specifications the theorems are about.

**The lifecycle.** None of the safety properties is inductive: that a superseding write respects
`ReplacementWaitsForDemotion` depends on the flip its call did before, and on
nobody having undone it. `LifecycleInv` says so. Its parts are that a call owns
the ids of its batch (`BatchIsOwned`: they are fresh, so no other call
writes them), that what it has read or plans to link lies in its own namespace
(`LinkedPlan`), and, by phase, what it has not written yet (`Unwritten`) and
what it has (`Written`). Interference is then harmless, because an ingest only
ever adds points of its own and demotes others, and a demotion is never undone:
the proof has one lemma for the steps that leave the index alone, one for those
that retire memories, one for those that publish a call's own points, and each
action is one of the three. Acyclicity follows without induction over chains: a
published memory is new, so the set it would close a cycle with has a member
outside it already, or consists of it alone. `IndexServes` maps publishing steps to
`Learn`, flips to `Retire`, and every other step to stuttering.

**The mirror** (`MirrorInv`). A memory has one namespace in every copy, snapshot
and call that knows it (`OneNamespace`); only the call that minted it, and a request
that holds a snapshot of it, can store it (`Owned`). Until a snapshot is overtaken,
once an erasure has begun neither is left for that memory, and what the erasure has
passed is empty (`Erasing`). The first two parts hold on every behaviour; only
`Erasing` needs `~raced`, and no run without it.

That the index can be rebuilt (`DerivedInv`) needs an account of every step between
the two stores while nothing has failed or been overtaken: a point without a row is
one the call has yet to insert, a row without a point one whose erasure is half done
(`Accounted`, `Indexed`), and point and row agree but for the marks the call still owes
(`Agreeing`, `Unmarked`); a rebuild still holds the rows as they are and a backfill
no point whose row is gone (`Snapshots`). What makes this inductive is that a call
links its facts to none of its own batch (`LinksAbroad`) and is known to be as far with
the index as its phase says (`Indexing`), so that the only memories it still has to
mark are in the rows already, or in none. With two calls that fails: one may owe the mark of a row that the other has yet to insert, and the
`UPDATE` then touches no row (`mirror_drift`). `RetiringInv` adds that what a stored
memory supersedes is retired, in the index and, but for the marks owed, in the rows;
and as the two agree at rest, a rebuild copies no current flag back.

**Documents** (`DocInv`, `StoreInv`, `RegistryInv`). A maintenance request has its
namespace to itself until the namespace counts as raced (`Alone`); so the chunks a
call has upserted are still there when it returns (`ChunksStay`), and what a delete
has cleared stays empty until a rebuild (`ClearedStays`, `GoneStays`). That index and
registry cover each other needs five parts that hold only while nothing fails: a
document has all its chunks or none (`ChunksWhole`), a document row has its chunk
rows or gets them next (`RowsCovered`), stored text has a row of its source or gets
one next (`TextHasRow`), a registered document that is not deleted has its text
(`RowHasText`), and what a request has read is still so (`SnapshotsHold`).

**Providers** (`ClientInv`). What a call has received is the vectors of the inputs
before its position, in order. Two lemmas carry it: sorting a reply by its indices
gives back the batch that was asked (`SortRestoresOrder`), and consecutive batches
join to a prefix (`PartsJoin`). Induction over data is done by hand, from the
smallest counterexample (`SmallestNumber`, itself from the well-foundedness of
strict inclusion on finite sets); so are the loops of the graph's parser.

**The graph** (`GraphInv`, `SerialInv`). An edge never changes but for its flag and
is never removed except by a delete, so what a writer read is still stored
(`KnownIsStored`) and the reason it saw for a demotion is a reason in the graph when
it flags (`ReasonStored`), whatever other writers did between. `OneLatest` is about
the runs without overlap: one writer is active (`OneWriter`), what it read is still
all there is (`ReadStillTrue`), and a group of edges has exactly one that is live,
that is latest and not about to be flagged (`OneLive`). `ResolvedInTime` needs no more
of a state than its types: a stable sort gives every member a place of its own and
leaves no place free (`PlacesOfSort`), a loop pushes what it keeps in order
(`PickedPlaces`), and an answer depends on the edges of a scroll, not on their order
(`OrderPlaysNoPart`).

**Upkeep** (`JobInv`, `HoldersOK`, `AgesOK`, `DeletesSeen`). Every step of a job is
a `JobMoves`: it writes facts of the document it is at, which it read with chunks
in the index and emptied first. A deleted document has no chunks, so no job comes
to write it, unless one was at it when the delete came (`NoneWritten`); while jobs
do not overlap, a job that has emptied its document finds it empty until it
stores (`OneAtATime`), since an id is ingested once. For the profile, cache and
compiles are both holders of statements with a stamp: a step holds nothing but
what was held, with its stamp, or what is stated now (`HeldMoves`), so statements
are never gone for longer than their stamp is old, and a delete marks every holder
it does not empty.

**Tenancy and search.** `AccessInv` is about who acts where: a request acts in a
namespace of its credential (`Acting`), every grant was given by someone who acts as
its scope (`Granted`), and what a request holds of the grants was granted
(`Holding`). A search has gathered only what its filter lets through (`Searching`):
`scope_filter` narrows whatever plan it is given (`ScopesConfine`), and so do the
retry's filter and the fact search's, while the union of two pools adds nothing
(`UnionOfPools`).

`StoreInv` is about the stores. A request's own ids are fresh until it writes them
(`Fresh`), only what was there at the start may lack a namespace
(`OldPointsOnly`), a memory is known in one namespace, but for the old ones
(`OneHome`), a request aims at memories of its own (`Aiming`), and what was
distilled from a document is of its namespace (`OneDoc`). `WritesAreScoped` then
takes each handler in turn: a step leaves the slice of a namespace as it is (`Kept`),
or the request may write there (`Allowed`). The reindex is last: what it does
elsewhere is compared with `ReachOfReindex`, clause by clause. TLC and the proof found
what the first statement had overlooked, the facts that a claim gives away under
a request that has looked at them. `HistorySettles` adds that a row is dated by
its request's reading of the clock, which is no longer t.

`NoHitIsLost` is about a loop over the hits, so its invariant is one of turns
(`Sorted`): after m hits every one of them is in the result of its document, behind
results that were led by earlier hits, or gave way to such a result by its
reference, and no two results share a document or a reference. A turn keeps the
results and what leads them (`GatherGrows`), so places once taken are not lost, and
cutting the list to its limit leaves a hit outside only behind a full list of
earlier ones (`HitsReach`). The reranker may keep any of the candidates but never
none.

Each invariant was checked by TLC on the instance of its run before it was proved.

Only model-checked:

- `CallsReturn`, `IngestEnds` and `JobEnds`: liveness under fairness.
- `ChunksKeepText`, `ChunksFitAndOverlap`, `CleanJobCoversText`: what the chunker's
  nested folds compute for every input needs an induction over data for each of them.

## 6. Where code and documents disagree

- *Two current replacements* (`lifecycle_race`): `memory.rs:7` promises that
  search returns only the new value. Two concurrent ingests that both read the
  old value before either writes leave two.
- *Forgotten, then rebuilt* (`forget_race`): `mod.rs:1609` and
  `docs/ACCEPTANCE.md:23` say a rebuild cannot bring a forgotten fact back. One
  that has read its rows before the forget does.
- *Drift that no rebuild repairs* (`mirror_drift`): `mod.rs:1115` says a rebuild
  or a backfill reconciles any drift. An update that reaches Postgres before the
  row it marks is lost; the rebuild then copies the wrong flag into the index,
  and a backfill never changes a row that is there. It takes two overlapping
  ingests: `RetiredOneByOne` proves the claim for ingests one at a time.
- *Acknowledged and not stored* (`dedup_stale`): `mod.rs:502` says an `Ok` means
  searchable chunks. Deleting leaves the row that dedup asks, so adding a deleted
  document again returns its old id and stores nothing.
- *Edges that outlive their document* (`delete_retry`): `mod.rs:2527` says the
  edges must go too. They go last, and the existence check of a retry looks only
  at the chunks and facts, which are already gone.

The models also follow these, without a run of their own:

- A profile compile that is in flight when a delete invalidates the cache caches
  the deleted facts again, for up to an hour (against `mod.rs:2085`). A profile
  whose scroll fails is cached as empty for as long.
- A claim of legacy points (`reindex` mode `tags`) and a lifecycle backfill (mode
  `latest`) act on every point without the field. `mod.rs:2148` says a claim never
  reassigns another namespace's data, but reads treat those points as the default
  namespace's; `docs/SPRINT_LOG.md:264` knows.
- A re-distillation deletes by document alone, so it takes the copies promoted
  from it, which "stand on their own" (`mod.rs:1547`).
- A forget, or an ingest that supersedes, that has read a fact without a namespace
  still acts on it by its id after a claim has given it to another namespace
  (against `mod.rs:1605`, "a wrong-tenant id is a no-op"): the check and the write
  are two calls.
- A promoted copy whose row could not be inserted is served and cannot be
  forgotten, and no rebuild reconciles it (against `mod.rs:1576`); a backfill does.
- A promotion's audit event names the shared scope as its actor, not the acting
  namespace (`mod.rs:1757`).
- A search keeps a memory whose `valid_until` is now, an as-of read does not.
  Superseded rows that a backfill writes have no `superseded_at` and count as
  current in as-of reads; a second mark overwrites the first one's date.
- `group_chunk_hits` keeps the first hit of a reference, which is the best-scoring
  one (`mod.rs:2803`) only within one query's pool: the second is appended.
- A document longer than 500 chunks loses the facts of the rest when it is
  re-distilled, and an answer that cannot be parsed counts as success and erases
  its facts; the job reports neither. A job whose process died stays `running`.
- A server error with a body that is not JSON is not retried
  (`llm.rs:204`, against `llm.rs:158`); a stream cut early ends as a success; LLM
  calls have no timeout of their own.
- Edges of a graph-only ingest carry a made-up document id (`mod.rs:836`) that no
  delete can name. Two edges of one date resolve in scroll order. As of a past date
  the whole timeline is resolved, so what became true later is rendered as "earlier"
  (`engine/graph.rs:313`).
- A markdown heading without a body is lost, and only the first piece of a long
  section carries its crumb.

## 7. What is not modelled, and why

- A request that Qdrant applies only after the engine has given up on it *and*
  gone on: effects land at the time of the error or never.
- In `MemoryLifecycle`, expiry (`valid_until`): it only makes a search return
  less, which the choice of neighbours already allows. Legacy points without
  lifecycle fields are in `TenantService`.
- Two facts with the same text in one batch, which the code tells apart by text.
- Vectors, scores and thresholds: a search returns any of the matching points in
  any order, hybrid or dense. Prompts, redaction, prompt guards, URL and file
  parsing, title boosts, and the wording of profiles.
- The blob store, start-up and its retries, `health`, `job_status`, multipart
  parsing and status codes: they keep no state the properties are about.
- Clocks that run backwards: `HistoryIsSettled` reads one clock.
- The document row that `memories.document_id` refers to: if it is missing every
  insert fails, which `PgLoopFails` covers.
- In `DocumentStore`: `add_document_graph_only`, which is in `TemporalGraph`; blobs; an engine without Postgres, where nothing is deduplicated.
  The reads a rebuild makes before its first upsert are one step, and so are the two
  scrolls of a backfill. The graph has no rows: a rebuild brings no edge back.
- The components marked `not_modelled` in `PROJECT.json`, with the reason there.
