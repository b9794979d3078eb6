# A verification project for ScaleLLM

TLA+ specifications of ScaleLLM from the RPC to the tensor-core operand: serving threads, scheduler,
paged KV cache, engine and workers, tensor-parallel and quantized layers, batch execution and sampling,
and the CUDA kernels with control state of their own. Each module is translated from the code under
`src/`; `PROJECT.json` maps every definition to its lines.

## The system and what can go wrong in it

| part | state | who calls it |
|---|---|---|
| gRPC server, `StreamCallData`, completion and chat handlers | state of one RPC, its completion-queue events, its alarm | server thread, response thread |
| Python front end | output streams | response thread, event loop |
| `LLMHandler`, `ThreadPool`, `ConcurrentQueue` | task queue, handling threads, stop flag, loop thread, pending counter | handlers, Python |
| `ResponseHandler` | a one-thread pool of tasks that hold requests | scheduler thread |
| `ContinuousScheduler` | request queue, priority queue, running and preemptable requests, budgets | handling threads; one scheduler thread |
| `BlockAllocator`, `Block`, `PrefixCache`, `BlockManager` | free ids, reference counts, radix tree, LRU list, usage counter | scheduler |
| `Sequence`, `Request` | tokens, blocks, KV position per engine, finish status, decoder offsets | scheduler, batch, response thread |
| `Batch`, `ModelRunner`, samplers | flattened inputs, graph buffers, penalties | engine |
| `LLMEngine`, `SpeculativeEngine`, `Worker`, process groups | a thread and a device per rank, memory sizes | scheduler thread |
| models, parallel layers, quantized layers | shards of checkpoint tensors | workers |
| Marlin and attention kernels | locks, reduce buffer, shared-memory stages | layers |
| tokenizers, templates, model files, HTTP server, gateway | tables, files | handlers, engine |

What makes this hard:

- four kinds of threads meet at a request, with raw `Request*` in five containers, and the response
  thread reads sequences the scheduler's thread appends to;
- an RPC object is written to by one thread, moved on by another, abandoned by its client, and deletes
  itself;
- blocks are shared by reference count between sequences and the cache, and the cache evicts parts of
  nodes while sequences come and go;
- memory runs out in the middle of building a batch, after part of a request already got blocks;
- with speculation two engines keep their own KV positions, and rejected tokens pull both back;
- devices wait for each other in collectives, and what a device computes depends on how each of several
  tensors of a layer was sharded, repeated, fused, packed and read from files;
- kernels order their blocks by locks and their warps by barriers, and agree about layouts only by
  convention.

`PROJECT.json` lists these as hazards at the lines where they bite.

## Modules

Memory and scheduling:

| module | models | read it for |
|---|---|---|
| `BlockLease` | abstract: who may hold which block | the promise of the allocator |
| `BlockPool`, `BlockPoolProofs` | `BlockAllocator` and `Block` | free list and counts; theorems |
| `PrefixCache` | `PrefixCache` as functions from a cache to a cache | the radix tree |
| `PrefixMap` | abstract: a prefix-closed map from token strings to blocks | the promise of the cache |
| `BlockManager` | `BlockManager`, memory half of `Sequence` | operations on one record `m` |
| `KVMemory`, `MCKVMemory` | sequences using the block manager, with the contents of KV slots | what a sequence reads |
| `EngineStep` | one engine step for one sequence: `Batch`, `SpeculativeEngine`, `Sequence::validate_tokens` | tokens and KV positions |
| `PriorityServer` | abstract: a server with priorities | the promise of the scheduler |
| `ContinuousScheduler`, `MCContinuousScheduler` | the scheduler thread, interleaved with handler and response threads | all of the above composed |
| `SchedulerProofs`, `SchedulerMemoryProofs` | | theorems about its queues, memory and preemption |
| `SequenceLemmas`, `Folding` | | what the proofs use of sequences in order, and of loops written as folds |

Serving:

| module | models | read it for |
|---|---|---|
| `CallData`, `CallDataProofs` | one streaming RPC between the replying thread, gRPC and the server thread | its contract `CallSpec`; theorems |
| `IncrementalDecoder` | which tokens of a sequence became text | offsets, characters cut in two |
| `Serving`, `MCServing` | requests from arrival to the last chunk: `CallData`, handling threads, `Sequence` output, `ResponseHandler`, completion and chat handlers, Python streams | serving composed |
| `LLMHandler`, `LLMHandlerProofs` | the handler's threads, promises, `generate`, start, stop and reset | shutdown and waits; theorems |

Devices:

| module | models | read it for |
|---|---|---|
| `ParallelLayers` | weight loading, linear, embedding, norm and attention layers on `world_size` ranks | what a rank holds and computes |
| `QLinear` | six quantized linear classes and the choice between them | qweight, qzeros, scales and g_idx sharded apart |
| `Models` | seventeen model classes as sequences of layer operations | which tensors feed which layer |
| `LLMEngine`, `MCLLMEngine` | the engine's calls as tasks of worker threads and their streams, with collectives, memory profiling and cache sizes, also with a draft model | start-up and execution on several devices |
| `Sampling` | sampling parameters of a batch, logits processors, sampler, rejection sampler | rows and tensors that exist or do not |
| `Execution`, `MCExecution` | a batch as tensors: input building, padding, CUDA graphs, KV slots, sampling, speculation | what is generated |

Kernels:

| module | models | read it for |
|---|---|---|
| `MarlinLaunch` | the host: thread configuration, launches, buffer sizes | how rows are cut up |
| `Marlin` | the grid: stripes, slices, locks, reduction | partial sums across blocks |
| `MarlinPipe` | one block: stages, register buffers, barriers | warps that run ahead |
| `MarlinLayout`, `MarlinRepack` | where a weight, its scale and zero point are, from checkpoint to register; the repack kernels | the conventions |
| `Attention` | one block of the paged attention kernel | masks, tiles, softmax |
| `MCKernels` | the four kernels side by side | instances |

### Correspondence with the code

The operations of `PrefixCache`, `BlockManager` and `EngineStep` are functions on values because the
code calls several of them within what is one step for every other thread. `KVMemory` and
`ContinuousScheduler` are the state machines built on them. `mem.cache`, `mem.blk[s]`, `mem.kv[s]`,
`mem.ssm[s]`, `mem.in_use` are `prefix_cache_`, `Sequence::blocks_`, the two entries of
`num_kv_cache_tokens_` and `num_blocks_in_use_`. The free list and the reference counts are not repeated
there: `BlockPoolProofs` shows that they are determined by who holds which block. `pc` in
`ContinuousScheduler` says which phase of `build_sequence_batch`, `step` or `run_until_complete` comes
next; `crashed` is a failed `CHECK`. The scheduler thread shares only `request_queue_`,
`pending_requests_` and the cancel flag with other threads; one action reads each of them at most once,
so the interleavings are the ones of the code.

`CallData` has one action per step of `send_response` (the compare-exchange, the alarm, the returned
value) and per state of `proceed()`; `ops` and `cq` are gRPC's side (external). The returned value is
read after the alarm is set, when the server thread may already have deleted the object: it is any
Boolean then. `Serving` uses these
actions with the replies the handlers really make, task by task of the response thread, and reads a
sequence's `finish_reason_` where the response thread reads it, after the snapshot of its length.

`LLMHandler` keeps the order in which `schedule_async`, the task and `run_until_complete` touch
`pending_requests_`, the promise and the request queue. `UsedWhileAlive` is stated over which objects
`reset` has released.

In `ParallelLayers` a number is known by its origin: feature `<<tag, i>>` is what one GPU computes at
place `i` of the tensor `tag`, and `Bad` is anything else. A layer gives a rank the right feature only if
the rows, columns, groups and bias it loaded are the ones that belong to its input. `LLMEngine` carries
such a computation along its collectives: a `reduce` or `gather` takes place when all ranks are at it.

`Execution` keeps the tensors of `ModelInput` and the graph buffers. A KV slot holds the token and
position whose key was written to it, a row of the forward pass the keys it attended to, and logits are a
fixed function of that (external). `Alone` is what a sequence gets when it is computed by itself.

In the Marlin modules a value is the set of partial products it is a sum of, shared memory says which tile
it holds, or `Garbage` while a copy is under way. Every kernel's action ends where other warps or blocks
can see a difference: at a barrier, a copy, a lock, or a write to global memory.

## Runs

| run | question | result |
|---|---|---|
| `block_pool` | free list and leases under any use of `Block` objects | holds |
| `kv_memory` | does a sequence read KV entries of its own tokens only; is a match the longest, is the LRU list sorted, is usage counted right, is no work lost on release | holds |
| `kv_memory_shared` | the first of these while running sequences file blocks they keep; does the tree implement a map; does eviction free what it reports and all it may | holds |
| `scheduler_pressure` | ownership, budgets, memory and answers when memory is short; does the scheduler implement `PriorityServer`; is every request answered | holds |
| `scheduler_speculative` | are both engines in step whatever the target rejects; where prefill ends and speculation begins, do `CHECK`s fail in no situation but the two listed below | holds |
| `scheduler_offline` | does `run_until_complete` return, holding nothing, with prefix cache and expansion | holds |
| `serving` | are streams delivered in order and whole; is an RPC object deleted with nothing left to do but one read, whose value nobody uses, and its contract kept; do tasks find their request; is everybody answered | holds |
| `handler` | is nothing used after its release; does `generate` return everything; are futures set and does `reset` return | holds |
| `tensor_parallel` | does every rank compute what one GPU would; does every checkpoint load; do caches fit; does every call of the engine return | holds |
| `kernels` | are products, sums, operands and attention exact; are locks and buffers left as found and within bounds; do the kernels end | holds |
| `execution` | does a batch generate for each sequence what it would get alone; does the cache hold what was committed; do the tensors' shapes agree | holds |
| `scheduler_resume` | "sample last token in the sequence" | violated |

Every property of a passing run has a mutant: a plausible mistake in one definition that makes TLC find
the property violated. The mutated operators stand directly before the definitions they replace.

The configurations `SchedulerGivesUp`, `SchedulerReturns`, `SchedulerSpecResume`, `SchedulerSpecBudget`,
`SchedulerStuck`, `ServingAfterDelete` and `KernelsScales`, and the changes to the other configurations listed below, reproduce further
disagreements: TLC reports the property of each violated.

### Bounds and why they are enough

- `block_pool`: three blocks, four objects: two objects can share while others hold, move and drop
  different blocks, and the free list can be empty and full.
- `kv_memory`: blocks of two tokens, three blocks for two sequences of up to four tokens. Both cannot be
  complete at once, so that waiting, eviction (whole nodes and tails) and recomputation happen; the
  prompts share a first block and differ in the second, so that nodes are split. Two readings of the clock.
- `kv_memory_shared`: blocks of one token give paths of three blocks and splits at each of them. The
  counter `in_use` is hidden from the fingerprint (`WithoutInUse`): no operation reads it, no property of
  this run mentions it, and with expansion it drifts without bound (see below).
- `scheduler_pressure`: three requests, one with two sequences, memory for six tokens. Preemption,
  preempting the candidate itself, partial scheduling, giving up, cancelling and a full request queue all
  happen. Model values are not symmetric because ranks differ.
- `scheduler_offline`: a request with two sequences and one with one, same prompt, and one block less than
  all of them need: sharing, eviction and expansion happen while a batch is built.
- `scheduler_speculative`: two draft tokens, two tokens of the vocabulary: acceptance of none, one or both
  draft tokens, with and without the end of the sequence inside the draft. Three requests with prompts of
  five, four and one token under a share of three tokens per sequence, a prefix cache and too little memory
  for all: a prompt takes two or three chunks, stops one token short of its end because the draft tokens
  would exceed the budget, or starts in the middle; sequences are preempted in and after their prompt, and
  found in the cache again in whole or in part. `ChecksHold` also holds for other block sizes, amounts of
  memory, budgets and one or three draft tokens, with and without the cache.
- `serving`: five workloads over both front ends: a chat with two sequences and usage, an echoed completion
  cut inside characters, an answer in one piece beside a stream; up to two tokens per sequence, so that a
  delta, a late finish reason and a final output can be queued together. A client may leave at any point.
- `handler`: three requests, two handling threads and a request queue of one, so that a request is refused
  while others wait; all three modes of use.
- `tensor_parallel`: two layers; one, two and four devices; as many kv heads as heads, half as many, and
  one; heads that are no power of two; tensors of one fused layer in two files; groups that end inside
  and at the border of a shard. All parameters beyond these scale by repetition.
- `kernels`: products whose stripes end inside a column, at its end, and in the padding; fewer and more
  blocks than tiles; two problems side by side with a padded rest; in the grid a scale per column and
  groups of half a tile, one tile and two. The pipeline runs slices of one to six tiles through its four
  stages, with one scale per column and with groups of one tile (`GroupTiles`); groups of two are in
  `KernelsScales`. Layouts are compared for every thread and register of a 16 x 64 tile. Attention has
  tiles of four rows, up to three tiles, pages of two slots, groups of one to three heads and windows of
  one key, four keys and none.
- `execution`: two sequences over four tokens, one prefilled in chunks of any size, zero to two draft
  tokens, graphs of one and of two sequences, and three combinations of parameters that create different
  processors for the batch.

The clock of the prefix cache matters only for the LRU order and stands still in the scheduler's runs.
Deadlock is not checked where the modelled threads may all be done: a served workload, a handler after
`reset`, an engine nobody calls again, a finished kernel or batch.

### Fairness

- The scheduler: weak fairness of its thread. The loop of `LLMHandler::start` (or `run_until_complete`)
  never blocks for longer than the 10 ms sleep. In `Fairness` it is written as "stopped infinitely often
  or a step of the thread infinitely often", which is the same because a step of the thread is enabled in
  every state in which it has not stopped. Nothing is assumed of other threads or of what is sampled.
- `Serving`: weak fairness of the threads' next steps and of gRPC's completions for operations it was
  given, as one condition (`Progress`). A workload has finitely many steps (TLC confirms `<>[][FALSE]_vars`
  for `Spec`), so that this is the same as fairness of each thread. A request may never arrive, and no
  client has to leave.
- `LLMHandler`: weak fairness of each thread. Calling `start`, `stop` or `generate` is up to the user.
- `LLMEngine`: weak fairness of the calling thread, the devices and the collectives. The process-group
  timeout may or may not strike.
- Kernels: weak fairness of the grid as a whole; the grid is no larger than the number of
  multiprocessors, so that every block is resident.

### Assumptions the runs make explicit

- Requests have distinct keys (`Rank`). `created_time` has the clock's resolution; with two equal keys
  `OneOwner` fails: the heap may hand out the request that is not at the front of
  `preemptable_requests_`, which then stays preemptable although it is scheduled
  (`continuous_scheduler.cpp:242-246`). Give both requests the same rank to see it.
- `absl::Now()` does not go back. It is a wall clock; set back, `CacheInOrder` fails and the `CHECK` in
  `evict_helper` aborts.
- `InUseExact` is checked without expansion (`Expands = FALSE`). With it, the call of `cache_blocks_for`
  at `continuous_scheduler.cpp:139` uncounts blocks the sequence keeps, and its release uncounts them
  again, so that `num_blocks_in_use()` drifts below zero.
- `ReturnsInTheEnd` is checked with memory for every request alone. When it is shorter an out-of-memory
  answer leaves an empty batch, and `run_until_complete` may return with requests in the priority queue.
- `WorldSizeIndependent` is checked for the classes that read q, k and v from one packed tensor on one
  device only, and for heads the devices divide.
- `Execution` gives sequences the budgets `allocate_blocks_for` can give, disjoint block tables, and at most
  as many draft tokens as a block has slots. A preempted sequence does not come back there.
- `Answered` excludes streams given up for lack of memory: their final output has no sequence to close.

## Proofs

`BlockPoolProofs` proves, for every number of blocks and every finite set of `Block` objects:

- `PoolInvariant`: the type invariant, `RefCountExact` and `FreeListExact` always hold. The three are
  inductive together: `FreeListExact` needs exact counts to know that the block `dec_ref_count` returns
  has no other owner, and the counts need the free list to know that a block handed out had none.
- `FreeNeverOverruns`: `FreeHasRoom`, by counting: the free list is an injection into the blocks nobody
  refers to, so that one referred-to block leaves a cell.
- `PoolImplementsLease`: every step of the pool is a step of `BlockLease` or leaves it unchanged.

The assumptions are those of `PoolAssumption`: at least one block (a `CHECK` of the constructor) and
finitely many objects. The proof has a lemma per operation (counters, free list), on which the step
lemmas rest.

`CallDataProofs` proves, for every set of calls, responses and statuses:

- `OneOperationAtATime`: `OneOutstanding` of `CallSpec`;
- `DeletedWhenDone`: `DeletedLast`. A deleted object has no operation, no event and no `send_response` left,
  except that the `send_response` of the final status, whose alarm made the server thread go on, may still
  have its read of `rpc_ok_` to do. The stronger `NothingAfterDelete` is false (see below);
- `CallDataSafe`: both, as `CallsSafe`.

The inductive invariant `CallInv` ties each state of an object to what is in flight: while `response_` is
empty in `WRITE` nothing is; while a response is stored and the alarm not yet set nothing is, and the
object is in `WRITE`; in `PENDING` and `FINISH` a response is stored; a deleted object is quiet. It also
says that a stored status was handed in by the replying thread, which then sends no more (`closing`): an
object whose request arrived is deleted for such a status only, so that what can still be under way is the
end of that one call. `OneOutstanding` by itself is not inductive: that `SetAlarm` finds nothing in flight
follows only from what `response` and `sending` say. The theorems hold for any client that keeps the contract
`CallSpec`; that the handlers keep it is `ContractKept` of the run `serving`. The one assumption,
`CallDataAssumption`, says that `None` is no response, no status and no pair of them.

`LLMHandlerProofs` proves, for every finite set of requests and of handling threads and any length of the
scheduler's queue:

- `NothingUsedAfterRelease`: `UsedWhileAlive`. The inductive invariant `HandlerInv` says where `reset` is
  (`CallerState`), that the `nullptr`s are behind every task and that there are as many as threads that
  have not left (`ExitsLast`), and that the response which ends `wait_for_complete` is the last one
  (`ResponsesState`). When all threads have left, no `nullptr` is left, hence no task; a thread leaves only
  when what is in front of it in the queue is gone.
- `GenerateReturnsComplete`: `GenerateComplete`. On top of that, `GenerateInv` says that a task is in one
  place while its promise is open (`TasksOnce`), that a scheduled request without an output is queued,
  running or a response (`OnItsWay`), and that once `BatchFuture::wait` is through, nobody schedules
  (`WaitState`): then an empty batch means that nothing is left.

`HandlerAssumption` asks for a positive queue size and at least one handling thread (the option's default
is 4; with none, no task is ever taken), and keeps the two marks in the queues apart from requests.

`SchedulerProofs` proves, for all requests, sequences, prompts, budgets and amounts of memory that satisfy
`SchedulerAssumption`:

- `ServesInOrder`: `Spec => ServerSpec`, the queues implement `PriorityServer`. The inductive invariant
  `QueueInv` says that a request is in one queue, once (`Apart`), and that the priority queue and the running
  requests are sorted, what runs before what waits while a batch is filled (`Ordered`). Each action then is a
  step of the server or changes nothing of it.

`SchedulerMemoryProofs` goes on from there:

- `DoneRequestsHoldNothing`: `DoneHoldsNothing`. `MemoryInv` adds that sequences which do not exist yet or
  whose request is over have no blocks (`Empty`) and that the batch consists of sequences of running requests
  (`BatchRuns`), which is what keeps the pass that adjusts the budgets from allocating for a request that is
  over. Of the block manager it uses only that an operation gives blocks to no other sequence than its own
  (`KeepsEmpty`).
- `RequestsHaveOneOwner`: `OneOwner`, for requests with distinct ranks. `PreemptInv` adds that
  `preemptable_requests_` is a sorted part of the priority queue behind all that runs (`Preemptable`), and
  that it is empty when a request is given up, because an empty batch has its whole budget left
  (`Exhausted`). The assumption `DistinctRanks` is needed: with equal ranks the property is false (see
  above).

`SequenceLemmas` has what pushing and popping does to the order and the elements of a queue, and induction
over the natural numbers in a form the provers can use; `Folding` shows once that what every turn of a loop
keeps holds after the loop, and is instantiated for the loops over the sequences of a request and over the
batch.

Only model-checked: everything about the prefix cache (its walk, its eviction and the strings of its
nodes are recursive functions over data), the contents of KV slots, `BatchIsBacked`, speculation and tokens
in the scheduler, serving above a call, devices and kernels, and all liveness: `EventuallyDone`,
`ReturnsInTheEnd`, `Answered`, and `FutureReady` and `ResetReturns` of the handler.

## Known disagreements

The run `scheduler_resume`: `batch.cpp:191` takes the last position of the current chunk. For a preempted
sequence that has generated tokens and is computed again in chunks it lies in its middle, and the token
sampled there is appended at the end (`batch.cpp:190`: "sample last token in the sequence").

With a configuration of their own, or a changed constant in the configuration of a run, whose property
TLC reports violated:

| configuration | property | what the code does |
|---|---|---|
| `SchedulerGivesUp` | `GivenUpAlone` | a request popped from `preemptable_requests_` because it is itself the candidate (`continuous_scheduler.cpp:252-256`) keeps its blocks and is preemptable no longer; a request of higher priority that arrives then and finds no blocks is finished (`:308`) although preempting the other would free them (`:307`: "no enough memory to schedule single sequence") |
| `SchedulerReturns`; `LLMHandler` with `QueueSize = 2`, `Modes = {"nowait"}` | `CompleteOnReturn` | `run_until_complete` builds a batch and then reads the counter (`continuous_scheduler.cpp:402`): a request scheduled in between, whose task has already counted itself out, stays in the queue (`continuous_scheduler.h:47`: "until all pending + scheduled requests are completed") |
| `SchedulerSpecResume` | `NoCheckFails` | with speculation, a resumed sequence past its prompt whose remaining tokens and draft tokens exceed the budget is sent back to `num_prompt_tokens - 1` (`continuous_scheduler.cpp:470`), which is not past its KV position: the `CHECK` at `:478` fails (`:477`: "make sure the sequence proceeds forward") |
| `SchedulerSpecBudget` | `NoCheckFails` | with speculation, two sequences stop one token short of the end of their prompts (`continuous_scheduler.cpp:470`) and are scheduled with one token each. The pass that spends the rest of the budget gives the first all it can use (`:280-302`); what is left for the second, with its own token, is no more than `num_speculative_tokens`, and the `CHECK` at `:447` fails (`:446`: "token budget should be large enough for one speculative decoding step") |
| `SchedulerStuck` | `EventuallyDone` | with a prefix cache only the first sequence of a `best_of` request exists at first; if its prompt ends with a stop token it is finished before it runs, its prompt never enters the cache, the request never expands (`request.cpp:63`: "if all prompt tokens are in kv cache, then expand") and is never finished (`:50`) |
| `Serving` with `Workloads <- MCOneStream` | `NothingAfterReason` | the response thread reads `finish_reason_` when it builds a delta (`sequence.cpp:184`), which the scheduler may have set for a later token: the reason goes out before the last text (`response_handler.cpp:65`: "close the sequence after sending finish reason") |
| `Serving` with `Workloads <- MCOneStream` | `ReleasedInTheEnd` | a stream given up for lack of memory gets no final status: its `StreamCallData` and its RPC stay for ever (`call_data.h:157`: "the request has been finished, release the calldata") |
| `ServingAfterDelete` | `NothingAfterDelete` | `send_response` sets the alarm and then reads `rpc_ok_` (`call_data.h:117-119`). For a final status the alarm lets the server thread finish the call and delete the object in between: the value returned is read from freed memory, and need not be what `call_data.h:100` says ("returns false if the rpc channel has been closed/cancelled"). Nothing else is used after the delete (`CallsSafe`), and no handler acts on the value (`LastReadUnused` in `ContractKept`) |
| `LLMEngine` with `Configs <- MCPackedConfigs` | `WorldSizeIndependent` | GPT-2, Qwen, Baichuan, Phi and ChatGLM shard the packed q, k, v tensor contiguously and split each shard in three (`gpt2.h:99-126`): with two devices heads get other tensors' columns. The table of models in the repository's `README.md` (`:258`) says "Yes" to tensor parallelism |
| `KernelsScales` | `SumsExact` | in the Marlin kernel the scales of a group that spans several tiles are fetched into the stage of its first tile and read at the group's later tiles; the ring's next fetch overwrites them while a slower warp has yet to read (`gemm_kernel.cuh:451`, `:557`; `:504`: "can only issue the next fetch when it is guaranteed that the previous shared memory load is fully complete") |
| `Execution` with `Setups <- MCPresence` | `GeneratedRight` | a presence penalty is applied only if some request of the batch has a frequency penalty (`logits_processor.cpp:14`); a frequency penalty without a presence penalty in the batch fails a `CHECK` (`logits_processor.h:125`) |

Seen while modelling, without a configuration:

- kv heads repeated over more devices than heads abort with a bias (Qwen2), and with `desc_act` or other
  quantized tensors whose prefix is not selected by the transform, although `qkv_linear.h:12` announces "support of MQA/GQA";
- MPT's slopes for a number of heads that is no power of two, and its `q_ln`/`k_ln` on several devices;
- the row layer of AWQ-Marlin allocates its workspace with the dtype of the options
  (`qlinear_awq_marlin_impl.cpp:299`), where the column layer asks for int32;
- the quantized classes other than Marlin do not load `g_idx`: a checkpoint with `desc_act` is dequantized
  with groups in the order of the inputs;
- a batch padded for a CUDA graph still counts its unpadded sequences (`batch.cpp:218`, `:247`) and never
  replays;
- the CPU attention handler attends to the new slots only;
- on the CPU, padding ids of the penalty tensors scatter into token 0 (`logits_processor.h:23`, a TODO);
- the block table of a captured graph has room for draft tokens of one extra block only
  (`model_runner.cpp:56-58`);
- Marlin: `write_result` copies from shared memory without a barrier before the next slice's first fetch
  (`gemm_kernel.cuh:1010-1019`); the act-order window is refetched without one (`:1097`), and reads a
  `g_idx` past the end whose value is unused (`:1090`);
- `stoped_` is never cleared: `start` after `stop` ends at once;
- at teardown in loop mode the scheduler frees running requests, and the tokenizer goes, before the
  response pool has drained;
- `request->sequences` may grow (expansion) while the response thread reads other elements of the deque;
- the temperature kernel reads an uninitialized value for batches of more than 1024 rows.

## Not modelled

- Tokenizers, chat templates, model files and argument loading, HTTP server, REST gateway, metrics: pure
  functions over large tables, or input and output.
- Element-wise kernels (activation, norm, rotary embedding), the exllama and AWQ kernels, the fp8 and plain
  int4 layouts of Marlin (their launches are), its per-column scale staging and act-order window, its
  sparse variant (not compiled), CPU attention, flash-attention and flash-infer back ends: floating-point
  computation without control state of its own, or code of other projects.
- Log probabilities, the ranking of `best_of` sequences, statistics in responses. Equal logits are taken
  to sort by id. Sampled probabilities are modelled by what they allow.
- Shutting the gRPC server down beyond failed registrations; the checks of request parameters, which are
  one choice between accepting and refusing.
- Sizes the Marlin layers require of real models (multiples of 64 and more) are scaled away in
  `tensor_parallel`; `MarlinLaunch` keeps them.
- Whether all blocks of a Marlin grid are resident is the GPU's business: were they not, the locks would
  wait for ever.
