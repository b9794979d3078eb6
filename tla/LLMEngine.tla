----------------------------- MODULE LLMEngine -----------------------------
(***************************************************************************)
(* LLMEngine on several devices: the thread that calls it hands every step *)
(* to the Workers, one thread and one device each, and waits for all of    *)
(* them.  The devices meet in the collectives of the layers: one goes on   *)
(* only when all have come to the same one.  What the ranks compute is     *)
(* Models; here it is carried along step by step.                          *)
(*                                                                         *)
(* A task is the sequence of operations a worker puts on its device's      *)
(* stream, <<kind, segment>>: "gpu", computed by the device alone,         *)
(* "reduce" and "gather".  A segment of the forward pass ends with a       *)
(* collective; 0 stands for none.                                          *)
(***************************************************************************)
EXTENDS Models, FiniteSetsExt

CONSTANTS Configs,  \* the models, checkpoints and devices to start on
          BlockBytes  \* bytes of a block per kv head, head dimension and layer

ASSUME EngineAssumption == BlockBytes \in Nat \ {0} /\ \A m \in Configs : m.ws \in Nat \ {0}

VARIABLES
  m,        \* the configuration
  at,       \* where the engine's caller is
  next,     \* the workers the current task was scheduled on so far
  todo,     \* for each worker, the operations of its task that are left
  selected, \* whether the batch has tokens to compute logits for
  model,    \* model_: its operations by segments, the first ones forward, the others logits
  h,        \* the last segment computed, and the model's variables after it
  step,     \* the segments whose weights are verified
  n_blocks  \* the blocks of the kv cache on every worker

control == <<m, at, next, todo, selected, step, n_blocks>>

vars == <<control, model, h>>

Threads == Ranks(m)

---------------------------------------------------------------------------
(* The workers' tasks.                                                     *)

\* ParallelEmbedding and lm_head end in a gather, a row-parallel layer in a reduce.
Kind(o) == CASE o.op \in {"embed", "head"} -> "gather" [] o.op = "row" -> "reduce" [] OTHER -> "gpu"

\* The operations of a model up to and with each collective, and the rest.
Segments(ops) ==
  FoldLeft(LAMBDA a, o : IF a = <<>> \/ Kind(Last(Last(a))) # "gpu" THEN Append(a, <<o>>) ELSE Append(Front(a), Append(Last(a), o)), <<>>, ops)

Create(causal_lm) ==
  [segments |-> Segments(causal_lm.forward) \o Segments(causal_lm.logits), forward |-> Len(Segments(causal_lm.forward))]

\* What a worker puts on the stream for a segment.
Stream(from, to) ==
  FlattenSeq([k \in 1..(to - from + 1) |->
     IF Kind(Last(model.segments[from + k - 1])) = "gpu" THEN <<<<"gpu", from + k - 1>>>>
     ELSE <<<<"gpu", 0>>, <<Kind(Last(model.segments[from + k - 1])), from + k - 1>>>>])

Forward == Stream(1, model.forward)

Logits == Stream(model.forward + 1, Len(model.segments))

\* Mutant of ExecuteModel: only the driver computes the logits.
ExecuteModelDriver(r) ==
  Forward \o (IF r = 1 /\ selected THEN Append(Logits, <<"gpu", 0>>) ELSE <<>>)

\* Worker::execute_model: all ranks compute the logits, the driver samples.
ExecuteModel(r) ==
  Forward \o (IF selected THEN Logits ELSE <<>>)
          \o (IF r = 1 /\ selected THEN <<<<"gpu", 0>>>> ELSE <<>>)

\* Worker::process_group_test; CudaGraph::capture: a forward pass to warm up,
\* whose collectives run, then one that is only recorded.
Task(r) ==
  CASE at = "group_test" -> <<<<"gpu", 0>>, <<"reduce", 0>>, <<"gather", 0>>>>
    [] at = "capture" -> Append([i \in DOMAIN Forward |-> <<Forward[i][1], 0>>], <<"gpu", 0>>)
    [] at = "execute" -> ExecuteModel(r)
    [] OTHER -> <<<<"gpu", 0>>>>

\* A worker's device carries out an operation of its own.
Gpu(r) ==
  /\ todo[r] # <<>> /\ Head(todo[r])[1] = "gpu"
  /\ todo' = [todo EXCEPT ![r] = Tail(@)]
  /\ UNCHANGED <<m, at, next, selected, step, n_blocks>>

\* All devices have come to the same collective.
Collective ==
  /\ \A r \in Threads : todo[r] # <<>> /\ Head(todo[r])[1] = Head(todo[1])[1]
  /\ Head(todo[1])[1] \in {"reduce", "gather"}
  /\ todo' = [r \in Threads |-> Tail(todo[r])]
  /\ UNCHANGED <<m, at, next, selected, step, n_blocks>>

\* The segments that are not complete.
Pending(ops) == UNION {{ops[r][k][2] : k \in DOMAIN ops[r]} : r \in Threads} \ {0}

---------------------------------------------------------------------------
(* The thread that calls the engine.                                       *)

Tasks == {"group_test", "init_model", "load_1", "load_2", "profile", "kv_cache", "capture", "execute"}

NotCreated == [segments |-> <<>>, forward |-> 0]

NotComputed == <<0, Undefined>>

Init ==
  /\ m \in Configs
  /\ at = IF m.ws > 1 THEN "group_test" ELSE "init_model"
  /\ next = 0 /\ todo = [r \in Threads |-> <<>>]
  /\ selected = FALSE /\ model = NotCreated /\ h = NotComputed /\ step = 0 /\ n_blocks = 0

\* The task is put into the queue of the next worker's thread.
Schedule ==
  /\ at \in Tasks /\ next < m.ws
  /\ todo' = [todo EXCEPT ![next + 1] = Task(next + 1)] /\ next' = next + 1
  /\ UNCHANGED <<m, at, selected, step, n_blocks>>

\* collectAll(futures).get().
Collected(phase) == at = phase /\ next = m.ws /\ \A r \in Threads : todo[r] = <<>>

Go(phase) == at' = phase /\ next' = 0

\* The process groups and the model's modules are created.
GroupTested == Collected("group_test") /\ Go("init_model") /\ UNCHANGED <<m, todo, selected, step, n_blocks>>

InitModel ==
  /\ Collected("init_model") /\ Go(IF Constructible(m) THEN "load_1" ELSE "aborted")
  /\ UNCHANGED <<m, todo, selected, step, n_blocks>>

\* One file of the checkpoint after the other.
LoadStateDict ==
  /\ \/ Collected("load_1") /\ Go(IF m.late = {} THEN "verify" ELSE "load_2")
     \/ Collected("load_2") /\ Go("verify")
  /\ UNCHANGED <<m, todo, selected, step, n_blocks>>

\* verify_loaded_weights, module by module; ok says that no CHECK of loading or verifying failed.
Verify ==
  /\ at = "verify" /\ step < Len(model.segments) /\ step' = step + 1
  /\ UNCHANGED <<m, at, next, todo, selected, n_blocks>>

Verified ==
  /\ at = "verify" /\ step = Len(model.segments) /\ Go(IF h[2].h.ok THEN "profile" ELSE "aborted")
  /\ UNCHANGED <<m, todo, selected, step, n_blocks>>

\* Mutant of AvailableMemory: the driver's device stands for all.
AvailableMemoryDriver(devices) == Min({m.memory[Min(devices)]} \cup (IF m.max_cache_size > 0 THEN {m.max_cache_size} ELSE {}))

\* profile_memory_for_kv_cache: the smallest of all devices.
AvailableMemory(devices) == Min({m.memory[d] : d \in devices} \cup (IF m.max_cache_size > 0 THEN {m.max_cache_size} ELSE {}))

\* kv_cache_slot_size_in_bytes * block_size, of the engine and of the draft model's.
BlockSizeInBytes == BlockBytes * KvCacheHeads(m) * m.hd * m.layers

DraftBlockSizeInBytes == BlockBytes * m.draft_slot

\* SpeculativeEngine::init_kv_cache: both engines get as many blocks, out of one memory if they share a device.
SpeculativeBlocks ==
  IF Threads \cap m.draft # {}
  THEN Min({AvailableMemory(Threads), AvailableMemory(m.draft)}) \div (BlockSizeInBytes + DraftBlockSizeInBytes)
  ELSE Min({AvailableMemory(Threads) \div BlockSizeInBytes, AvailableMemory(m.draft) \div DraftBlockSizeInBytes})

Blocks == IF m.draft = {} THEN AvailableMemory(Threads) \div BlockSizeInBytes ELSE SpeculativeBlocks

ProfileMemory ==
  /\ Collected("profile") /\ n_blocks' = Blocks
  /\ Go(IF n_blocks' > 0 THEN "kv_cache" ELSE "aborted")
  /\ UNCHANGED <<m, todo, selected, step>>

InitKVCache ==
  /\ Collected("kv_cache") /\ Go(IF m.enable_cuda_graph THEN "capture" ELSE "ready")
  /\ UNCHANGED <<m, todo, selected, step, n_blocks>>

CaptureCudaGraphs == Collected("capture") /\ Go("ready") /\ UNCHANGED <<m, todo, selected, step, n_blocks>>

\* within(4s): the exception ends the process.
Timeout ==
  /\ at \in {"group_test", "capture"} /\ next = m.ws /\ ~Collected(at) /\ Go("timed_out")
  /\ UNCHANGED <<m, todo, selected, step, n_blocks>>

\* execute_model, from the batch to the result of the driver.
Execute ==
  /\ at = "ready" /\ Go("execute") /\ selected' \in BOOLEAN
  /\ UNCHANGED <<m, todo, step, n_blocks>>

Executed == Collected("execute") /\ Go("ready") /\ UNCHANGED <<m, todo, selected, step, n_blocks>>

Engine ==
  \/ Schedule \/ GroupTested \/ InitModel \/ LoadStateDict \/ Verify \/ Verified \/ ProfileMemory \/ InitKVCache
  \/ CaptureCudaGraphs \/ Executed

ApplyAll(env, ops) == FoldLeft(LAMBDA e, o : Apply(m, e, o), env, ops)

\* The segment that is complete with this step, or verified in it.
Computed ==
  IF at = "verify" THEN {step'} \ {step}
  ELSE IF at = "execute" THEN Pending(todo) \ Pending(todo') ELSE {}

Compute ==
  /\ model' = IF at = "init_model" /\ at' = "load_1" THEN Create(CausalLM(m)) ELSE model
  /\ h' = IF Computed # {} THEN <<Min(Computed), ApplyAll(h[2], model.segments[Min(Computed)])>>
          ELSE IF at \in {"verify", "ready"} THEN NotComputed
          ELSE h

Next == (Engine \/ Execute \/ Timeout \/ Collective \/ \E r \in Threads : Gpu(r)) /\ Compute

\* The threads run and the devices work; nobody has to call the engine again,
\* and a call need not time out.
FairSpec ==
  /\ Init /\ [][Next]_vars
  /\ WF_control(Engine) /\ WF_control(Collective) /\ WF_control(\E r \in Threads : Gpu(r))

---------------------------------------------------------------------------
(* What the engine owes its caller, whatever the number of devices.        *)

\* Sharding, replicating and fusing weights, and exchanging partial results,
\* never changes what is computed: the logits every rank ends with, and so
\* the ones the driver samples from, are those of one device.
WorldSizeIndependent ==
  at = "ready" /\ selected => h[1] = Len(model.segments) /\ \A r \in Threads : h[2].h.at[r] = h[2].h.ref

\* What the loaders do not take: kv heads replicated in quantized tensors or
\* with a bias, quantization groups across ranks, and, of quantized tensors,
\* those a model transforms or merges in an order by activation.
Unsupported ==
  \/ KvReplication(m, m.ws) > 1 /\ m.name \in QkvModels /\ (m.quant # "" \/ m.bias \/ m.name = "qwen2")
  \/ m.quant # "" /\ \/ m.group_size # -1 /\ (\E n \in {m.hidden, m.inter} : (n \div m.ws) % m.group_size # 0)
                     \/ m.name \notin QkvModels \cup {"simple"} /\ (m.desc_act \/ m.name \notin {"aquila", "internlm", "gptj", "phi"})

\* A checkpoint the ranks divide evenly is loaded whole, wherever its tensors
\* are split into files: no CHECK of loading or verify_loaded_weights fails.
Loads == at = "aborted" /\ step > 0 => Unsupported \/ Blocks = 0

\* init_kv_cache asks no device for more memory than it has, though every
\* device gets the same number of blocks, and a draft model's cache may lie on
\* some of the devices too.
CacheFitsDevices ==
  \A d \in Threads \cup m.draft :
    n_blocks * ((IF d \in Threads THEN BlockSizeInBytes ELSE 0) + (IF d \in m.draft THEN DraftBlockSizeInBytes ELSE 0)) <= m.memory[d]

\* No device is left alone in a collective: every call of the engine
\* returns, and starting it ends in an engine that is ready unless a CHECK
\* fails or the caller has waited too long.
EngineReturns == [](at \in Tasks \cup {"verify"} => <>(at \in {"ready", "aborted", "timed_out"}))

=============================================================================
