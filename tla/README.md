# TLA+ models of he-transformer's SEAL backend

This directory holds TLA+ models of the parts of he-transformer's SEAL
backend that are in this tree, and the TLC runs that check them. The
backend runs neural-network graphs on CKKS-encrypted data. The sources
are:

- `src/src/CMakeLists.txt`, which embeds `add_seal.cpp` (lines 154-316)
  and `he_seal_encryption_parameters.cpp` (lines 335-579);
- `src/src/seal/he_seal_executable.cpp` (the executable: session, call
  loop and client-aided nonlinear ops) and `he_seal_backend.hpp`;
- `src/unnamed/part_000`, the `seal_util` unit tests;
- `src/test/test_add.in.cpp` (Add tests) and `src/cmake/seal.cmake`
  (build).

## The system and how its parts interact

- **CKKS adapter** (SEAL, not in this tree). A ciphertext lives at a
  chain index (level) with a scale. `rescale_to_next` drops one prime and
  divides the scale by it. `mod_switch_to_next` drops a prime and keeps
  the scale. `add` needs equal levels and scales.
- **Modulus manager** (`match_modulus_and_scale_inplace`, not in this
  tree). It makes two operands addable: first it mod-switches both down
  to the lower level, then it reconciles their scales.
- **Kernels.** `add_seal` runs `scalar_add_seal` on every slot in an
  OpenMP parallel-for. It dispatches on plain/cipher, matches the
  operands, and has an optional lazy-mod path that adds limbs without
  reduction.
- **Node dispatch** (`generate_calls`). `call()` hands each node to
  `generate_calls`, which switches on the op type. Add and Multiply clear
  the backend's `lazy_mod()` flag around the single op and set it again.
  AvgPool, Convolution and Dot run their kernel, then `mod_reduce_seal`
  if `lazy_mod()`, then `rescale_seal`. Multiply rescales too. Sum runs
  `sum_seal` and nothing more. Relu, BoundedRelu and MaxPool go to the
  client. Exp, Max and every op of the unsupported list throw in client
  mode.
- **Tensor map** (the node loop of `call()`). Before the loop,
  `tensor_map` maps the parameters' descriptors to the input tensors and
  the Result's descriptor to the caller's output tensor. For each node,
  the loop looks up its inputs and then looks up its outputs, creating
  missing ones under the descriptor's name. It then calls
  `generate_calls` and erases every descriptor of the node's
  `liveness_free_list`. The erase finds its entry by the HETensor's name.
- **Encryption parameters.** The server parses a JSON config or takes
  the defaults, then validates the scheme, degree, security level and
  SEAL context. It saves the parameters to the client, which loads them.
- **Executable.** Three actors run one client-aided inference.
  - The main thread runs `call()`. `server_setup` starts the acceptor
    and the session thread, waits for `m_session_started`, writes the
    encryption parameters, then clears and resizes `m_client_inputs`.
    `call()` waits for `m_client_inputs_received`, binds the client's
    parameter, then runs the nodes in order and ends with
    `send_client_results`. A later `call()` on the same executable finds
    `m_server_setup` set and `m_client_inputs_received` still true, so it
    goes straight to binding.
  - Relu and MaxPool on ciphertexts go to the client.
    `handle_server_relu_op` sends every batch of ciphertext slots and
    then waits on `m_relu_cond`. `handle_server_max_pool_op` sends one
    request per output cell and waits on `m_max_pool_cond` after each.
  - The session thread (`m_io_context.run`) runs the accept callback and
    `handle_message`, one message at a time. It loads the two keys and
    sends the inference-shape request once both are in. It loads the
    client's ciphertext chunks into `m_client_inputs`, and stores Relu
    and MaxPool results, each under its mutex, followed by a notify.
  - The client (`pyhe_client`, not in this tree) answers the parameters
    with its keys, the shape request with its input tensor in chunks,
    and each Relu or MaxPool request with the result.

## Modules

| Module | Models | State / actions |
|---|---|---|
| `CKKS` | SEAL ciphertexts (from the spec) | operators only. A scale is `mul` (primes multiplied in) and `by` (levels divided out), so two scales are equal only when built the same way. |
| `ModulusChain` | `match_modulus_and_scale_inplace`, `rescale` (from the spec) | operators; errors are returned, not thrown |
| `AddSeal` | `add_seal` and the four `scalar_add_seal` overloads | `arg0, arg1, out` (tensors), `done`, `fault`, `in0, in1` (the operands given). One action `AddSlot(i)` per iteration of the parallel-for; an error stops every iteration (std::terminate). |
| `MatchModulus` | the test `seal_util.match_modulus_and_scale_inplace`, generalised | `cipher1, cipher2, pc, err`. `PerformModulusOperation` (any number, either cipher), `Match(reverse)`, `CheckDecryption`. |
| `EncryptionParameters` | `HESealEncryptionParameters` and the parameter message of `server_setup` | `server, stream, sent, client`. `SetConfig(c)`, `UseComplexPacking`, `SendParameters`, `ClientLoad`. |
| `Executable` | `HESealExecutable` in client mode: `server_setup`, `accept_connection`, `handle_message`, the key loaders, `send_inference_shape`, `handle_client_ciphers`, `call()`, the Relu and MaxPool offload and their result handlers, `send_client_results` | Main thread: `epc` (its program counter), `op`, `input`, `out`; Relu state `unknown`, `sentUpTo`, `reluData`, `doneCount`; MaxPool state `cell`, `maxPoolData`, `maxPoolDone`. Session state: `sessionStarted`, `pkSet`, `ekSet`, `sentShape`, `clientInputs` (for each parameter, Nil or the chunks loaded), `inputsReceived`, `crashed`. Channels `toClient`, `toServer`, and `closed`. `calls` counts the `call()`s; the ghost `inputsCall` records the call in which the client's input completed. The main-thread actions are `StartServer` … `SendClientResults`, one per step between waits; `CheckResultWritten` and `BlockOnWriting`, the test of the session's `writing` flag and the block on its condition variable, kept apart because the notifier does not hold the waiter's mutex; and `NextCall`, the next `call()`. The session-thread actions are `Accept`, `HandleKey`, `HandleClientCiphers`, `HandleReluResult`, `HandleMaxPoolResult` and `WriteComplete`, the end of the result write. The client acts in `ClientRespond`; the network in `ConnectionLost`. |
| `Dispatch` | the node loop of `call()` with its `tensor_map`, `generate_calls`, and the backend's `lazy_mod()` flag (`he_seal_backend.hpp:331-341`) | `graph` (`m_nodes`: a Parameter, the nodes, a Result; each node reads one descriptor), `op`, `pc` ("bind"/"run"/"failed"), `lazy`, `tmap` (`tensor_map`: descriptor to tensor id) and `tensors` (every HETensor: one coefficient word, its scale degree, its name, and the ghost `val`, what a lazy-off execution holds). `MapTensors` binds the parameter and the result; `SkipParameter` is the loop's `continue`. `Emit`, shared by every case, is the loop body around the kernel: `OutputId` looks up or creates the output, and `EraseByName` runs the frees. The free lists come from nGraph's liveness rule (`FreeList`). There is one action per case: `Add`, `Multiply`, `AvgPool`, `Convolution`, `Dot`, `Sum`, `Negative`, `Subtract`, `Relu`, `Broadcast`, `Reshape` and `Result`, plus the throws `Exp`, `Max` and `Unsupported`. Each action is the whole case, toggles and closes included. The kernels below (the 64-bit limb add, `add_poly_coeffmod`, `sub_poly_coeffmod`, `negate_poly_coeffmod`, `mod_reduce`, `rescale`) follow spec 4.2 and SEAL 3.6.5. |
| `NodeOffload` | what `call()` promises (abstract) | `node`, `phase`, `arg`, `result`, `returned`. `Take(t)`: a node receives its operand. `Complete`: its output becomes ReLU of every slot or the maximum of every window, in one step. `Return`: after the last node. `CallAgain`: the executable is called again. `Executable` maps to it with `Abs == INSTANCE NodeOffload WITH ...`. A node is busy between `StartRelu`/`StartMaxPool` and the step that sets `out`; `node` is `op` plus one once the node is done. |

Each `MC*` module supplies the model values and small sets for its
module. The cfgs name these sets, and a few constants are set in the
cfg directly.

A condition-variable wait `wait(lock, pred)` becomes two steps:
1. With the mutex held, test the predicate, then either go on or sleep.
   Releasing the mutex and sleeping happen in one step.
2. A notify moves a sleeper back to the test.

A lost notify therefore shows up as a thread that sleeps forever. The
waits on `m_session_cond` and `m_client_inputs_cond` have nothing to
check between notify and wake-up, so each is a guard on its predicate.

Undefined behaviour is modelled by what the build does.
`handle_client_ciphers` may index `m_client_inputs` before
`server_setup` has resized it. At that point the vector was never
allocated, so `operator[]` reads through a null data pointer and the
process dies. The model records this in `crashed`, ends the main thread
and tears the connection.

## Runs

| Run | Expect | What it shows |
|---|---|---|
| `add_seal` | pass | Over two slots the setup covers plain/cipher operands at chain indices 2 and 3 (top 3), and fresh, empty-cipher or reused outputs. In every interleaving, each finished slot decrypts to the sum (`AddCorrect`) and the kernel never throws (`NoKernelFault`). The operands, which the match rewrites in place at another level and scale, still decrypt to the values they were given (`OperandsKeepValues`). |
| `add_seal_lazy` | violation | With `lazy_mod`, out becomes out + arg0 and arg1 is ignored (code bug). |
| `match_modulus` | pass | After any sequence of mod-switches and multiply-by-1-then-rescale steps, matching in either order gives addable ciphertexts that still decrypt. |
| `encryption_parameters` | pass | 13 configs are applied in any order: the test configs, the variants with omitted keys, and invalid degrees, security levels, prime sizes and totals. A rejected configuration never replaces the server's parameters (`TypeOK`: a parse error is not a parameter set), and the client loads exactly what was sent, field order included (`ClientMatchesSent`). |
| `encryption_parameters_scale` | violation | The scale is never validated: `[30]` with scale 2^24 is accepted. |
| `executable` | pass | Two calls of one executable: the handshake; a client input in two chunks; a Relu, a MaxPool and a second Relu node over three slots; an in-order client; a connection that may drop. Every node's output is its function of its input (`NodeCorrect`). The client's input is bound whole and the server survives (`InputsBound`). Every call, the second included, returns while the connection stays up, its result write waited for (`CallTerminates`). The calls implement `NodeOffload` (`Refinement`): outputs change only when a node completes, nodes run in order, and the results are sent only after the last node. |
| `dispatch` | pass | The graphs are a Parameter, then three chained nodes or two nodes (a dead first node, or a chain) of the 14 dispatched kinds, then the Result. A Sum may only feed the Result or a multiplying node. LAZY_MOD is on and off. Every node writes a tensor that decrypts to the lazy-off value (`LazyEquivalence`, spec 8, property 4), at the nominal scale (`ScaleNominal`). The name-based frees leave no dead descriptor in `tensor_map` (`TensorsFreed`), and the caller's output tensor holds what the Result reads (`ResultDelivered`). |
| `dispatch_sum_lazy` | violation | With LAZY_MOD on, Sum leaves its lazily added limbs unreduced. The next Add or Sum wraps the 64-bit word, although each kernel alone stays within the lazy-mod bound. Spec 4.3 says a `mod_reduce` closes Sum, and section 7 (OverflowWarning) says a forced one recovers. |
| `executable_close` | violation | A connection torn after the session is accepted and the client's inputs bound leaves `call()` asleep on `m_relu_cond` forever: the Relu batches go to the dead session and no result comes back (`CloseEndsCall`, stated for a tear seen in the Relu wait). The spec says the call aborts with ClientAborted. `ConnectionLost` fires only once `Accept` has started the session. |
| `executable_result_wait` | violation | `send_client_results` waits on the session's `is_writing_cond` while holding the executable's `m_result_mutex`. The session clears `is_writing` and notifies without that mutex, which it never sees. A write that completes between the test and the block loses its notify, and `call()` never returns (`CallTerminates`; a code bug at `he_seal_executable.cpp:920`). |
| `executable_recall` | violation | A second `call()` skips `server_setup` and the wait for client inputs, because `m_client_inputs_received` is never reset. It binds the tensor the client sent for the first call (`InputsFresh`). Spec 4.4 has a per-call `WaitingClientInputs` state. |
| `executable_fast_client` | violation | A client that answers the parameters, keys and shape request before `server_setup` reaches `m_client_inputs.clear()`. Its ciphertexts index an empty vector and the server dies (a code bug at `he_seal_executable.cpp:292`). |

Four disagreements found earlier no longer have runs of their own.
The first three are listed as hazards; the fourth is a case the test
suite itself disables, so it is kept here only as a reproduction.
- `match_modulus_and_scale_inplace` mutates the Add node's operands,
  against spec 4.3. Their values are kept (`OperandsKeepValues`), but
  `OperandsUnchanged`, checked alone under `AddSeal.cfg`, fails.
- `scalar_add_seal(plain, plain)` keeps `min(size0, size1)` elements, so
  `[] + [x]` is `[]`. Set `PlainSizes = {0, 1}` in `AddSeal.cfg` to see
  `AddCorrect` fail.
- `handle_relu_result` ignores the batch offset. Set
  `ClientReorders = TRUE` in `Executable.cfg` to see `NodeCorrect` fail
  with a client that answers out of order.
- The test's disabled Rescale case of `match_modulus_and_scale_inplace`:
  matching a rescaled ciphertext with a fresh one leaves them one level
  apart, so the spec's algorithm breaks its own scale property (8.2).
  Start `MatchModulus` from a rescaled and a fresh ciphertext to see
  `MatchedAreAddable` fail.

A further disagreement is found in the Dispatch model, not checked.
Spec 4.3 also says a `rescale` closes Sum. No product precedes that
rescale, so it would divide a nominal scale by a prime. The mutant
`SumRescaled` shows the effect: the scale degree drops to 0. The code is
right to leave the rescale out; what it lacks is the `mod_reduce`.

The findings in `PROJECT.json` explain every violation. Every property
of a passing run has a mutant, listed in `PROJECT.json`: a plausible bug
in the mapped definition that TLC catches.

### Bounds

- **AddSeal: two slots** are enough for the parallel-for to interleave.
  Levels 2 and 3 give both the equal-level and the mod-switch paths.
  Values are {0,1}, so adding zero takes the `add_zero` shortcut and
  adding one takes the `add_plain` path.
- **MatchModulus: a chain of 3 levels** lets each ciphertext take two
  operations and still reach the bottom, which covers `ChainExhausted`
  and `EndOfChain`.
- **Executable: three slots in Relu batches of two** give one full
  batch, one partial batch and two outstanding requests.
  - Every operand, with zero to three ciphertext slots, is enumerated.
  - The nodes Relu, MaxPool, Relu exercise the resets between nodes.
    The second Relu reuses the first one's `m_relu_data`.
  - The two MaxPool windows `<<1,2>>` and `<<2,3>>` overlap, and the
    second cell needs the reset of `m_max_pool_done`.
  - Two parameters, one of them from the client, and two chunks make
    `done_loading` false after the first chunk and true after the
    second.
  - Two calls (`MaxCalls = 2`) show the second call's path: `server_setup`
    skipped, the wait passed at once, every node run again. A single
    call is the rest of the behaviours.
  - The pass run assumes that the result write never completes between
    the main thread's test of `is_writing` and its block
    (`ResultWaitRace = FALSE`). The `executable_result_wait` run drops
    that assumption.
  - The pass run assumes that `server_setup` finishes before the
    client's ciphertexts arrive (`ClientOutpacesSetup = FALSE`). The
    `executable_fast_client` run drops that assumption.

- **Dispatch: one limb with a small prime and a small word.** The ratio
  2^W / Q stands for 2^64 / q, the headroom the spec's lazy-mod bound is
  about.
  - In `dispatch`, Q = 3 and W = 3: two lazy additions of canonical limbs
    (up to 4) exceed Q but stay below 8. Each kernel accumulates
    `Terms = 2` elements, so lazily added limbs really are unreduced
    before `mod_reduce`.
  - In `dispatch_sum_lazy`, Q = 7 and W = 4. One kernel's accumulation
    (at most 12) fits in 16, and a Sum feeding an Add or a Sum does not.
    This is the same shape as 60-bit primes with about 16 accumulations
    of headroom.
  - Graphs of three nodes contain every pair of adjacent kinds with a
    node before it. The two-node graphs in which both nodes read the
    parameter have a dead node, freed by its own node. In a chain every
    middle descriptor is freed by its reader, and the Result's input is
    kept. Together they are the liveness cases.

Larger bounds repeat these cases.

### Fairness

- The main thread and the session thread are OS threads, so each is
  weakly fair. The session's write handler (`WriteComplete`) runs on the
  session thread.
- The client is a remote process. It is assumed weakly fair only in
  `FairClientSpec`, and `CallTerminates` depends on that.
- Lost connections are never forced.
- `CHECK_DEADLOCK FALSE` is set where the system really stops: the Add
  kernel returns, the test ends, or the call returns after its last node.

## Not modelled, and why

- **SEAL internals** (NTT, key switching, noise) and the numeric accuracy
  of CKKS: below the level at which these properties hold. Values are
  small integers, and a scale is symbolic.
- **Limb overflow in `AddSeal`.** That module abstracts limbs to
  plaintext values, so the 64-bit wrap of the lazy-mod add is modelled
  in `Dispatch` instead.
- **`print_encryption_parameters`, logging, timers**: they change no
  state.
- **The evaluation-key flag's initial value.** It is set at
  construction when the context does not use key switching. The default
  parameters (five primes) do use it, so the model starts with it false
  and both keys are needed.
- **`match_to_smallest_chain_index`, BoundedRelu, and the shape-driven
  cases of `generate_calls`** (BatchNormInference, Concat, Constant,
  Divide, Minimum, Pad, Power, Reverse, Slice, Softmax). BoundedRelu
  takes the same offload path as Relu. The other cases move or combine
  elements by shapes, which `Dispatch` abstracts to a single ciphertext.
  Their kernels are not in this tree.
- **Nodes with several outputs or inputs in the tensor map.** `Dispatch`
  gives each node one output and one data input; a binary node's second
  operand is a plaintext. The liveness pass that fills the free lists
  is nGraph's, so its rule is taken as given. `m_client_outputs` (the
  Result's input, sent to the client) is the same tensor that
  `ResultDelivered` checks.
- **Two calls running at once on one backend.** `lazy_mod()` returns a
  reference to one unlocked bool, which Add and Multiply flip. The
  executor's threading model (spec 5) has one main thread running
  `call()`, and nothing in the tree calls it from two threads. The
  repeated calls it does allow are sequential, and `Executable` models
  them.
- **The session's write queue.** `TCPSession` is not under `src/` of
  this tree; its write handler is modelled from spec 5 as one step,
  `WriteComplete`, that clears `writing` and notifies without the
  executable's `m_result_mutex`.
- **The garbled-circuit (ABY) path**: compiled out by default, and its
  code is not in this tree.
- **Build scripts and the MobileNet README**.

## Plan for the next sittings

1. **Shapes in Dispatch.** Model tensors of two elements, so that
   Concat, Slice and Broadcast move unreduced limbs between positions.
2. **Liveness of the refinement.** State `NodeOffload` with fairness on
   `Complete` and `Return`, and check it under `[]~closed`.
3. **Binary nodes reading two descriptors** in `Dispatch`, so that a
   cipher-cipher Add of two lazily accumulated tensors is reached.
