------------------------------ MODULE Dispatch ------------------------------
(***************************************************************************)
(* HESealExecutable::call (he_seal_executable.cpp) in client mode: the    *)
(* node loop over m_nodes with its tensor_map, and generate_calls, the     *)
(* dispatch of each node to its kernel with the lazy-modulus protocol      *)
(* around it.  The backend flag lazy_mod() (he_seal_backend.hpp, read from *)
(* LAZY_MOD) makes ciphertext additions add 64-bit coefficient limbs       *)
(* without reduction; the dispatcher turns it off around a single Add or   *)
(* Multiply, and closes Convolution, Dot and AvgPool with mod_reduce_seal  *)
(* and rescale_seal.                                                       *)
(*                                                                         *)
(* tensor_map maps an output descriptor of a node to its HETensor: the     *)
(* caller's tensors for the parameter and the result, a tensor created     *)
(* under the descriptor's name for every other node.  After a node, every  *)
(* descriptor of its liveness_free_list is erased by name.  A descriptor   *)
(* is a node's position in m_nodes and its name that position; 0 is the    *)
(* default name "external" of the caller's tensors.                        *)
(*                                                                         *)
(* Data abstraction: a tensor is one ciphertext and a ciphertext is one    *)
(* coefficient limb: the stored word (0 .. 2^W-1, W = 64 in the code) and  *)
(* its scale degree (1 = the nominal scale, 2 = after a product).  The     *)
(* ghost val is what the tensor holds when every addition reduces, the     *)
(* lazy-off result; it is reduced mod Q, the limb's prime.  A kernel       *)
(* reduces Terms elements of its input (the reduction length of Dot, the   *)
(* window of Convolution and AvgPool, the axes of Sum).  The kernels are   *)
(* not in the repository; they follow spec.md sections 4.2 and 4.3.        *)
(* Every node reads one tensor; a binary node takes a canonical plaintext  *)
(* operand (a weight or constant) from Values.                             *)
(***************************************************************************)
EXTENDS Integers, Sequences, TLC

Seqs == INSTANCE SequencesExt

CONSTANTS
  Graphs,     \* the m_nodes a call may execute: [kind, arg] with arg the
              \* descriptor read; first the Parameter, last the Result
  Q,          \* the coefficient-modulus prime of the limb
  W,          \* bits of a coefficient word
  Terms,      \* elements one kernel accumulates
  Values      \* plaintext operands, weights and inputs, as residues mod Q

ASSUME /\ Q > 1 /\ 2^W > Q /\ Terms >= 1
       /\ Values \subseteq 0..(Q-1)

VARIABLES
  graph,      \* m_nodes
  op,         \* nodes of m_nodes visited
  pc,         \* "bind", then "run", "failed" after a throw
  lazy,       \* m_he_seal_backend.lazy_mod()
  tmap,       \* tensor_map: descriptor -> tensor id
  tensors     \* the HETensors: id -> [word, deg, val (ghost), name]

vars == <<graph, op, pc, lazy, tmap, tensors>>

Word == 2^W

(* Kernels.  SEAL's add_poly_coeffmod subtracts Q once; it assumes both    *)
(* inputs below Q and the 64-bit sum wraps like the word it is.           *)
AddMod(a, b) == LET s == (a + b) % Word IN IF s >= Q THEN s - Q ELSE s

(* sub_poly_coeffmod: 64-bit difference, plus Q on a borrow.              *)
SubMod(a, b) == (((a - b) % Word) + (IF a < b THEN Q ELSE 0)) % Word

(* negate_poly_coeffmod: Q - a for a nonzero coefficient.                 *)
NegateMod(a) == IF a = 0 THEN 0 ELSE (Q - a) % Word

(* A product with a plaintext leaves the canonical residue (spec 4.2: a    *)
(* multiply restores canonical form).                                     *)
MulMod(a, b) == (a * b) % Q

(* scalar_add_seal(arg0, arg1, out): the library add, or with lazy_mod     *)
(* the inline limb add out := out + arg0, which never reads arg1.          *)
AddSeal(a0, a1, out, lazyOn) ==
  IF lazyOn THEN (out + a0) % Word ELSE AddMod(a0, a1)

(* A kernel's inner accumulation: acc := acc + t for every term, through   *)
(* scalar_add_seal with out = arg1 = the accumulator.                      *)
Accumulate(terms, lazyOn) ==
  Seqs!FoldLeft(LAMBDA acc, t : AddSeal(t, acc, acc, lazyOn), 0, terms)

(* mod_reduce_seal: every coefficient reduced mod its prime.              *)
ModReduce(w) == w % Q

(* rescale_seal: one step down the chain; restores canonical form and      *)
(* divides the scale by the dropped prime (spec 4.2).                      *)
Rescale(c) == [word |-> c.word % Q, deg |-> c.deg - 1]

(* The client's Relu on a decrypted residue, read as a signed value.      *)
ReluRes(r) == IF r > Q \div 2 THEN 0 ELSE r

External == 0

\* The caller's input tensor of the Parameter and output tensor of the Result.
In  == <<"caller", 1>>
Out == <<"caller", 2>>

Node == graph[op + 1]

\* The tensor the node reads: tensor_map.at(input tensor).
ct == tensors[tmap[Node.arg]]

val == ct.val

(* ngraph::pass::Liveness, which fills liveness_free_list: a descriptor is *)
(* freed after its last reader, or after its own node when nothing reads   *)
(* it; the parameter's, the Result's and the Result's input are kept.     *)
Readers(d) == {i \in 1..Len(graph) : graph[i].arg = d}

Persistent(d) ==
  graph[d].kind = "Parameter" \/ d = Len(graph) \/ Len(graph) \in Readers(d)

LastUse(d) == IF Readers(d) = {} THEN d ELSE Seqs!Max(Readers(d))

FreeList(k) == {d \in 1..Len(graph) : ~Persistent(d) /\ LastUse(d) = k}

(* m_lazy_mod is read once from the LAZY_MOD environment variable; the      *)
(* graph, the input value and the flag are drawn, and the two tensors are   *)
(* created under the default name.                                          *)
Init ==
  /\ graph \in Graphs
  /\ op = 0
  /\ pc = "bind"
  /\ lazy \in BOOLEAN
  /\ tmap = [d \in {} |-> In]
  /\ \E x \in Values :
       tensors = (In :> [word |-> x, deg |-> 1, val |-> x, name |-> External])
                 @@ (Out :> [word |-> 0, deg |-> 1, val |-> 0, name |-> External])

(* call(): the parameter's descriptor is mapped to the input tensor and    *)
(* the Result's to the caller's output tensor, before the loop.            *)
MapTensors ==
  /\ pc = "bind"
  /\ tmap' = (1 :> In) @@ (Len(graph) :> Out)
  /\ pc' = "run"
  /\ UNCHANGED <<graph, op, lazy, tensors>>

(* The loop of call() passes over a Parameter.                             *)
SkipParameter ==
  /\ pc = "run" /\ op < Len(graph) /\ Node.kind = "Parameter"
  /\ op' = op + 1
  /\ UNCHANGED <<graph, pc, lazy, tmap, tensors>>

(* The switch in generate_calls on the kind of the next node.             *)
Step(kind) == pc = "run" /\ op < Len(graph) /\ Node.kind = kind

\* Mutant: the output tensor is always created, never looked up.
OutputIdAlwaysNew == <<"node", op + 1>>

(* The node's output tensor: tensor_map.find, or a new tensor.            *)
OutputId == IF op + 1 \in DOMAIN tmap THEN tmap[op + 1] ELSE <<"node", op + 1>>

(* Erase the first tensor_map entry whose tensor bears the name nm; the   *)
(* names of created tensors are distinct, so the order of the unordered   *)
(* map does not matter.                                                    *)
EraseByName(m, nm, ts) ==
  LET hits == {d \in DOMAIN m : ts[m[d]].name = nm}
  IN  IF hits = {} THEN m
      ELSE [d \in DOMAIN m \ {CHOOSE d \in hits : TRUE} |-> m[d]]

\* Mutant: the output tensor is created with the default name.
EmitUnnamed(word, deg, v) ==
  LET id == OutputId
      nm == IF id \in DOMAIN tensors THEN tensors[id].name ELSE External
      ts == (id :> [word |-> word, deg |-> deg, val |-> v, name |-> nm]) @@ tensors
  IN  /\ tensors' = ts
      /\ tmap' = Seqs!FoldSet(LAMBDA d, m : EraseByName(m, d, ts),
                              (op + 1 :> id) @@ tmap, FreeList(op + 1))
      /\ op' = op + 1
      /\ UNCHANGED <<graph, pc>>

(* The rest of the loop body around generate_calls: the output tensor is   *)
(* found in tensor_map or created under the descriptor's name and          *)
(* inserted, the kernel writes it, and the free list is erased by name.    *)
Emit(word, deg, v) ==
  LET id == OutputId
      nm == IF id \in DOMAIN tensors THEN tensors[id].name ELSE op + 1
      ts == (id :> [word |-> word, deg |-> deg, val |-> v, name |-> nm]) @@ tensors
  IN  /\ tensors' = ts
      /\ tmap' = Seqs!FoldSet(LAMBDA d, m : EraseByName(m, d, ts),
                              (op + 1 :> id) @@ tmap, FreeList(op + 1))
      /\ op' = op + 1
      /\ UNCHANGED <<graph, pc>>

(* Add with lazy_mod on: the flag is set false around add_seal and set     *)
(* true again, so the library add runs.  Defined with the flag it passes   *)
(* to add_seal; AddKeepsLazy passes the backend flag itself.               *)
AddKeepsLazy ==
  /\ Step("Add")
  /\ \E b \in Values : Emit(AddSeal(ct.word, b, 0, lazy), ct.deg, (val + b) % Q)
  /\ UNCHANGED lazy

Add ==
  /\ Step("Add")
  /\ \E b \in Values : Emit(AddSeal(ct.word, b, 0, FALSE), ct.deg, (val + b) % Q)
  /\ UNCHANGED lazy

(* Multiply: the flag is off around multiply_seal, then rescale_seal.     *)
(* MultiplyNoRescale leaves out the trailing rescale_seal.                 *)
MultiplyNoRescale ==
  /\ Step("Multiply")
  /\ \E b \in Values :
       Emit(MulMod(ct.word, b), ct.deg + 1, (val * b) % Q)
  /\ UNCHANGED lazy

Multiply ==
  /\ Step("Multiply")
  /\ \E b \in Values :
       LET r == Rescale([word |-> MulMod(ct.word, b), deg |-> ct.deg + 1])
       IN  Emit(r.word, r.deg, (val * b) % Q)
  /\ UNCHANGED lazy

(* AvgPool, Convolution and Dot: Terms products with weights, accumulated  *)
(* with the backend flag as it is, then mod_reduce_seal if lazy_mod() and  *)
(* rescale_seal.                                                           *)
MultiplyAccumulate(kind) ==
  /\ Step(kind)
  /\ \E ws \in [1..Terms -> Values] :
       LET acc == Accumulate([i \in 1..Terms |-> MulMod(ct.word, ws[i])], lazy)
           red == IF lazy THEN ModReduce(acc) ELSE acc
           r   == Rescale([word |-> red, deg |-> ct.deg + 1])
       IN  Emit(r.word, r.deg,
                Seqs!FoldLeft(LAMBDA s, w : (s + val * w) % Q, 0, ws))
  /\ UNCHANGED lazy

AvgPool == MultiplyAccumulate("AvgPool")

Convolution == MultiplyAccumulate("Convolution")

Dot == MultiplyAccumulate("Dot")

(* SumRescaled closes Sum as spec 4.3 says of it (mod_reduce + rescale).   *)
SumRescaled ==
  /\ Step("Sum")
  /\ LET acc == Accumulate([i \in 1..Terms |-> ct.word], lazy)
     IN  Emit(ModReduce(acc), ct.deg - 1, (Terms * val) % Q)
  /\ UNCHANGED lazy

(* Sum: sum_seal accumulates the reduced elements and nothing follows.    *)
Sum ==
  /\ Step("Sum")
  /\ Emit(Accumulate([i \in 1..Terms |-> ct.word], lazy), ct.deg,
          (Terms * val) % Q)
  /\ UNCHANGED lazy

Negative ==
  /\ Step("Negative")
  /\ Emit(NegateMod(ct.word), ct.deg, (Q - val) % Q)
  /\ UNCHANGED lazy

Subtract ==
  /\ Step("Subtract")
  /\ \E b \in Values : Emit(SubMod(ct.word, b), ct.deg, (val - b) % Q)
  /\ UNCHANGED lazy

(* Relu with enable_client(): handle_server_relu_op sends the ciphertext,  *)
(* the client decrypts, applies Relu and returns a fresh encryption at the *)
(* nominal scale.  The exchange itself is module Executable.               *)
Relu ==
  /\ Step("Relu")
  /\ Emit(ReluRes(ct.word % Q), 1, ReluRes(val))
  /\ UNCHANGED lazy

(* Broadcast, Reshape and Result copy ciphertexts.                        *)
Move(kind) ==
  /\ Step(kind)
  /\ Emit(ct.word, ct.deg, val)
  /\ UNCHANGED lazy

Broadcast == Move("Broadcast")

Reshape == Move("Reshape")

Result == Move("Result")

(* Exp and Max: NGRAPH_CHECK(!enable_client()) throws; so does every op   *)
(* of the unsupported list.                                               *)
Throw(kind) ==
  /\ Step(kind)
  /\ pc' = "failed"
  /\ UNCHANGED <<graph, op, lazy, tmap, tensors>>

Exp == Throw("Exp")

Max == Throw("Max")

Unsupported == Throw("Tanh")

Next ==
  \/ MapTensors \/ SkipParameter
  \/ Add \/ Multiply \/ AvgPool \/ Convolution \/ Dot \/ Sum
  \/ Negative \/ Subtract \/ Relu
  \/ Broadcast \/ Reshape \/ Result
  \/ Exp \/ Max \/ Unsupported

Spec == Init /\ [][Next]_vars

-----------------------------------------------------------------------------

TypeOK ==
  /\ op \in 0..Len(graph)
  /\ pc \in {"bind", "run", "failed"}
  /\ lazy \in BOOLEAN
  /\ DOMAIN tmap \subseteq 1..Len(graph)
  /\ \A id \in DOMAIN tensors :
       /\ tensors[id].word \in 0..(Word - 1) /\ tensors[id].deg \in 1..2
       /\ tensors[id].val \in 0..(Q - 1)
       /\ tensors[id].name \in {External} \cup 1..Len(graph)

(* Lazy-mod equivalence (spec section 8, property 4): with LAZY_MOD set,   *)
(* every tensor a node writes decrypts to what the lazy-off execution      *)
(* holds.  It needs the flag off around a lone Add, every lazy             *)
(* accumulation closed before its words are consumed, and no limb          *)
(* wrapping past 2^W.                                                      *)
LazyEquivalence == \A id \in DOMAIN tensors : tensors[id].word % Q = tensors[id].val

(* Every node hands the next a ciphertext at the nominal scale: products   *)
(* are closed by exactly one rescale_seal and nothing else rescales.       *)
ScaleNominal == \A id \in DOMAIN tensors : tensors[id].deg = 1

(* The frees of the node loop take effect: once a node has run, no         *)
(* descriptor of a free list already processed is left in tensor_map,      *)
(* although the erase matches the HETensor's name, not the descriptor.     *)
TensorsFreed ==
  \A d \in DOMAIN tmap : Persistent(d) \/ LastUse(d) > op

(* The Result writes the caller's output tensor: when the loop is over,    *)
(* the tensor passed to call() holds what the Result's input holds, and   *)
(* that input is still in tensor_map.                                      *)
ResultDelivered ==
  pc = "run" /\ op = Len(graph) =>
    /\ graph[Len(graph)].arg \in DOMAIN tmap
    /\ tensors[Out] = [tensors[tmap[graph[Len(graph)].arg]] EXCEPT !.name = External]

=============================================================================
