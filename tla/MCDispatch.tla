----------------------------- MODULE MCDispatch -----------------------------
(* Instances of Dispatch: m_nodes of a Parameter, up to three nodes over   *)
(* every class of case in generate_calls, and a Result.                    *)
EXTENDS Dispatch

Kinds == {"Add", "Multiply", "AvgPool", "Convolution", "Dot", "Sum",
          "Negative", "Subtract", "Relu", "Broadcast", "Reshape",
          "Exp", "Max", "Tanh"}

(* Nodes whose kernel multiplies or re-encrypts the tensor it reads.      *)
Canonicalizing == {"Multiply", "AvgPool", "Convolution", "Dot", "Relu",
                   "Exp", "Max", "Tanh"}

(* m_nodes with the given middle kinds, node i + 1 reading descriptor      *)
(* args[i], and the Result reading the last of them.                       *)
Build(ks, args) ==
  <<[kind |-> "Parameter", arg |-> 0]>>
  \o [i \in 1..Len(ks) |-> [kind |-> ks[i], arg |-> args[i]]]
  \o <<[kind |-> "Result", arg |-> Len(ks) + 1]>>

(* A Sum is read only by the Result or a node of Canonicalizing: the      *)
(* graphs the lazy-mod protocol handles.                                   *)
SumsClosed(g) ==
  \A d \in 1..Len(g) :
    g[d].kind = "Sum" =>
      \A r \in 1..Len(g) : g[r].arg = d => g[r].kind \in Canonicalizing \cup {"Result"}

(* Chains of three nodes, and two nodes both reading the parameter (the   *)
(* first then dead and freed by its own node) or in a chain.               *)
MCSafeGraphs ==
  {g \in {Build(ks, <<1, 2, 3>>) : ks \in [1..3 -> Kinds]}
         \cup {Build(ks, a) : ks \in [1..2 -> Kinds], a \in {<<1, 1>>, <<1, 2>>}} :
     SumsClosed(g)}

(* Every chain of two nodes over Sum and the nodes that consume it.       *)
MCSumGraphs == {Build(ks, <<1, 2>>) : ks \in [1..2 -> {"Sum", "Add", "Dot", "Relu"}]}
=============================================================================
