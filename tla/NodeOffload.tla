----------------------------- MODULE NodeOffload -----------------------------
(***************************************************************************)
(* What a client-aided call() promises, with the client, the session and   *)
(* the batching hidden: the nodes run in order; each takes an operand and  *)
(* then, in one step, its output becomes the node's function of that       *)
(* operand (ReLU of every slot, or the maximum of every window); once the   *)
(* last node has run the call returns.  The executable may then be        *)
(* called again, from its first node.                                      *)
(***************************************************************************)
EXTENDS Integers, Sequences

CONSTANTS Slots, Values, Nodes, MaxLists

VARIABLES
    node,      \* nodes completed
    phase,     \* "idle", or "busy" while a node has its operand
    arg,       \* the operand of the current or last node
    result,    \* the output of the last completed node
    returned   \* call() has returned

avars == <<node, phase, arg, result, returned>>

Slot == [tag : {"Plain", "Cipher"}, val : Values]

ReluOf(x) == IF x > 0 THEN x ELSE 0

\* The maximum of the values in the window of a MaxPool cell.
WindowMax(t, w) == CHOOSE m \in {t[w[k]].val : k \in DOMAIN w} :
                      \A k \in DOMAIN w : t[w[k]].val <= m

\* The output of a node of the given kind on operand t.
Apply(kind, t) ==
    IF kind = "Relu" THEN [i \in Slots |-> ReluOf(t[i].val)]
    ELSE [c \in DOMAIN MaxLists |-> WindowMax(t, MaxLists[c])]

Init ==
    /\ node = 0
    /\ phase = "idle"
    /\ arg \in [Slots -> Slot]
    /\ result = <<>>
    /\ returned = FALSE

\* The next node receives its operand.
Take(t) ==
    /\ phase = "idle"
    /\ node < Len(Nodes)
    /\ phase' = "busy"
    /\ arg' = t
    /\ UNCHANGED <<node, result, returned>>

\* The node completes with its function of the operand.
Complete ==
    /\ phase = "busy"
    /\ result' = Apply(Nodes[node + 1], arg)
    /\ node' = node + 1
    /\ phase' = "idle"
    /\ UNCHANGED <<arg, returned>>

\* After the last node the call returns.
Return ==
    /\ phase = "idle"
    /\ node = Len(Nodes)
    /\ ~returned
    /\ returned' = TRUE
    /\ UNCHANGED <<node, phase, arg, result>>

\* A returned call is followed by another call of the executable.
CallAgain ==
    /\ returned
    /\ node' = 0
    /\ returned' = FALSE
    /\ UNCHANGED <<phase, arg, result>>

Next == (\E t \in [Slots -> Slot] : Take(t)) \/ Complete \/ Return \/ CallAgain

Spec == Init /\ [][Next]_avars
=============================================================================
