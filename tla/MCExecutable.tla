---------------------------- MODULE MCExecutable ----------------------------
EXTENDS Executable

\* Three slots and Relu batches of two: one full and one partial batch,
\* and operands with zero to three ciphertext slots.
MCSlots == 1..3
MCValues == {-1, 1}

\* A Relu node, then a MaxPool node with two overlapping windows (the
\* second cell needs the reset of m_max_pool_done), then Relu again over
\* the m_relu_data of the first.
MCNodes == <<"Relu", "MaxPool", "Relu">>
MCMaxLists == <<<<1, 2>>, <<2, 3>>>>
=============================================================================
