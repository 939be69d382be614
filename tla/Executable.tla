------------------------------ MODULE Executable ------------------------------
(***************************************************************************)
(* HESealExecutable in client mode (src/src/seal/he_seal_executable.cpp):  *)
(* the main thread running call(), the session thread running             *)
(* m_io_context.run() and handle_message, and the client at the other end  *)
(* of the TCP connection (pyhe_client, not in this tree).                  *)
(*                                                                         *)
(* Main thread: server_setup starts the acceptor, waits for                *)
(* m_session_started, writes the encryption parameters and sizes           *)
(* m_client_inputs; call() waits for m_client_inputs_received, binds the   *)
(* client's parameter, runs the nodes and sends the result.  A Relu node   *)
(* sends its ciphertext slots in batches of max_relu_message_cnt and waits *)
(* on m_relu_cond; a MaxPool node sends one request per output cell and    *)
(* waits on m_max_pool_cond after each.                                    *)
(*                                                                         *)
(* Session thread, in arrival order: the accept callback sets              *)
(* m_session_started; the public and evaluation keys are loaded and the    *)
(* inference shape is requested once both are in; client ciphertexts go    *)
(* to m_client_inputs; Relu and MaxPool results go to m_relu_data and      *)
(* m_max_pool_data, each under its mutex, followed by a notify.            *)
(*                                                                         *)
(* A slot is its tag and value (encryption, chain-index matching and the   *)
(* garbled-circuit path are left out); a node's operand is any tensor.     *)
(* A condition-variable wait is a test of its predicate, then a sleep in   *)
(* the same step; a notify wakes the sleeper to test again.                *)
(***************************************************************************)
EXTENDS Integers, Sequences, FiniteSets

CONSTANTS
    Slots,                \* 1..N: element_count of every operand
    Values,               \* slot values
    MaxBatch,             \* max_relu_message_cnt
    Nodes,                \* the offloaded nodes of the function, in order
    MaxLists,             \* max_pool_seal_max_list: cell -> the slots compared
    NumParams,            \* get_parameters().size()
    ClientParam,          \* the parameter that comes from the client
    NumChunks,            \* messages the client splits its tensor into
    ClientOutpacesSetup,  \* client ciphertexts may arrive before server_setup ends
    ClientReorders,       \* the client may answer outstanding requests in any order
    ConnectionMayDrop,    \* the TCP connection may be torn
    MaxCalls,             \* calls of call() on the one executable
    ResultWaitRace,       \* the write may complete between test and block
    Nil

ASSUME /\ MaxBatch \in Nat \ {0}
       /\ Nodes \in Seq({"Relu", "MaxPool"}) /\ Nodes # <<>>
       /\ ClientParam \in 1..NumParams
       /\ MaxCalls \in Nat \ {0}

VARIABLES
    epc,            \* main thread program counter
    op,             \* nodes finished before the current one
    input,          \* arg->data() of the current node
    out,            \* out->data() of the last finished node
    unknown,        \* m_unknown_relu_idx
    sentUpTo,       \* ciphertext slots of the Relu node written so far
    reluData,       \* m_relu_data
    doneCount,      \* m_relu_done_count
    cell,           \* MaxPool output cells requested so far
    maxPoolData,    \* m_max_pool_data
    maxPoolDone,    \* m_max_pool_done
    sessionStarted, \* m_session_started
    pkSet,          \* m_client_public_key_set
    ekSet,          \* m_client_eval_key_set
    sentShape,      \* m_sent_inference_shape
    clientInputs,   \* m_client_inputs: param -> Nil or the chunks loaded
    inputsReceived, \* m_client_inputs_received
    crashed,        \* the process died
    toClient,       \* messages in flight to the client
    toServer,       \* messages in flight to the server
    closed,         \* the connection is torn
    calls,          \* the call() in progress, counting from 1
    inputsCall,     \* ghost: the call during which the client's input completed
    writing         \* m_session->is_writing() for the result messages

nodeVars == <<op, input, out>>
reluVars == <<unknown, sentUpTo, reluData, doneCount>>
poolVars == <<cell, maxPoolData, maxPoolDone>>
setupVars == <<sessionStarted, pkSet, ekSet, sentShape, clientInputs,
               inputsReceived, crashed, calls, inputsCall, writing>>
netVars == <<toClient, toServer, closed>>
vars == <<epc, nodeVars, reluVars, poolVars, setupVars, netVars>>

\* scalar_relu_seal on a plaintext, and the client's ReLU on a ciphertext.
Relu(x) == IF x > 0 THEN x ELSE 0

\* The client's maximum over the values of one MaxPool request.
MaxOf(S) == CHOOSE m \in S : \A x \in S : x <= m

Slot == [tag : {"Plain", "Cipher"}, val : Values]

Chunks == 1..NumChunks

\* The ciphertext slots of t in increasing slot order.
CipherSlots(t) ==
    LET RECURSIVE Collect(_)
        Collect(i) == IF i > Len(t) THEN <<>>
                      ELSE (IF t[i].tag = "Cipher" THEN <<i>> ELSE <<>>) \o Collect(i + 1)
    IN Collect(1)

Min2(a, b) == IF a < b THEN a ELSE b

\* Remove position i of a sequence.
Drop(s, i) == [j \in 1..(Len(s) - 1) |-> IF j < i THEN s[j] ELSE s[j + 1]]

\* m_session->write_message: a write to a torn connection is lost.
Write(msgs) == toClient' = IF closed THEN toClient ELSE toClient \o msgs

\* The kind of the node being run.
Kind == Nodes[op + 1]

-----------------------------------------------------------------------------
Init ==
    /\ epc = "init"
    /\ op = 0
    /\ input = [i \in Slots |-> [tag |-> "Plain", val |-> CHOOSE v \in Values : TRUE]]
    /\ out = <<>>
    /\ unknown = <<>>
    /\ sentUpTo = 0
    /\ reluData = [i \in Slots |-> Nil]
    /\ doneCount = 0
    /\ cell = 0
    /\ maxPoolData = <<>>
    /\ maxPoolDone = FALSE
    /\ sessionStarted = FALSE
    /\ pkSet = FALSE
    /\ ekSet = FALSE
    /\ sentShape = FALSE
    /\ clientInputs = <<>>
    /\ inputsReceived = FALSE
    /\ crashed = FALSE
    /\ toClient = <<>>
    /\ toServer = <<>>
    /\ closed = FALSE
    /\ calls = 1
    /\ inputsCall = 0
    /\ writing = FALSE

\* server_setup: start_server opens the acceptor, posts async_accept and
\* starts the session thread.
StartServer ==
    /\ epc = "init"
    /\ epc' = "setup"
    /\ UNCHANGED <<nodeVars, reluVars, poolVars, setupVars, netVars>>

\* server_setup, continued: m_session_cond.wait until m_session_started,
\* then the parameters message is written.
WriteParameters ==
    /\ epc = "setup"
    /\ sessionStarted
    /\ Write(<<[type |-> "params"]>>)
    /\ epc' = "resize"
    /\ UNCHANGED <<nodeVars, reluVars, poolVars, setupVars, toServer, closed>>

\* server_setup, last lines: m_client_inputs.clear() and resize to the
\* number of parameters, without m_client_inputs_mutex.
ResizeClientInputs ==
    /\ epc = "resize"
    /\ clientInputs' = [p \in 1..NumParams |-> Nil]
    /\ epc' = "wait_inputs"
    /\ UNCHANGED <<nodeVars, reluVars, poolVars, sessionStarted, pkSet, ekSet,
                   sentShape, inputsReceived, crashed, calls, inputsCall, writing,
                   netVars>>

\* call(): m_client_inputs_cond.wait until m_client_inputs_received.
ClientInputsArrived ==
    /\ epc = "wait_inputs"
    /\ inputsReceived
    /\ epc' = "bind"
    /\ UNCHANGED <<nodeVars, reluVars, poolVars, setupVars, netVars>>

\* call(): the client's parameter is m_client_inputs[input_idx];
\* NGRAPH_CHECK fails on a short vector or a nullptr and call() throws.
BindParameters ==
    /\ epc = "bind"
    /\ epc' = IF ClientParam <= Len(clientInputs) /\ clientInputs[ClientParam] # Nil
              THEN "start" ELSE "failed"
    /\ UNCHANGED <<nodeVars, reluVars, poolVars, setupVars, netVars>>

-----------------------------------------------------------------------------
(* Relu: handle_server_relu_op.                                            *)

\* m_relu_data is resized (entries of an earlier node stay),
\* m_unknown_relu_idx rebuilt and plaintext slots computed locally.
StartRelu ==
    /\ epc = "start"
    /\ Kind = "Relu"
    /\ \E t \in [Slots -> Slot] :
         /\ input' = t
         /\ unknown' = CipherSlots(t)
         /\ reluData' = [i \in Slots |-> IF t[i].tag = "Plain" THEN Relu(t[i].val)
                                         ELSE reluData[i]]
    /\ sentUpTo' = 0
    /\ epc' = "relu_send"
    /\ UNCHANGED <<op, out, doneCount, poolVars, setupVars, netVars>>

\* A full batch, or the last partial one, is written to the session.
SendReluBatch ==
    /\ epc = "relu_send"
    /\ sentUpTo < Len(unknown)
    /\ LET last == Min2(sentUpTo + MaxBatch, Len(unknown))
       IN /\ Write(<<[type |-> "Relu",
                      vals |-> [k \in 1..(last - sentUpTo) |->
                                  input[unknown[sentUpTo + k]].val]]>>)
          /\ sentUpTo' = last
    /\ UNCHANGED <<epc, nodeVars, unknown, reluData, doneCount, poolVars,
                   setupVars, toServer, closed>>

\* m_relu_cond.wait(mlock, pred) once every batch is written: with the
\* predicate true, m_relu_done_count is reset and out->data() takes
\* m_relu_data; otherwise the main thread sleeps.
CheckReluDone ==
    /\ epc \in {"relu_send", "relu_check"}
    /\ epc = "relu_send" => sentUpTo = Len(unknown)
    /\ IF doneCount = Len(unknown)
       THEN /\ doneCount' = 0
            /\ out' = reluData
            /\ epc' = "done"
       ELSE /\ epc' = "relu_wait"
            /\ UNCHANGED <<doneCount, out>>
    /\ UNCHANGED <<op, input, unknown, sentUpTo, reluData, poolVars, setupVars, netVars>>

-----------------------------------------------------------------------------
(* MaxPool: handle_server_max_pool_op.                                     *)

\* m_max_pool_done is cleared, the maximize lists computed and
\* m_max_pool_data cleared.
StartMaxPool ==
    /\ epc = "start"
    /\ Kind = "MaxPool"
    /\ \E t \in [Slots -> Slot] : input' = t
    /\ cell' = 0
    /\ maxPoolData' = <<>>
    /\ maxPoolDone' = FALSE
    /\ epc' = "pool_send"
    /\ UNCHANGED <<op, out, reluVars, setupVars, netVars>>

\* The slots of the next maximize list are written as one request.
SendMaxPoolCell ==
    /\ epc = "pool_send"
    /\ cell < Len(MaxLists)
    /\ Write(<<[type |-> "MaxPool",
                vals |-> [k \in DOMAIN MaxLists[cell + 1] |->
                            input[MaxLists[cell + 1][k]].val]]>>)
    /\ epc' = "pool_check"
    /\ UNCHANGED <<nodeVars, reluVars, poolVars, setupVars, toServer, closed>>

\* Mutant: m_max_pool_done is not reset after the wait.
CheckMaxPoolDoneNoReset ==
    /\ epc = "pool_check"
    /\ IF maxPoolDone
       THEN /\ cell' = cell + 1
            /\ epc' = "pool_send"
       ELSE /\ epc' = "pool_wait"
            /\ UNCHANGED cell
    /\ UNCHANGED <<nodeVars, reluVars, maxPoolData, maxPoolDone, setupVars, netVars>>

\* m_max_pool_cond.wait(mlock, max_pool_done), then m_max_pool_done is
\* reset for the next cell.
CheckMaxPoolDone ==
    /\ epc = "pool_check"
    /\ IF maxPoolDone
       THEN /\ maxPoolDone' = FALSE
            /\ cell' = cell + 1
            /\ epc' = "pool_send"
       ELSE /\ epc' = "pool_wait"
            /\ UNCHANGED <<maxPoolDone, cell>>
    /\ UNCHANGED <<nodeVars, reluVars, maxPoolData, setupVars, netVars>>

\* Every cell is answered: out->data() = m_max_pool_data.
FinishMaxPool ==
    /\ epc = "pool_send"
    /\ cell = Len(MaxLists)
    /\ out' = maxPoolData
    /\ epc' = "done"
    /\ UNCHANGED <<op, input, reluVars, poolVars, setupVars, netVars>>

-----------------------------------------------------------------------------
\* The loop of call() moves to the next node.
NextNode ==
    /\ epc = "done"
    /\ op + 1 < Len(Nodes)
    /\ op' = op + 1
    /\ epc' = "start"
    /\ UNCHANGED <<input, out, reluVars, poolVars, setupVars, netVars>>

\* Mutant: the results are sent once any node is done.
SendClientResultsAnyNode ==
    /\ epc = "done"
    /\ Write(<<[type |-> "result"]>>)
    /\ writing' = ~closed
    /\ epc' = "result_check"
    /\ UNCHANGED <<nodeVars, reluVars, poolVars, sessionStarted, pkSet, ekSet,
                   sentShape, clientInputs, inputsReceived, crashed, calls,
                   inputsCall, toServer, closed>>

\* send_client_results after the last node: the result message is
\* written, and the session's is_writing() holds until the write completes.
SendClientResults ==
    /\ epc = "done"
    /\ op + 1 = Len(Nodes)
    /\ Write(<<[type |-> "result"]>>)
    /\ writing' = ~closed
    /\ epc' = "result_check"
    /\ UNCHANGED <<nodeVars, reluVars, poolVars, sessionStarted, pkSet, ekSet,
                   sentShape, clientInputs, inputsReceived, crashed, calls,
                   inputsCall, toServer, closed>>

\* writing_cond.wait(mlock, !is_writing()) with m_result_mutex held: with
\* the write complete call() returns, otherwise the main thread blocks.
CheckResultWritten ==
    /\ epc = "result_check"
    /\ epc' = IF writing THEN "result_block" ELSE "returned"
    /\ UNCHANGED <<nodeVars, reluVars, poolVars, setupVars, netVars>>

\* The wait releases m_result_mutex and sleeps on is_writing_cond.
BlockOnWriting ==
    /\ epc = "result_block"
    /\ epc' = "result_wait"
    /\ UNCHANGED <<nodeVars, reluVars, poolVars, setupVars, netVars>>

\* call() on the same executable again: server_setup finds m_server_setup
\* set and only logs, and m_client_inputs_received, never reset, lets the
\* wait on m_client_inputs_cond through at once.
NextCall ==
    /\ epc = "returned"
    /\ calls < MaxCalls
    /\ calls' = calls + 1
    /\ op' = 0
    /\ epc' = "wait_inputs"
    /\ UNCHANGED <<input, out, reluVars, poolVars, sessionStarted, pkSet, ekSet,
                   sentShape, clientInputs, inputsReceived, crashed, inputsCall,
                   writing, netVars>>

-----------------------------------------------------------------------------
(* Session thread: the accept callback and handle_message, one message at  *)
(* a time in arrival order.                                                *)

\* The async_accept callback: the session is started, m_session_started
\* is set under m_session_mutex and the main thread notified.  An accept
\* error re-posts the accept and changes nothing.
Accept ==
    /\ epc # "init"
    /\ ~sessionStarted
    /\ sessionStarted' = TRUE
    /\ UNCHANGED <<epc, nodeVars, reluVars, poolVars, pkSet, ekSet, sentShape,
                   clientInputs, inputsReceived, crashed, calls, inputsCall, writing,
                   netVars>>

\* send_inference_shape: the flag is set and the shape request written.
SendInferenceShape ==
    /\ sentShape' = TRUE
    /\ Write(<<[type |-> "shape"]>>)

\* A RESPONSE with a key: load_public_key or load_eval_key, then
\* send_inference_shape once both keys are set and it has not been sent.
HandleKey ==
    /\ ~closed
    /\ toServer # <<>>
    /\ Head(toServer).type \in {"pk", "ek"}
    /\ LET pk == pkSet \/ Head(toServer).type = "pk"
           ek == ekSet \/ Head(toServer).type = "ek"
       IN /\ pkSet' = pk
          /\ ekSet' = ek
          /\ IF ~sentShape /\ pk /\ ek
             THEN SendInferenceShape
             ELSE UNCHANGED <<sentShape, toClient>>
    /\ toServer' = Tail(toServer)
    /\ UNCHANGED <<epc, nodeVars, reluVars, poolVars, sessionStarted,
                   clientInputs, inputsReceived, crashed, calls, inputsCall, writing,
                   closed>>

\* Mutant: done_loading only asks for the tensor to exist.
DoneLoadingIgnoresChunks(ci) == ci[ClientParam] # Nil

\* done_loading(): every parameter from the client has a tensor, and the
\* tensor has every chunk (HETensor::done_loading).
DoneLoading(ci) == ci[ClientParam] # Nil /\ ci[ClientParam] = Chunks

\* The main thread has sized m_client_inputs.
SetupFinished == epc \notin {"init", "setup", "resize"}

\* handle_client_ciphers: the chunk goes to m_client_inputs[param_idx],
\* creating the tensor when the entry is nullptr, and once done_loading()
\* m_client_inputs_received is set under m_client_inputs_mutex with
\* notify_all.  Indexing a vector that server_setup has not resized yet
\* reads through a null data pointer: the process dies, which ends the
\* main thread and tears the connection.
HandleClientCiphers ==
    /\ ~closed
    /\ toServer # <<>>
    /\ Head(toServer).type = "cipher"
    /\ IF ClientOutpacesSetup THEN TRUE ELSE SetupFinished
    /\ IF Len(clientInputs) < ClientParam
       THEN /\ crashed' = TRUE
            /\ epc' = "crashed"
            /\ closed' = TRUE
            /\ toClient' = <<>>
            /\ toServer' = <<>>
            /\ UNCHANGED <<clientInputs, inputsReceived, inputsCall>>
       ELSE LET had == IF clientInputs[ClientParam] = Nil THEN {}
                       ELSE clientInputs[ClientParam]
                ci == [clientInputs EXCEPT ![ClientParam] = had \cup {Head(toServer).chunk}]
            IN /\ clientInputs' = ci
               /\ inputsReceived' = (inputsReceived \/ DoneLoading(ci))
               /\ inputsCall' = IF ~inputsReceived /\ DoneLoading(ci)
                                THEN calls ELSE inputsCall
               /\ toServer' = Tail(toServer)
               /\ UNCHANGED <<crashed, epc, toClient, closed>>
    /\ UNCHANGED <<nodeVars, reluVars, poolVars, sessionStarted, pkSet,
                   ekSet, sentShape, calls, writing>>

\* Mutant: the count grows by a full batch, not by the results received.
HandleReluResultCountsBatch ==
    /\ ~closed
    /\ toServer # <<>>
    /\ Head(toServer).type = "Relu"
    /\ LET m == Head(toServer).vals
           pos(k) == unknown[k + doneCount]
       IN /\ reluData' = [i \in Slots |->
                            IF \E k \in DOMAIN m : pos(k) = i
                            THEN m[CHOOSE k \in DOMAIN m : pos(k) = i]
                            ELSE reluData[i]]
          /\ doneCount' = doneCount + MaxBatch
    /\ toServer' = Tail(toServer)
    /\ epc' = IF epc = "relu_wait" THEN "relu_check" ELSE epc
    /\ UNCHANGED <<nodeVars, unknown, sentUpTo, poolVars, setupVars, toClient, closed>>

\* Mutant: the results are stored and counted but nobody is notified.
HandleReluResultNoNotify ==
    /\ ~closed
    /\ toServer # <<>>
    /\ Head(toServer).type = "Relu"
    /\ LET m == Head(toServer).vals
           pos(k) == unknown[k + doneCount]
       IN /\ reluData' = [i \in Slots |->
                            IF \E k \in DOMAIN m : pos(k) = i
                            THEN m[CHOOSE k \in DOMAIN m : pos(k) = i]
                            ELSE reluData[i]]
          /\ doneCount' = doneCount + Len(m)
    /\ toServer' = Tail(toServer)
    /\ UNCHANGED <<epc, nodeVars, unknown, sentUpTo, poolVars, setupVars, toClient, closed>>

\* handle_relu_result: with m_relu_mutex held, result k goes to
\* m_relu_data[m_unknown_relu_idx[k + m_relu_done_count]], the count grows
\* by the results received, and notify_all wakes the main thread.
HandleReluResult ==
    /\ ~closed
    /\ toServer # <<>>
    /\ Head(toServer).type = "Relu"
    /\ LET m == Head(toServer).vals
           pos(k) == unknown[k + doneCount]
       IN /\ reluData' = [i \in Slots |->
                            IF \E k \in DOMAIN m : pos(k) = i
                            THEN m[CHOOSE k \in DOMAIN m : pos(k) = i]
                            ELSE reluData[i]]
          /\ doneCount' = doneCount + Len(m)
    /\ toServer' = Tail(toServer)
    /\ epc' = IF epc = "relu_wait" THEN "relu_check" ELSE epc
    /\ UNCHANGED <<nodeVars, unknown, sentUpTo, poolVars, setupVars, toClient, closed>>

\* handle_max_pool_result: with m_max_pool_mutex held, the one result is
\* appended to m_max_pool_data, m_max_pool_done set, notify_all.
HandleMaxPoolResult ==
    /\ ~closed
    /\ toServer # <<>>
    /\ Head(toServer).type = "MaxPool"
    /\ maxPoolData' = Append(maxPoolData, Head(toServer).vals[1])
    /\ maxPoolDone' = TRUE
    /\ toServer' = Tail(toServer)
    /\ epc' = IF epc = "pool_wait" THEN "pool_check" ELSE epc
    /\ UNCHANGED <<nodeVars, reluVars, cell, setupVars, toClient, closed>>

\* The session's write handler (TCPSession, not in this tree): the queue
\* drained, is_writing is cleared and is_writing_cond notified, without
\* m_result_mutex, which the session does not know.  A notify between the
\* main thread's test and its block wakes nobody; ResultWaitRace FALSE
\* assumes the write never completes in that window.
WriteComplete ==
    /\ ~closed
    /\ writing
    /\ ResultWaitRace \/ epc # "result_block"
    /\ writing' = FALSE
    /\ epc' = IF epc = "result_wait" THEN "result_check" ELSE epc
    /\ UNCHANGED <<nodeVars, reluVars, poolVars, sessionStarted, pkSet, ekSet,
                   sentShape, clientInputs, inputsReceived, crashed, calls,
                   inputsCall, netVars>>

-----------------------------------------------------------------------------
(* The client (pyhe_client, not in this tree) and the connection.          *)

IsRequest(m) == m.type \in {"Relu", "MaxPool"}

\* The client answers the oldest message; a reordering client may answer
\* any outstanding Relu or MaxPool request instead.
ClientChoices ==
    IF ClientReorders
    THEN {i \in DOMAIN toClient : \A j \in 1..i : IsRequest(toClient[j])}
         \cup 1..Min2(1, Len(toClient))
    ELSE 1..Min2(1, Len(toClient))

\* The client's answer: both keys for the parameters, the input tensor in
\* NumChunks messages for the shape request, ReLU of every value of a
\* Relu request, the maximum of a MaxPool request, nothing for the result.
Answer(m) ==
    CASE m.type = "params"  -> <<[type |-> "pk"], [type |-> "ek"]>>
      [] m.type = "shape"   -> [k \in Chunks |-> [type |-> "cipher", chunk |-> k]]
      [] m.type = "Relu"    -> <<[type |-> "Relu",
                                  vals |-> [k \in DOMAIN m.vals |-> Relu(m.vals[k])]]>>
      [] m.type = "MaxPool" -> <<[type |-> "MaxPool",
                                  vals |-> <<MaxOf({m.vals[k] : k \in DOMAIN m.vals})>>]>>
      [] OTHER              -> <<>>

ClientRespond ==
    /\ ~closed
    /\ \E i \in ClientChoices :
         /\ toServer' = toServer \o Answer(toClient[i])
         /\ toClient' = Drop(toClient, i)
    /\ UNCHANGED <<epc, nodeVars, reluVars, poolVars, setupVars, closed>>

\* The TCP connection is torn: messages in flight are lost and no more
\* arrive.  A connection exists only once the accept callback has run.
\* No handler of the executable wakes a waiting main thread.
ConnectionLost ==
    /\ ConnectionMayDrop
    /\ sessionStarted
    /\ ~closed
    /\ closed' = TRUE
    /\ toClient' = <<>>
    /\ toServer' = <<>>
    /\ UNCHANGED <<epc, nodeVars, reluVars, poolVars, setupVars>>

-----------------------------------------------------------------------------
MainThread ==
    \/ StartServer \/ WriteParameters \/ ResizeClientInputs
    \/ ClientInputsArrived \/ BindParameters
    \/ StartRelu \/ SendReluBatch \/ CheckReluDone
    \/ StartMaxPool \/ SendMaxPoolCell \/ CheckMaxPoolDone \/ FinishMaxPool
    \/ NextNode \/ SendClientResults \/ CheckResultWritten \/ BlockOnWriting
    \/ NextCall

SessionThread ==
    \/ Accept \/ HandleKey \/ HandleClientCiphers
    \/ HandleReluResult \/ HandleMaxPoolResult \/ WriteComplete

Next ==
    \/ MainThread
    \/ SessionThread
    \/ ClientRespond
    \/ ConnectionLost

\* The main and session threads are OS threads that run whenever they can;
\* the client is a remote process, weakly fair only in FairClientSpec.
Spec ==
    /\ Init /\ [][Next]_vars
    /\ WF_vars(MainThread)
    /\ WF_vars(SessionThread)

FairClientSpec == Spec /\ WF_vars(ClientRespond)

-----------------------------------------------------------------------------
Pcs == {"init", "setup", "resize", "wait_inputs", "bind", "failed", "start",
        "relu_send", "relu_check", "relu_wait", "pool_send", "pool_check",
        "pool_wait", "done", "result_check", "result_block", "result_wait",
        "returned", "crashed"}

Msg == [type : {"params", "shape", "result", "pk", "ek"}]
       \cup [type : {"cipher"}, chunk : Chunks]
       \cup [type : {"Relu", "MaxPool"}, vals : Seq(Values \cup {0})]

TypeOK ==
    /\ epc \in Pcs
    /\ op \in 0..(Len(Nodes) - 1)
    /\ input \in [Slots -> Slot]
    /\ sentUpTo \in 0..Len(unknown)
    /\ doneCount \in 0..Len(unknown)
    /\ reluData \in [Slots -> {Relu(v) : v \in Values} \cup {Nil}]
    /\ cell \in 0..Len(MaxLists)
    /\ clientInputs \in Seq(SUBSET Chunks \cup {Nil})
    /\ calls \in 1..MaxCalls /\ inputsCall \in 0..calls /\ writing \in BOOLEAN
    /\ \A i \in DOMAIN toClient \cup DOMAIN toServer :
         /\ i \in DOMAIN toClient => toClient[i] \in Msg
         /\ i \in DOMAIN toServer => toServer[i] \in Msg

\* What the node being run computes on its operand.
Expected(t) ==
    IF Kind = "Relu"
    THEN [i \in Slots |-> Relu(t[i].val)]
    ELSE [c \in DOMAIN MaxLists |->
            MaxOf({t[MaxLists[c][k]].val : k \in DOMAIN MaxLists[c]})]

(* Offload correctness: when handle_server_relu_op or                     *)
(* handle_server_max_pool_op returns, out->data() is the node's function   *)
(* of arg->data(): every Relu answer, batched and placed through           *)
(* m_unknown_relu_idx and m_relu_done_count, lands where its request came  *)
(* from, every MaxPool cell holds the maximum of its own window, and no    *)
(* state of an earlier node or cell leaks in.                              *)
NodeCorrect == epc = "done" => out = Expected(input)

(* The client's input is bound whole: the process survives the client's    *)
(* ciphertexts, and once call() stops waiting on m_client_inputs_cond the  *)
(* client's parameter holds every chunk the client sent, so the            *)
(* NGRAPH_CHECKs of the binding loop pass.                                 *)
InputsBound ==
    /\ ~crashed
    /\ epc \notin {"init", "setup", "resize", "wait_inputs"} =>
         clientInputs[ClientParam] = Chunks

(* Each call waits for its own client input (spec 4.4: per-call           *)
(* WaitingClientInputs, step 2 blocks until the from_client tensors are    *)
(* received): once call() is past the wait on m_client_inputs_cond, the    *)
(* client's tensor it binds was completed during this call.                *)
InputsFresh ==
    epc \notin {"init", "setup", "resize", "wait_inputs", "crashed"} =>
      inputsCall = calls

(* While the connection stays up, every call() returns: handshake, every   *)
(* node, the results and their write are completed, with no notify lost    *)
(* between the session thread and the waits of the main thread, the first  *)
(* call and the next alike.                                                *)
CallTerminates == []~closed => []<>(epc = "returned")

(* Cancellation (spec 4.5): a session torn while the main thread sleeps   *)
(* on m_relu_cond for the client's Relu results ends the pending call      *)
(* instead of leaving it waiting forever.                                  *)
CloseEndsCall == (closed /\ epc = "relu_wait") ~> (epc = "returned")

-----------------------------------------------------------------------------
(* Refinement: the main thread is inside a node between StartRelu or       *)
(* StartMaxPool and the step that sets out->data(); everything else it and *)
(* the session thread and client do is a stutter of NodeOffload.          *)

ResultPcs == {"result_check", "result_block", "result_wait"}

NodeBusy == epc \in {"relu_send", "relu_check", "relu_wait",
                     "pool_send", "pool_check", "pool_wait"}

Abs == INSTANCE NodeOffload WITH
         node     <- IF epc \in ResultPcs \cup {"done", "returned"} THEN op + 1 ELSE op,
         phase    <- IF NodeBusy THEN "busy" ELSE "idle",
         arg      <- input,
         result   <- out,
         returned <- (epc = "returned")

(* The call implements NodeOffload: the nodes run in order, each output    *)
(* changes only when its node completes and is then the node's function    *)
(* of its operand, and send_client_results follows the last node.          *)
Refinement == Abs!Spec
=============================================================================
