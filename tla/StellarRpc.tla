------------------------------ MODULE StellarRpc ------------------------------
(***************************************************************************)
(* How StellarService reaches its RPC nodes (stellar.service.ts): fail-over  *)
(* from node to node through an index all calls share, retries of contract   *)
(* reads on top of it, and the precondition check with its short-lived cache *)
(* (contract-state-guard.service.ts).                                        *)
(***************************************************************************)
EXTENDS Integers, FiniteSets

CONSTANTS
  NumNodes,          \* STELLAR_RPC_URLS
  RpcCalls,          \* calls under way
  MaxInvokeTries     \* attempts of invokeContractMethod

ASSUME RpcAssumption ==
  /\ IsFiniteSet(RpcCalls)
  /\ {NumNodes, MaxInvokeTries} \subseteq Nat \ {0}

VARIABLES
  currentRpc,    \* currentRpcIndex, and the server made for it
  nodeUp,        \* which nodes answer
  rpcCall,       \* what each call is at
  prechecked     \* the cache holds a passed precondition

rpcVars == <<currentRpc, nodeUp, rpcCall, prechecked>>

-----------------------------------------------------------------------------
Nodes == 0 .. NumNodes - 1
Kinds == {"query", "precheck", "invoke"}
Stages == {"get", "prepare", "simulate"}
Endings == {"answered", "refused", "unreachable"}

\* start and i are initialRpcIndex and i of withFailover, failedOn the nodes
\* that failed this round of it.
Calling ==
  [kind : Kinds, stage : Stages, attempt : 0 .. MaxInvokeTries - 1,
   start : Nodes, i : Nodes, node : Nodes, failedOn : SUBSET Nodes]
Ended == [ended : Endings, failedOn : SUBSET Nodes]
NoCall == [ended |-> "none"]

RpcTypeOK ==
  /\ currentRpc \in Nodes
  /\ nodeUp \in [Nodes -> BOOLEAN]
  /\ \A c \in RpcCalls : rpcCall[c] \in Calling \cup Ended \cup {NoCall}
  /\ prechecked \in BOOLEAN

UnderWay(c) == "stage" \in DOMAIN rpcCall[c]

\* Mutation of TryNode: the node after the one another call has left current.
TryNodeAfterCurrent(c, call, i) ==
  LET node == IF i = 0 THEN call.start ELSE (currentRpc + 1) % NumNodes
  IN  /\ currentRpc' = node
      /\ rpcCall' = [rpcCall EXCEPT
           ![c] = [call EXCEPT !.i = i, !.node = node]]

\* An attempt of withFailover: node i after the one the round began with, made
\* current (and its server initialised) if it is not.
TryNode(c, call, i) ==
  LET node == (call.start + i) % NumNodes
  IN  /\ currentRpc' = node
      /\ rpcCall' = [rpcCall EXCEPT
           ![c] = [call EXCEPT !.i = i, !.node = node]]

\* A round of withFailover begins at the current node.
Failover(c, kind, stage, attempt) ==
  TryNode(c, [kind |-> kind, stage |-> stage, attempt |-> attempt,
              start |-> currentRpc, i |-> 0, node |-> currentRpc,
              failedOn |-> {}], 0)

EndCall(c, how, failedOn) ==
  /\ rpcCall' = [rpcCall EXCEPT ![c] = [ended |-> how, failedOn |-> failedOn]]
  /\ UNCHANGED currentRpc

-----------------------------------------------------------------------------
\* getTransaction, loadAccount and the other reads of one request.
Query(c) ==
  /\ ~UnderWay(c)
  /\ Failover(c, "query", "get", 0)
  /\ UNCHANGED <<nodeUp, prechecked>>

\* invokeContractMethod: prepare, then simulate up to three times.
InvokeContractMethod(c) ==
  /\ ~UnderWay(c)
  /\ Failover(c, "invoke", "prepare", 0)
  /\ UNCHANGED <<nodeUp, prechecked>>

\* validatePreconditions: a cached pass spares the simulation.
ValidatePreconditions(c) ==
  /\ ~UnderWay(c)
  /\ IF prechecked THEN EndCall(c, "answered", {})
                   ELSE Failover(c, "precheck", "prepare", 0)
  /\ UNCHANGED <<nodeUp, prechecked>>

\* A node answers: prepare is followed by simulate, and a simulation that
\* passes is cached.
NodeAnswers(c) ==
  /\ UnderWay(c) /\ nodeUp[rpcCall[c].node]
  /\ LET call == rpcCall[c]
     IN  IF call.stage = "prepare"
         THEN Failover(c, call.kind, "simulate", 0) /\ UNCHANGED prechecked
         ELSE /\ EndCall(c, "answered", {})
              /\ prechecked' = (prechecked \/ call.kind = "precheck")
  /\ UNCHANGED nodeUp

\* An error that is not transient (a failed simulation too) goes to the caller.
NodeRefuses(c) ==
  /\ UnderWay(c) /\ nodeUp[rpcCall[c].node]
  /\ EndCall(c, "refused", {})
  /\ UNCHANGED <<nodeUp, prechecked>>

\* A transient failure: the next node; after the last one, the next attempt of
\* invokeContractMethod, or the caller gets the error.
NodeFails(c) ==
  /\ UnderWay(c) /\ ~nodeUp[rpcCall[c].node]
  /\ LET call == [rpcCall[c] EXCEPT !.failedOn = @ \cup {rpcCall[c].node}]
         retries == /\ call.kind = "invoke" /\ call.stage = "simulate"
                    /\ call.attempt < MaxInvokeTries - 1
     IN  \/ call.i < NumNodes - 1 /\ TryNode(c, call, call.i + 1)
         \/ /\ call.i = NumNodes - 1 /\ retries
            /\ Failover(c, "invoke", "simulate", call.attempt + 1)
         \/ /\ call.i = NumNodes - 1 /\ ~retries
            /\ EndCall(c, "unreachable", call.failedOn)
  /\ UNCHANGED <<nodeUp, prechecked>>

-----------------------------------------------------------------------------
NodeChanges ==
  /\ \E n \in Nodes : nodeUp' = [nodeUp EXCEPT ![n] = ~@]
  /\ UNCHANGED <<currentRpc, rpcCall, prechecked>>

PrecheckExpires ==
  /\ prechecked /\ prechecked' = FALSE
  /\ UNCHANGED <<currentRpc, nodeUp, rpcCall>>

RpcInit ==
  /\ currentRpc = 0
  /\ nodeUp = [n \in Nodes |-> TRUE]
  /\ rpcCall = [c \in RpcCalls |-> NoCall]
  /\ prechecked = FALSE

RpcRequest(c) ==
  \/ Query(c) \/ InvokeContractMethod(c) \/ ValidatePreconditions(c)
RpcAnswer(c) == NodeAnswers(c) \/ NodeRefuses(c) \/ NodeFails(c)

RpcNext ==
  \/ NodeChanges \/ PrecheckExpires
  \/ \E c \in RpcCalls : RpcRequest(c) \/ RpcAnswer(c)

RpcSpec == RpcInit /\ [][RpcNext]_rpcVars

-----------------------------------------------------------------------------
\* withFailover gives a call up as unreachable only when every node has failed
\* it, however the other calls move the index they share meanwhile.
GivesUpAfterAllNodes ==
  \A c \in RpcCalls : rpcCall[c] # NoCall /\ ~UnderWay(c) =>
    (rpcCall[c].ended = "unreachable" => rpcCall[c].failedOn = Nodes)
=============================================================================
