--------------------------- MODULE MultiNodeSuite ---------------------------
(***************************************************************************)
(* test_multi_node.py: main() runs five checks one after the other and    *)
(* exits 0 only if all five pass.  Every external command (sinfo, ping,   *)
(* scontrol, ssh, ls, cat, nproc, free) is an input: its success and what  *)
(* it lists are chosen by the environment.  A check that raises counts as  *)
(* failed, so a check's outcome is TRUE or FALSE.  Node discovery and the  *)
(* network check loop over node lists, one command per node; their order  *)
(* does not change the verdict, so a loop takes the nodes in any order.   *)
(***************************************************************************)
EXTENDS Naturals, FiniteSets

CONSTANTS Nodes,  \* the nodes of the cluster
          Host    \* the node the suite runs on

ASSUME Host \in Nodes

TestNames == {"env", "discovery", "fs", "network", "resources"}
PCs == TestNames \cup {"ping", "ssh", "summary", "done"}

VARIABLES pc,            \* the check main() is in
          passed,        \* passed, the count of passing checks
          listed,        \* node_list of the running check
          todo,          \* nodes of node_list the loop has not visited
          failedNodes,   \* failed_nodes of node discovery
          successCount,  \* success_count of the network check
          reached,       \* history: nodes that answered a ping
          answered,      \* history: nodes that answered ssh
          verdict,       \* history: what each check returned
          result         \* main()'s exit code ("none" while it runs)

vars == <<pc, passed, listed, todo, failedNodes, successCount, reached, answered, verdict, result>>

TypeOK ==
    /\ pc \in PCs
    /\ passed \in 0 .. Cardinality(TestNames)
    /\ listed \subseteq Nodes /\ todo \subseteq listed
    /\ failedNodes \subseteq Nodes /\ reached \subseteq Nodes
    /\ answered \subseteq Nodes
    /\ successCount \in 0 .. Cardinality(Nodes)
    /\ verdict \in [TestNames -> {"none", "pass", "fail"}]
    /\ result \in {"none", 0, 1}

Init ==
    /\ pc = "env"
    /\ passed = 0
    /\ listed = {} /\ todo = {}
    /\ failedNodes = {} /\ successCount = 0
    /\ reached = {} /\ answered = {}
    /\ verdict = [t \in TestNames |-> "none"]
    /\ result = "none"

\* main()'s loop records check t's outcome and moves on to check next.
Finish(t, ok, next) ==
    /\ passed' = IF ok THEN passed + 1 ELSE passed
    /\ verdict' = [verdict EXCEPT ![t] = IF ok THEN "pass" ELSE "fail"]
    /\ pc' = next

\* The five SLURM_* variables are set, or some are missing.
TestSlurmEnvironment ==
    /\ pc = "env"
    /\ \E ok \in BOOLEAN : Finish("env", ok, "discovery")
    /\ UNCHANGED <<listed, todo, failedNodes, successCount, reached, answered, result>>

\* sinfo fails, or lists some set of nodes; an empty reply gives [].
DiscoveryStart ==
    /\ pc = "discovery"
    /\ \/ /\ Finish("discovery", FALSE, "fs")
          /\ UNCHANGED <<listed, todo, failedNodes>>
       \/ \E L \in SUBSET Nodes :
             /\ listed' = L /\ todo' = L /\ failedNodes' = {}
             /\ pc' = "ping"
             /\ UNCHANGED <<passed, verdict>>
    /\ UNCHANGED <<successCount, reached, answered, result>>

\* One "ping -c 1 -W 2 node"; a node that does not answer is recorded.
Ping ==
    /\ pc = "ping"
    /\ \E n \in todo, ok \in BOOLEAN :
          /\ todo' = todo \ {n}
          /\ failedNodes' = IF ok THEN failedNodes ELSE failedNodes \cup {n}
          /\ reached' = IF ok THEN reached \cup {n} ELSE reached
    /\ UNCHANGED <<pc, passed, listed, successCount, answered, verdict, result>>

\* With failures the check passes if fewer nodes failed than were listed;
\* without failures it passes.
DiscoveryVerdict(failed, list) ==
    IF failed # {} THEN Cardinality(failed) < Cardinality(list) ELSE TRUE

DiscoveryEnd ==
    /\ pc = "ping"
    /\ todo = {}
    /\ Finish("discovery", DiscoveryVerdict(failedNodes, listed), "fs")
    /\ UNCHANGED <<listed, todo, failedNodes, successCount, reached, answered, result>>

\* A file in the local /tmp is written, listed and read back.
TestSharedFilesystem ==
    /\ pc = "fs"
    /\ \E ok \in BOOLEAN : Finish("fs", ok, "network")
    /\ UNCHANGED <<listed, todo, failedNodes, successCount, reached, answered, result>>

\* scontrol expands $SLURM_NODELIST (it holds Host); fewer than two nodes
\* skip the check as passed.  The loop skips the entry equal to the
\* hostname, which a short name versus a full name may not be.
NetworkStart ==
    /\ pc = "network"
    /\ \/ /\ Finish("network", FALSE, "resources")
          /\ UNCHANGED <<listed, todo, successCount>>
       \/ \E A \in SUBSET Nodes, sameName \in BOOLEAN :
             /\ Host \in A
             /\ listed' = A
             /\ IF Cardinality(A) < 2
                   THEN /\ Finish("network", TRUE, "resources")
                        /\ UNCHANGED <<todo, successCount>>
                   ELSE /\ todo' = IF sameName THEN A \ {Host} ELSE A
                        /\ successCount' = 0
                        /\ pc' = "ssh"
                        /\ UNCHANGED <<passed, verdict>>
    /\ UNCHANGED <<failedNodes, reached, answered, result>>

\* One "ssh node echo" with a 5 s connect timeout.
Ssh ==
    /\ pc = "ssh"
    /\ \E n \in todo, ok \in BOOLEAN :
          /\ todo' = todo \ {n}
          /\ successCount' = IF ok THEN successCount + 1 ELSE successCount
          /\ answered' = IF ok THEN answered \cup {n} ELSE answered
    /\ UNCHANGED <<pc, passed, listed, failedNodes, reached, verdict, result>>

NetworkEnd ==
    /\ pc = "ssh"
    /\ todo = {}
    /\ Finish("network", successCount > 0, "resources")
    /\ UNCHANGED <<listed, todo, failedNodes, successCount, reached, answered, result>>

\* nproc and free answer, or one fails; SLURM_CPUS_ON_NODE only warns.
TestResourceAllocation ==
    /\ pc = "resources"
    /\ \E ok \in BOOLEAN : Finish("resources", ok, "summary")
    /\ UNCHANGED <<listed, todo, failedNodes, successCount, reached, answered, result>>

\* main() returns 0 when passed == total, else 1.
Summary ==
    /\ pc = "summary"
    /\ result' = IF passed = Cardinality(TestNames) THEN 0 ELSE 1
    /\ pc' = "done"
    /\ UNCHANGED <<passed, listed, todo, failedNodes, successCount, reached, answered, verdict>>

Next ==
    \/ TestSlurmEnvironment
    \/ DiscoveryStart \/ Ping \/ DiscoveryEnd
    \/ TestSharedFilesystem
    \/ NetworkStart \/ Ssh \/ NetworkEnd
    \/ TestResourceAllocation
    \/ Summary

Spec == Init /\ [][Next]_vars /\ WF_vars(Next)

-----------------------------------------------------------------------------
(* Properties.                                                             *)

\* Node discovery passes only if at least one node answered a ping, as the
\* comment on its verdict says ("Pass if at least one node is reachable").
DiscoveryMeansReachable ==
    verdict["discovery"] = "pass" => reached # {}

\* The network check, "between nodes", passes with two or more allocated
\* nodes only if a node other than the one the suite runs on answered ssh.
NetworkMeansPeerReached ==
    verdict["network"] = "pass" /\ Cardinality(listed) >= 2
        => answered \ {Host} # {}

\* The two checks about other nodes (discovery's docstring: "discover other
\* nodes in the cluster"; the network check's: "connectivity between
\* nodes") pass only if they reached another node.
PeersReached == DiscoveryMeansReachable /\ NetworkMeansPeerReached

=============================================================================
