-------------------------- MODULE JupyterHubServers --------------------------
(***************************************************************************)
(* The notebook servers that jupyterhub_config.py sets up: a hub that lets *)
(* any user log in and start a default server and named servers, each as a *)
(* KubeSpawner pod whose memory request comes from the chosen profile and *)
(* which mounts the shared conda NFS volume; a start timeout, the idle     *)
(* culler service and the cleanup of servers at hub shutdown.  The claim   *)
(* jupyter-{username} is created (l. 57-60) but no volume refers to it     *)
(* (l. 200-218 mount only shared-conda), so it places no pod: left out.    *)
(*                                                                         *)
(* Kubernetes (scheduler, kubelet, local-path provisioner) and the culler  *)
(* process are the environment; only what the settings make them do is    *)
(* kept.  A server is identified by <<user, name>>.                        *)
(***************************************************************************)
EXTENDS Integers, FiniteSetsExt

CONSTANTS Users,        \* anyone may log in (DummyAuthenticator, allow_all)
          Named,        \* names a user may give to named servers
          Default,      \* the name of the default server ("")
          Nodes,        \* Kubernetes nodes
          NodeMem,      \* allocatable memory of a node, in G
          NoPod,        \* the server has no pod
          Unbound,      \* pod not scheduled yet
          NodesMayFail, \* whether a node may be lost
          NfsMayFail    \* whether the shared conda NFS server may be lost

ASSUME /\ Default \notin Named
       /\ {NoPod, Unbound} \cap Nodes = {}
       /\ NodeMem \in Nat
       /\ NodesMayFail \in BOOLEAN
       /\ NfsMayFail \in BOOLEAN

Names == {Default} \cup Named
Servers == Users \X Names
SrvStates == {"absent", "stopped", "pending", "running"}

-----------------------------------------------------------------------------
(* The settings.                                                           *)

\* l. 179-180: allow_named_servers, named_server_limit_per_user = 3.
NamedServerLimit == 3

\* l. 105-138: the profile form offers two radio buttons, values "0" and "1".
ProfileForm == {0, 1}

\* l. 141-172: mem_guarantee of the three entries of profile_list.
ProfileList == <<1, 2, 4>>

ProfileMem(c) == ProfileList[c + 1]

VARIABLES hubUp,     \* the hub process is running
          srv,       \* state of each server in the hub's database
          mem,       \* memory request of the server's pod (0: none)
          pod,       \* NoPod, Unbound, or the node the pod is bound to
          nodeUp,    \* the node is alive
          idle,      \* no activity on the server for --timeout=3600 s
          cullList,  \* servers the culler has decided to cull, not yet deleted
          nfsUp      \* nfs.cluster-os.local serves /shared/conda

vars == <<hubUp, srv, mem, pod, nodeUp, idle, cullList, nfsUp>>

UpNodes == {n \in Nodes : nodeUp[n]}

\* Memory requested by the pods bound to node n.
Used(n) == MapThenSumSet(LAMBDA x : mem[x], {x \in Servers : pod[x] = n})

\* Named servers of user u that exist, stopped ones included.
NamedCount(u) == Cardinality({s \in Named : srv[u, s] # "absent"})

\* Node n can take a pod of server <<u, s>>: it is alive and has room for
\* the pod's memory request (mem_guarantee).
Placeable(u, s, n) ==
    /\ nodeUp[n]
    /\ Used(n) + mem[u, s] <= NodeMem

\* Every pod mounts the shared-conda NFS volume read-only at /opt/conda
\* (l. 200-218): the kubelet starts a container only once the mount is
\* done, and the notebook server runs from the mounted tree.
CondaMounted == nfsUp

\* Every variable has its type; memory requests are profile guarantees.
TypeOK ==
    /\ hubUp \in BOOLEAN
    /\ srv \in [Servers -> SrvStates]
    /\ mem \in [Servers -> {0} \cup Range(ProfileList)]
    /\ pod \in [Servers -> Nodes \cup {NoPod, Unbound}]
    /\ nodeUp \in [Nodes -> BOOLEAN]
    /\ idle \in [Servers -> BOOLEAN]
    /\ cullList \subseteq Servers
    /\ nfsUp \in BOOLEAN

Init ==
    /\ hubUp = TRUE
    /\ srv = [x \in Servers |-> "absent"]
    /\ mem = [x \in Servers |-> 0]
    /\ pod = [x \in Servers |-> NoPod]
    /\ nodeUp = [n \in Nodes |-> TRUE]
    /\ idle = [x \in Servers |-> FALSE]
    /\ cullList = {}
    /\ nfsUp = TRUE

-----------------------------------------------------------------------------
(* The hub.                                                                *)

\* User u (any name logs in, l. 28-37) starts server s with profile choice
\* c.  A new named server needs room under the limit.  KubeSpawner ensures
\* the claim (storage_pvc_ensure, unused) and creates the pod, not yet
\* scheduled.
Spawn(u, s, c) ==
    /\ hubUp
    /\ srv[u, s] \in {"absent", "stopped"}
    /\ s = Default \/ srv[u, s] = "stopped" \/ NamedCount(u) < NamedServerLimit
    /\ srv' = [srv EXCEPT ![u, s] = "pending"]
    /\ mem' = [mem EXCEPT ![u, s] = ProfileMem(c)]
    /\ pod' = [pod EXCEPT ![u, s] = Unbound]
    /\ idle' = [idle EXCEPT ![u, s] = FALSE]
    /\ UNCHANGED <<hubUp, nodeUp, cullList, nfsUp>>

\* The pod's server answered: the spawn is done.
Ready(u, s) ==
    /\ srv[u, s] = "pending"
    /\ pod[u, s] \in UpNodes
    /\ CondaMounted
    /\ srv' = [srv EXCEPT ![u, s] = "running"]
    /\ UNCHANGED <<hubUp, mem, pod, nodeUp, idle, cullList, nfsUp>>

\* Stopping a server deletes its pod.
StopServer(x) ==
    /\ srv' = [srv EXCEPT ![x] = "stopped"]
    /\ mem' = [mem EXCEPT ![x] = 0]
    /\ pod' = [pod EXCEPT ![x] = NoPod]

\* start_timeout = 300 (l. 53): the spawn is given up 300 s after it began,
\* whatever holds the pod back (a slow pull of :latest, no room, a lost
\* node, the NFS mount), and the spawner deletes the pod.  Time is not
\* modelled, so the timer may fire at any moment of the pending state.
StartTimeout(u, s) ==
    /\ srv[u, s] = "pending"
    /\ StopServer(<<u, s>>)
    /\ UNCHANGED <<hubUp, nodeUp, idle, cullList, nfsUp>>

\* The user stops a running server.
Stop(u, s) ==
    /\ hubUp
    /\ srv[u, s] = "running"
    /\ StopServer(<<u, s>>)
    /\ UNCHANGED <<hubUp, nodeUp, idle, cullList, nfsUp>>

\* The hub's periodic poll finds the pod of a running server gone.
Poll(u, s) ==
    /\ srv[u, s] = "running"
    /\ pod[u, s] \notin UpNodes
    /\ StopServer(<<u, s>>)
    /\ UNCHANGED <<hubUp, nodeUp, idle, cullList, nfsUp>>

\* The user removes a stopped named server, freeing a place under the limit.
DeleteServer(u, s) ==
    /\ hubUp
    /\ s \in Named
    /\ srv[u, s] = "stopped"
    /\ srv' = [srv EXCEPT ![u, s] = "absent"]
    /\ UNCHANGED <<hubUp, mem, pod, nodeUp, idle, cullList, nfsUp>>

\* cleanup_servers = True (l. 236-237): shutting the hub down stops every
\* active server, pending spawns included; the culler service goes too.
HubShutdown ==
    /\ hubUp
    /\ hubUp' = FALSE
    /\ srv' = [x \in Servers |->
                 IF srv[x] \in {"pending", "running"} THEN "stopped" ELSE srv[x]]
    /\ mem' = [x \in Servers |-> 0]
    /\ pod' = [x \in Servers |-> NoPod]
    /\ cullList' = {}
    /\ UNCHANGED <<nodeUp, idle, nfsUp>>

\* The hub starts on 0.0.0.0:8000 from its sqlite database (l. 11-20).
HubStart ==
    /\ ~hubUp
    /\ hubUp' = TRUE
    /\ UNCHANGED <<srv, mem, pod, nodeUp, idle, cullList, nfsUp>>

-----------------------------------------------------------------------------
(* Kubernetes under the spawner settings.                                  *)

\* The scheduler binds an unscheduled pod to a node that can take it
\* (the memory requests of l. 62-66 and of the chosen profile).
Schedule(u, s, n) ==
    /\ pod[u, s] = Unbound
    /\ Placeable(u, s, n)
    /\ pod' = [pod EXCEPT ![u, s] = n]
    /\ UNCHANGED <<hubUp, srv, mem, nodeUp, idle, cullList, nfsUp>>

\* A node is lost, and the pods on it.
NodeFail(n) ==
    /\ NodesMayFail
    /\ nodeUp[n]
    /\ nodeUp' = [nodeUp EXCEPT ![n] = FALSE]
    /\ UNCHANGED <<hubUp, srv, mem, pod, idle, cullList, nfsUp>>

\* The NFS server behind the shared-conda volume (l. 210-218) goes away,
\* or comes back.
NfsFail ==
    /\ NfsMayFail
    /\ nfsUp
    /\ nfsUp' = FALSE
    /\ UNCHANGED <<hubUp, srv, mem, pod, nodeUp, idle, cullList>>
NfsRecover ==
    /\ ~nfsUp
    /\ nfsUp' = TRUE
    /\ UNCHANGED <<hubUp, srv, mem, pod, nodeUp, idle, cullList>>

-----------------------------------------------------------------------------
(* The idle culler service (l. 183-194).                                   *)

\* An hour passes with no activity on a running server, or activity resumes.
GoIdle(u, s) ==
    /\ srv[u, s] = "running"
    /\ ~idle[u, s]
    /\ idle' = [idle EXCEPT ![u, s] = TRUE]
    /\ UNCHANGED <<hubUp, srv, mem, pod, nodeUp, cullList, nfsUp>>
Activity(u, s) ==
    /\ srv[u, s] = "running"
    /\ idle[u, s]
    /\ idle' = [idle EXCEPT ![u, s] = FALSE]
    /\ UNCHANGED <<hubUp, srv, mem, pod, nodeUp, cullList, nfsUp>>

\* The culler reads the users' servers from the hub API and picks every
\* running server inactive for more than --timeout=3600 s.
CullScan ==
    /\ hubUp
    /\ cullList = {}
    /\ cullList' = {x \in Servers : srv[x] = "running" /\ idle[x]}
    /\ UNCHANGED <<hubUp, srv, mem, pod, nodeUp, idle, nfsUp>>

\* It then sends DELETE /users/u/servers/s for one of them; the hub stops
\* the server if it is running, whatever happened since the scan.
CullStop(u, s) ==
    /\ <<u, s>> \in cullList
    /\ cullList' = cullList \ {<<u, s>>}
    /\ IF srv[u, s] = "running"
          THEN StopServer(<<u, s>>)
          ELSE UNCHANGED <<srv, mem, pod>>
    /\ UNCHANGED <<hubUp, nodeUp, idle, nfsUp>>

-----------------------------------------------------------------------------

Next ==
    \/ \E u \in Users, s \in Names :
          \/ \E c \in ProfileForm : Spawn(u, s, c)
          \/ \E n \in Nodes : Schedule(u, s, n)
          \/ Ready(u, s)
          \/ StartTimeout(u, s)
          \/ Stop(u, s)
          \/ Poll(u, s)
          \/ DeleteServer(u, s)
          \/ GoIdle(u, s)
          \/ Activity(u, s)
          \/ CullStop(u, s)
    \/ CullScan
    \/ HubShutdown
    \/ HubStart
    \/ \E n \in Nodes : NodeFail(n)
    \/ NfsFail
    \/ NfsRecover

\* Only safety is checked of the hub, so no fairness is assumed.
Spec == Init /\ [][Next]_vars

-----------------------------------------------------------------------------
(* Properties.                                                             *)

\* The culler only shuts down inactive notebooks (comment at l. 182): a
\* DELETE it sends never stops a server that is active when it is stopped.
CullsOnlyIdle ==
    [][\A u \in Users, s \in Names :
          CullStop(u, s) /\ srv[u, s] = "running" => idle[u, s]]_vars

=============================================================================
