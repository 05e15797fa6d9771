------------------------------ MODULE MpiBasic ------------------------------
(***************************************************************************)
(* test_mpi.py run by N MPI ranks: a barrier, one message from rank 0 to   *)
(* rank 1 (only when there are two ranks or more), a second barrier, and a *)
(* gather of rank * rank at rank 0.  As in MpiScaling a collective is one  *)
(* step once every rank has reached it.  comm.send of the small pickled    *)
(* dict completes without waiting for the receiver; comm.recv waits for a  *)
(* message of its source and tag.                                          *)
(***************************************************************************)
EXTENDS Integers, Sequences

CONSTANT N   \* MPI world size

ASSUME N \in Nat \ {0}

Ranks == 0 .. N - 1

\* l. 48 and 53: the tag rank 0 sends with and rank 1 receives with.
SendTag == 11
RecvTagOther == 12
RecvTag == 11

VARIABLES bpc,       \* control point of each rank
          toRank1,   \* tags of the messages in flight from rank 0 to rank 1
          received,  \* rank 1 holds data_received
          gathered   \* gathered_data at rank 0 (<<>> before the gather)

basicVars == <<bpc, toRank1, received, gathered>>

BasicInit ==
    /\ bpc = [r \in Ranks |-> "barrier1"]
    /\ toRank1 = <<>>
    /\ received = FALSE
    /\ gathered = <<>>

\* After the first barrier (l. 38-54): rank 0 sends if size > 1, rank 1
\* receives, every other rank goes straight to the second barrier.
AfterBarrier(r) ==
    IF r = 0 /\ N > 1 THEN "send"
    ELSE IF r = 1 THEN "recv"
    ELSE "barrier2"

\* comm.Barrier() after each rank printed its line (l. 35).
Barrier1 ==
    /\ \A r \in Ranks : bpc[r] = "barrier1"
    /\ bpc' = [r \in Ranks |-> AfterBarrier(r)]
    /\ UNCHANGED <<toRank1, received, gathered>>

\* comm.send(data_to_send, dest=1, tag=11) (l. 47-48).
Send0 ==
    /\ bpc[0] = "send"
    /\ toRank1' = Append(toRank1, SendTag)
    /\ bpc' = [bpc EXCEPT ![0] = "barrier2"]
    /\ UNCHANGED <<received, gathered>>

\* comm.recv(source=0, tag=11) takes the message once it is there (l. 53).
Recv1 ==
    /\ bpc[1] = "recv"
    /\ toRank1 # <<>>
    /\ Head(toRank1) = RecvTag
    /\ toRank1' = Tail(toRank1)
    /\ received' = TRUE
    /\ bpc' = [bpc EXCEPT ![1] = "barrier2"]
    /\ UNCHANGED gathered

\* comm.Barrier() before the collective (l. 57).
Barrier2 ==
    /\ \A r \in Ranks : bpc[r] = "barrier2"
    /\ bpc' = [r \in Ranks |-> "gather"]
    /\ UNCHANGED <<toRank1, received, gathered>>

\* comm.gather(rank * rank, root=0): rank 0 gets the list in rank order
\* (l. 64-65), then every rank returns 0.
Gather ==
    /\ \A r \in Ranks : bpc[r] = "gather"
    /\ gathered' = [i \in 1 .. N |-> (i - 1) * (i - 1)]
    /\ bpc' = [r \in Ranks |-> "done"]
    /\ UNCHANGED <<toRank1, received>>

BasicNext == Barrier1 \/ Send0 \/ Recv1 \/ Barrier2 \/ Gather

\* Every rank keeps executing; MPI completes a call whose peers are there.
BasicSpec == BasicInit /\ [][BasicNext]_basicVars /\ WF_basicVars(BasicNext)

-----------------------------------------------------------------------------
(* Properties.                                                             *)

\* Every rank returns from main(): the send matches the receive and all
\* ranks reach both barriers and the gather.
BasicTermination == <>(\A r \in Ranks : bpc[r] = "done")

=============================================================================
