----------------------------- MODULE MpiScaling -----------------------------
(***************************************************************************)
(* test_mpi_scaling.py run by N MPI ranks.  Every rank runs the same       *)
(* program: two gathers (process mapping), then for each of the five data  *)
(* sizes a Bcast, an Allreduce and an allreduce(MIN) of the local          *)
(* correctness flag, then for each of the four message sizes ten ping-pong *)
(* rounds between ranks 0 and 1 followed by another allreduce(MIN).        *)
(*                                                                         *)
(* A collective completes in one step once every rank has reached it; a   *)
(* rank that reaches a different point instead waits for ever.  Ranks 0    *)
(* and 1 exchange messages over two FIFO channels (MPI does not let        *)
(* messages between one pair overtake each other).  Data are abstracted to *)
(* whether they are intact, and the Allreduce result to whether the check *)
(* at l. 46 finds it right on each rank: a faulty reduction may hand some  *)
(* ranks a wrong sum, which is what the check is there to catch.           *)
(***************************************************************************)
EXTENDS Integers, Sequences

CONSTANTS N,               \* MPI world size
          Corrupt,         \* a point-to-point message may arrive damaged
          AllreduceMayErr  \* the Allreduce may give some ranks a wrong sum

ASSUME N \in Nat \ {0} /\ Corrupt \in BOOLEAN /\ AllreduceMayErr \in BOOLEAN

Ranks == 0 .. N - 1

\* l. 132, 162, 63: five data sizes, four message sizes, ten rounds.
NumDataSizes == 5
NumMsgSizes == 4
NumRounds == 10

Collectives == {"gather1", "gather2", "bcast", "allreduce", "checkDS", "checkMS"}
PCs == Collectives \cup {"send", "recv", "summary", "done"}
Msg == [tag : 0 .. NumRounds - 1, intact : BOOLEAN]

VARIABLES pc,         \* control point of each rank
          ds,         \* index into data_sizes
          ms,         \* index into message_sizes
          rnd,        \* round_num of the ping-pong loop
          ok,         \* is_correct of the rank's last benchmark
          buf,        \* rank 1: the data it received in this round is intact
          scalingOk,  \* what run_scaling_tests() returned on each rank
          chan,       \* messages in flight from rank i to rank j
          result,     \* rank 0's exit code (-1 while running)
          anyBad      \* history: some rank's check has failed

vars == <<pc, ds, ms, rnd, ok, buf, scalingOk, chan, result, anyBad>>

Pairs == {<<0, 1>>, <<1, 0>>}

\* Every variable has its type; tags stay within range(num_rounds).
TypeOK ==
    /\ pc \in [Ranks -> PCs]
    /\ ds \in [Ranks -> 1 .. NumDataSizes]
    /\ ms \in [Ranks -> 1 .. NumMsgSizes]
    /\ rnd \in [Ranks -> 0 .. NumRounds - 1]
    /\ ok \in [Ranks -> BOOLEAN]
    /\ buf \in BOOLEAN
    /\ scalingOk \in [Ranks -> BOOLEAN]
    /\ chan \in [Pairs -> Seq(Msg)]
    /\ result \in {-1, 0, 1}
    /\ anyBad \in BOOLEAN

Init ==
    /\ pc = [r \in Ranks |-> "gather1"]
    /\ ds = [r \in Ranks |-> 1]
    /\ ms = [r \in Ranks |-> 1]
    /\ rnd = [r \in Ranks |-> 0]
    /\ ok = [r \in Ranks |-> TRUE]
    /\ buf = TRUE
    /\ scalingOk = [r \in Ranks |-> FALSE]
    /\ chan = [p \in Pairs |-> <<>>]
    /\ result = -1
    /\ anyBad = FALSE

-----------------------------------------------------------------------------
(* Helpers.                                                                *)

\* l. 105-117: rank 0 counts the gathered hostnames per node and passes if
\* some node has a process, which holds whenever there is a rank.
MappingOk == N > 0

\* comm.allreduce(1 if is_correct else 0, op=MPI.MIN), l. 148 and 172.
AllCorrectMax(c) == IF \E r \in Ranks : c[r] THEN 1 ELSE 0
AllCorrect(c) == IF \A r \in Ranks : c[r] THEN 1 ELSE 0

\* l. 149 and 173: the value each rank tests before going on.
VerdictLocal(r) == IF ok[r] THEN 1 ELSE 0
Verdict(r) == AllCorrect(ok)

\* range(num_rounds) ends after round k (l. 65).
LastRoundLate(k) == k = NumRounds
LastRound(k) == k = NumRounds - 1

\* What a message carries when it arrives: damage may be added, never undone.
Transmit(intact) == IF Corrupt THEN {intact, FALSE} ELSE {intact}

\* Entering benchmark_send_recv (l. 51-86): rank 0 sends first, rank 1
\* receives first, every other rank runs through the loop doing nothing
\* and returns is_correct = True.
P2PEntry(r) == IF r = 0 THEN "send" ELSE IF r = 1 THEN "recv" ELSE "checkMS"

-----------------------------------------------------------------------------
(* Collectives: one step once every rank is at the same collective.       *)

\* comm.gather of hostnames, then of processor names (l. 98-99).
Gathers ==
    /\ \/ /\ \A r \in Ranks : pc[r] = "gather1"
          /\ pc' = [r \in Ranks |-> "gather2"]
       \/ /\ \A r \in Ranks : pc[r] = "gather2"
          /\ pc' = [r \in Ranks |-> "bcast"]
    /\ UNCHANGED <<ds, ms, rnd, ok, buf, scalingOk, chan, result, anyBad>>

\* comm.Bcast of rank 0's data (l. 34).
Bcast ==
    /\ \A r \in Ranks : pc[r] = "bcast"
    /\ pc' = [r \in Ranks |-> "allreduce"]
    /\ UNCHANGED <<ds, ms, rnd, ok, buf, scalingOk, chan, result, anyBad>>

\* comm.Allreduce(SUM) and each rank's own check of the sum (l. 37-48).
Allreduce ==
    /\ \A r \in Ranks : pc[r] = "allreduce"
    /\ \E f \in [Ranks -> IF AllreduceMayErr THEN BOOLEAN ELSE {TRUE}] :
          /\ ok' = f
          /\ anyBad' = (anyBad \/ \E r \in Ranks : ~f[r])
    /\ pc' = [r \in Ranks |-> "checkDS"]
    /\ UNCHANGED <<ds, ms, rnd, buf, scalingOk, chan, result>>

\* The agreement on the Allreduce check (l. 148-152), then the next data
\* size, or the point-to-point part when there are two ranks (l. 155-165).
CheckDS ==
    /\ \A r \in Ranks : pc[r] = "checkDS"
    /\ pc' = [r \in Ranks |->
                IF Verdict(r) # 1 THEN "summary"
                ELSE IF ds[r] < NumDataSizes THEN "bcast"
                ELSE IF N >= 2 THEN P2PEntry(r)
                ELSE "summary"]
    /\ ds' = [r \in Ranks |->
                IF Verdict(r) = 1 /\ ds[r] < NumDataSizes THEN ds[r] + 1 ELSE ds[r]]
    /\ scalingOk' = [r \in Ranks |->
                Verdict(r) = 1 /\ ds[r] = NumDataSizes /\ N < 2]
    /\ ok' = [r \in Ranks |-> IF r \in {0, 1} THEN ok[r] ELSE TRUE]
    /\ rnd' = [r \in Ranks |-> 0]
    /\ UNCHANGED <<ms, buf, chan, result, anyBad>>

\* The agreement on the ping-pong check (l. 171-178), then the next
\* message size or the end of run_scaling_tests().
CheckMS ==
    /\ \A r \in Ranks : pc[r] = "checkMS"
    /\ pc' = [r \in Ranks |->
                IF Verdict(r) = 1 /\ ms[r] < NumMsgSizes THEN P2PEntry(r)
                ELSE "summary"]
    /\ ms' = [r \in Ranks |->
                IF Verdict(r) = 1 /\ ms[r] < NumMsgSizes THEN ms[r] + 1 ELSE ms[r]]
    /\ scalingOk' = [r \in Ranks |-> Verdict(r) = 1]
    /\ ok' = [r \in Ranks |-> IF r \in {0, 1} THEN ok[r] ELSE TRUE]
    /\ rnd' = [r \in Ranks |-> 0]
    /\ UNCHANGED <<ds, buf, chan, result, anyBad>>

-----------------------------------------------------------------------------
(* The ping-pong of benchmark_send_recv (l. 65-86).                       *)

\* Rank 0: comm.Send(send_data, dest=1, tag=round_num) (l. 69).
Send0 ==
    /\ pc[0] = "send"
    /\ \E v \in Transmit(TRUE) :
          chan' = [chan EXCEPT ![<<0, 1>>] = Append(@, [tag |-> rnd[0], intact |-> v])]
    /\ pc' = [pc EXCEPT ![0] = "recv"]
    /\ UNCHANGED <<ds, ms, rnd, ok, buf, scalingOk, result, anyBad>>

\* Rank 0: comm.Recv(source=1, tag=round_num) and the integrity check; a
\* damaged echo returns False at once (l. 71-78).
Recv0 ==
    /\ pc[0] = "recv"
    /\ chan[<<1, 0>>] # <<>>
    /\ Head(chan[<<1, 0>>]).tag = rnd[0]
    /\ chan' = [chan EXCEPT ![<<1, 0>>] = Tail(@)]
    /\ LET intact == Head(chan[<<1, 0>>]).intact IN
       IF ~intact
          THEN /\ ok' = [ok EXCEPT ![0] = FALSE]
               /\ anyBad' = TRUE
               /\ pc' = [pc EXCEPT ![0] = "checkMS"]
               /\ rnd' = rnd
          ELSE /\ ok' = [ok EXCEPT ![0] = TRUE]
               /\ anyBad' = anyBad
               /\ IF LastRound(rnd[0])
                     THEN pc' = [pc EXCEPT ![0] = "checkMS"] /\ rnd' = rnd
                     ELSE pc' = [pc EXCEPT ![0] = "send"]
                          /\ rnd' = [rnd EXCEPT ![0] = @ + 1]
    /\ UNCHANGED <<ds, ms, buf, scalingOk, result>>

\* Rank 1: comm.Recv(source=0, tag=round_num) (l. 83).
Recv1 ==
    /\ pc[1] = "recv"
    /\ chan[<<0, 1>>] # <<>>
    /\ Head(chan[<<0, 1>>]).tag = rnd[1]
    /\ buf' = Head(chan[<<0, 1>>]).intact
    /\ chan' = [chan EXCEPT ![<<0, 1>>] = Tail(@)]
    /\ pc' = [pc EXCEPT ![1] = "send"]
    /\ UNCHANGED <<ds, ms, rnd, ok, scalingOk, result, anyBad>>

\* Rank 1: comm.Send(recv_data, dest=0, tag=round_num), then the next
\* round or return True (l. 84-86).
Send1 ==
    /\ pc[1] = "send"
    /\ \E v \in Transmit(buf) :
          chan' = [chan EXCEPT ![<<1, 0>>] = Append(@, [tag |-> rnd[1], intact |-> v])]
    /\ IF LastRound(rnd[1])
          THEN /\ pc' = [pc EXCEPT ![1] = "checkMS"]
               /\ ok' = [ok EXCEPT ![1] = TRUE]
               /\ rnd' = rnd
          ELSE /\ pc' = [pc EXCEPT ![1] = "recv"]
               /\ ok' = ok
               /\ rnd' = [rnd EXCEPT ![1] = @ + 1]
    /\ UNCHANGED <<ds, ms, buf, scalingOk, result, anyBad>>

\* main()'s summary (l. 198-218): rank 0 returns 0 when mapping and
\* scaling both passed, 1 otherwise; every other rank returns 0.
Summary(r) ==
    /\ pc[r] = "summary"
    /\ pc' = [pc EXCEPT ![r] = "done"]
    /\ result' = IF r = 0 THEN (IF MappingOk /\ scalingOk[0] THEN 0 ELSE 1) ELSE result
    /\ UNCHANGED <<ds, ms, rnd, ok, buf, scalingOk, chan, anyBad>>

Next ==
    \/ Gathers \/ Bcast \/ Allreduce \/ CheckDS \/ CheckMS
    \/ N >= 2 /\ (Send0 \/ Recv0 \/ Recv1 \/ Send1)
    \/ \E r \in Ranks : Summary(r)

\* Every rank keeps executing, and MPI completes a call whose peers have
\* all reached it.
Spec == Init /\ [][Next]_vars /\ WF_vars(Next)

-----------------------------------------------------------------------------
(* Properties.                                                             *)

\* No rank waits for ever in a Recv or a collective: every rank returns
\* from main() (the collectives and the ping-pong match up on all ranks).
Termination == <>(\A r \in Ranks : pc[r] = "done")

\* Rank 0's exit code is 0 exactly when no rank received a wrong Allreduce
\* sum and no ping-pong message arrived damaged: a fault seen by any rank
\* reaches rank 0 through the allreduce(MIN) agreements (l. 148, 172).
ReportSound ==
    pc[0] = "done" => (result = 0 <=> ~anyBad)

=============================================================================
