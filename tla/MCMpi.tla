-------------------------------- MODULE MCMpi --------------------------------
(***************************************************************************)
(* The two MPI test programs, test_mpi_scaling.py and test_mpi.py, checked *)
(* in one run: each is a job of its own on the same N ranks, so their      *)
(* steps interleave and share nothing.  Each keeps its own fairness.       *)
(***************************************************************************)
EXTENDS MpiScaling

VARIABLES bpc, toRank1, received, gathered

Basic == INSTANCE MpiBasic

allVars == <<vars, bpc, toRank1, received, gathered>>

ScalingStep == Next /\ UNCHANGED <<bpc, toRank1, received, gathered>>
BasicStep == Basic!BasicNext /\ UNCHANGED vars

BothInit == Init /\ Basic!BasicInit

MpiSpec ==
    /\ BothInit
    /\ [][ScalingStep \/ BasicStep]_allVars
    /\ WF_allVars(ScalingStep)
    /\ WF_allVars(BasicStep)

BasicTermination == Basic!BasicTermination

=============================================================================
