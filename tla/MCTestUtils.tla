---------------------------- MODULE MCTestUtils ----------------------------
(***************************************************************************)
(* The two concurrent test doubles of lightning/src/util/test_utils.rs,   *)
(* checked in one model: TestRoutingMessageHandler (RoutingHandler) and   *)
(* TestChannelMonitor (TestMonitor).  They share no state; a step of the  *)
(* composition is a step of one of them, the other standing still.       *)
(***************************************************************************)
EXTENDS Naturals

CONSTANTS
    Callers, TotalUpds, StartPoints, Batches, MaxCalls,
    MonCallers, Channels, UpdateIds, Rets, MaxMonCalls,
    None

VARIABLES
    sent, anns, upds, pc, got, calls, overlap, served,
    updateRet, nextRet, latest, monitored, monLock, mpc, target, reg, monCalls,
    pendingRet, expectRet, monOverlap

RH == INSTANCE RoutingHandler
TM == INSTANCE TestMonitor WITH Callers <- MonCallers

rhVars == <<sent, anns, upds, pc, got, calls, overlap, served>>
tmVars == <<updateRet, nextRet, latest, monitored, monLock, mpc, target, reg,
            monCalls, pendingRet, expectRet, monOverlap>>
allVars == <<rhVars, tmVars>>

MCInit == RH!Init /\ TM!Init

MCNext ==
    \/ RH!Next /\ UNCHANGED tmVars
    \/ TM!Next /\ UNCHANGED rhVars

MCSpec == MCInit /\ [][MCNext]_allVars

\* The types of both doubles' state.
TypeOK == RH!TypeOK /\ TM!MonTypeOK

\* (TestRoutingMessageHandler) Calls to get_next_channel_announcements
\* that do not overlap never serve more than TOTAL_UPDS and never underflow.
WithinTotalSequential == RH!WithinTotalSequential

\* (comment on TestChannelMonitor::next_update_ret) After next_update_ret is
\* armed, the next return still gives the old update_ret and every later
\* return gives the armed value until a test changes update_ret, as long as
\* calls do not overlap.
NextRetAsDocumented == TM!NextRetAsDocumented
=============================================================================
