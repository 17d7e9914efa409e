---------------------------- MODULE MCRplTimers ----------------------------
(***************************************************************************)
(* Model checking of RplTimers for a non-root node, with two DAO sequence *)
(* numbers, two retransmissions and a Trickle interval that may double    *)
(* twice.                                                                 *)
(***************************************************************************)
EXTENDS RplTimers

\* Trickle's interval never passes its maximum: while the DIO timer is set,
\* dio_intcurrent lies between dio_intmin and dio_intmin + dio_intdoubl,
\* whatever mix of resets (rpl_timers_dio_reset) and doublings
\* (handle_dio_timer) led there.
TrickleIntervalBounded ==
    armed["dio"] => dio_intcurrent \in DioIntMin .. DioIntMin + DioIntDoubl

\* The node is waiting for the ACK of the DAO it sent last.
DaoWaiting ==
    /\ armed["dao"]
    /\ dao_curr_seqno = dao_last_seqno
    /\ dao_last_acked_seqno # dao_last_seqno

\* DAO retransmission ends: a DAO that is not acknowledged is retransmitted
\* (handle_dao_timer, schedule_dao_retransmission) only until
\* RPL_DAO_MAX_RETRANSMISSIONS, then the node gives up with a local repair;
\* it never retransmits forever, even when no DAO-ACK ever arrives.
DaoRetransmissionEnds == [](DaoWaiting => <>~DaoWaiting)

\* A node without a DAG keeps soliciting one: whenever it is detached, it
\* eventually has a DIS timer set (or is no longer detached), even when
\* the DIS timer fired while it was still attached and was not renewed;
\* the periodic timer (handle_periodic_timer) renews it.
DisWhileDetached == [](Detached => <>(~Detached \/ armed["dis"]))

====
