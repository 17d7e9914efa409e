------------------------------ MODULE RplTimers ------------------------------
(***************************************************************************)
(* The timers of RPL-lite (os/net/routing/rpl-lite/rpl-timers.c): the DIS  *)
(* and periodic timers, and the timers of the DAG (Trickle DIO, unicast    *)
(* DIO, DAO with its DAO-ACK retransmissions, DAO-ACK, probing, leaving,   *)
(* state update).                                                          *)
(*                                                                         *)
(* Each ctimer is armed or not (`armed'); ctimer_set arms it, ctimer_stop  *)
(* disarms it, ctimer_expired is ~armed.  Time is abstracted away: an      *)
(* armed timer may fire at any point, and its callback runs as one step,   *)
(* Contiki's ctimer process running callbacks to completion one at a time. *)
(*                                                                         *)
(* The rest of RPL-lite (rpl-dag.c, rpl-icmp6.c, rpl-neighbor.c) is not in *)
(* the repository.  Its state is abstracted to four flags (`used',         *)
(* `joined', `ready', `urgent') and its calls into this file are the       *)
(* environment's actions at the end of the module: it may call any API     *)
(* function of rpl-timers.c at any time, and a DAO-ACK may arrive for any  *)
(* DAO sent, late or never.  The lollipop sequence numbers are plain       *)
(* counters below MaxSeqno, where lollipop order and < agree.              *)
(***************************************************************************)
EXTENDS Naturals

CONSTANTS IsRoot,              \* rpl_dag_root_is_root()
          DioIntMin,           \* curr_instance.dio_intmin
          DioIntDoubl,         \* curr_instance.dio_intdoubl
          DioRedundancy,       \* curr_instance.dio_redundancy
          RPL_DAO_MAX_RETRANSMISSIONS,
          LifetimeInfinite,    \* default_lifetime = RPL_INFINITE_LIFETIME
          MaxSeqno,            \* bound: the DAO sequence numbers used
          MaxDioCounter        \* bound: consistent DIOs heard per interval

ASSUME /\ IsRoot \in BOOLEAN /\ LifetimeInfinite \in BOOLEAN
       /\ {DioIntMin, DioIntDoubl, DioRedundancy, MaxSeqno, MaxDioCounter} \subseteq Nat
       /\ RPL_DAO_MAX_RETRANSMISSIONS \in Nat \ {0}

\* The ctimers of rpl-timers.c: two static ones and those of curr_instance.dag.
Timers == {"dis", "periodic", "dio", "unicast_dio", "dao", "dao_ack",
           "probing", "leave", "state_update"}

\* The timers rpl_timers_stop_dag_timers stops.
DagTimers == Timers \ {"dis", "periodic"}

VARIABLES armed,                 \* the ctimers that are set and not expired
          used,                  \* curr_instance.used
          joined,                \* preferred_parent # NULL /\ rank # RPL_INFINITE_RANK
          ready,                 \* rpl_dag_ready_to_advertise()
          urgent,                \* dag.urgent_probing_target # NULL
          dio_intcurrent,        \* dag.dio_intcurrent
          dio_send,              \* dag.dio_send
          dio_counter,           \* dag.dio_counter
          dao_curr_seqno,        \* dag.dao_curr_seqno
          dao_last_seqno,        \* dag.dao_last_seqno
          dao_last_acked_seqno,  \* dag.dao_last_acked_seqno
          dao_transmissions      \* dag.dao_transmissions

env   == <<used, joined, ready, urgent>>
trickle == <<dio_intcurrent, dio_send, dio_counter>>
dao   == <<dao_curr_seqno, dao_last_seqno, dao_last_acked_seqno, dao_transmissions>>
vars  == <<armed, env, trickle, dao>>

\* ctimer_set and ctimer_stop on a timer set a.
Set(a, t)  == [a EXCEPT ![t] = TRUE]
Stop(a, t) == [a EXCEPT ![t] = FALSE]

\* The node has no DAG to route through: !used || preferred_parent == NULL
\* || rank == RPL_INFINITE_RANK.
Detached == ~used \/ ~joined

-----------------------------------------------------------------------------
(* DIS and periodic timers.                                                *)

\* rpl_timers_schedule_periodic_dis: set dis_timer if it has expired.
rpl_timers_schedule_periodic_dis(a) == IF a["dis"] THEN a ELSE Set(a, "dis")

\* handle_dis_timer: a non-root node without a DAG sends a DIS and
\* schedules the next one.
handle_dis_timer ==
    /\ armed["dis"]
    /\ LET a == Stop(armed, "dis")
       IN  armed' = IF ~IsRoot /\ Detached THEN rpl_timers_schedule_periodic_dis(a) ELSE a
    /\ UNCHANGED <<env, trickle, dao>>

\* rpl_timers_init: the periodic timer and the first DIS.
Init ==
    /\ armed = [t \in Timers |-> t \in {"periodic", "dis"}]
    /\ used = FALSE /\ joined = FALSE /\ ready = FALSE /\ urgent = FALSE
    /\ dio_intcurrent = 0 /\ dio_send = FALSE /\ dio_counter = 0
    /\ dao_curr_seqno = 0 /\ dao_last_seqno = 0
    /\ dao_last_acked_seqno = 0 /\ dao_transmissions = 0

\* Mutant of handle_periodic_timer: the DIS is not rescheduled.
PeriodicNoDis ==
    /\ armed["periodic"]
    /\ UNCHANGED <<armed, env, trickle, dao>>

\* handle_periodic_timer: rpl_dag_periodic, uip_sr_periodic and
\* rpl_dag_update_state (rpl-dag.c, their effects are the environment's
\* actions); a node without a DAG schedules a DIS if none is set; then
\* ctimer_reset keeps the periodic timer armed.
handle_periodic_timer ==
    /\ armed["periodic"]
    /\ armed' = IF Detached THEN rpl_timers_schedule_periodic_dis(armed) ELSE armed
    /\ UNCHANGED <<env, trickle, dao>>

-----------------------------------------------------------------------------
(* Trickle DIO timer.                                                      *)

\* new_dio_interval with dio_intcurrent = intcurrent: dio_send = 1, the
\* redundancy counter reset, and the timer set for a random point of the
\* interval.
new_dio_interval(a, intcurrent) ==
    /\ dio_intcurrent' = intcurrent
    /\ dio_send' = TRUE
    /\ dio_counter' = 0
    /\ armed' = Set(a, "dio")

\* rpl_timers_dio_reset: when the DAG is ready to advertise, restart
\* Trickle at the minimum interval.
rpl_timers_dio_reset ==
    /\ ready
    /\ new_dio_interval(armed, DioIntMin)
    /\ UNCHANGED <<env, dao>>

\* The interval after I: doubled (dio_intcurrent + 1) unless at the maximum.
\* (DoubledPastMax, a mutant, checks with <=.)
DoubledPastMax(i) == IF i <= DioIntMin + DioIntDoubl THEN i + 1 ELSE i

Doubled(i) == IF i < DioIntMin + DioIntDoubl THEN i + 1 ELSE i

\* handle_dio_timer: not ready returns without rescheduling; in the first
\* part of the interval a DIO is sent (when the redundancy counter allows)
\* and the timer set for the rest of it; at the end of the interval the
\* interval doubles and a new one starts.
handle_dio_timer ==
    /\ armed["dio"]
    /\ LET a == Stop(armed, "dio")
       IN  \/ /\ ~ready
              /\ armed' = a
              /\ UNCHANGED trickle
           \/ /\ ready /\ dio_send
              /\ dio_send' = FALSE
              /\ armed' = Set(a, "dio")
              /\ UNCHANGED <<dio_intcurrent, dio_counter>>
           \/ /\ ready /\ ~dio_send
              /\ new_dio_interval(a, Doubled(dio_intcurrent))
    /\ UNCHANGED <<env, dao>>

-----------------------------------------------------------------------------
(* Unicast DIO, DAO and DAO-ACK timers.                                    *)

\* rpl_timers_schedule_unicast_dio: set the unicast DIO timer (delay 0).
rpl_timers_schedule_unicast_dio ==
    /\ used
    /\ armed' = Set(armed, "unicast_dio")
    /\ UNCHANGED <<env, trickle, dao>>

\* handle_unicast_dio_timer: send a DIO to the target, if it still has an
\* address.
handle_unicast_dio_timer ==
    /\ armed["unicast_dio"]
    /\ armed' = Stop(armed, "unicast_dio")
    /\ UNCHANGED <<env, trickle, dao>>

\* rpl_timers_schedule_dao: a new DAO after a short delay, with the next
\* sequence number (the mode of operation is a storing one).
rpl_timers_schedule_dao ==
    /\ used
    /\ dao_curr_seqno < MaxSeqno
    /\ dao_curr_seqno' = dao_curr_seqno + 1
    /\ armed' = Set(armed, "dao")
    /\ UNCHANGED <<env, trickle, dao_last_seqno, dao_last_acked_seqno, dao_transmissions>>

\* schedule_dao_refresh, with DAO-ACK: a finite lifetime schedules a new
\* DAO, with the next sequence number, before the route expires.
schedule_dao_refresh(a) ==
    IF used /\ ~LifetimeInfinite
    THEN /\ dao_curr_seqno < MaxSeqno
         /\ dao_curr_seqno' = dao_curr_seqno + 1
         /\ armed' = Set(a, "dao")
    ELSE /\ armed' = a
         /\ UNCHANGED dao_curr_seqno

\* `dao_transmissions++' before a (re)transmission.  (NoCount, a mutant,
\* leaves the counter alone.)
NoCount(n) == n

IncrementTransmissions(n) == n + 1

\* The end of handle_dao_timer once it sends the DAO: the transmission
\* counter n incremented, the retransmission scheduled
\* (schedule_dao_retransmission), dao_last_seqno = dao_curr_seqno, and
\* rpl_icmp6_dao_output.
SendDao(a, n) ==
    /\ dao_transmissions' = IncrementTransmissions(n)
    /\ armed' = Set(a, "dao")
    /\ dao_last_seqno' = dao_curr_seqno
    /\ UNCHANGED <<env, dao_curr_seqno>>

\* handle_dao_timer, with DAO-ACK: a newer sequence number starts a new
\* DAO with no transmission yet; for the DAO already sent, an ACK of it
\* schedules the refresh and returns, and RPL_DAO_MAX_RETRANSMISSIONS
\* transmissions give up with rpl_local_repair (rpl-dag.c: the node drops
\* its parent).  Otherwise the DAO is (re)sent.
handle_dao_timer ==
    /\ armed["dao"]
    /\ LET a == Stop(armed, "dao")
       IN  CASE dao_curr_seqno > dao_last_seqno -> SendDao(a, 0)
             [] dao_last_acked_seqno = dao_last_seqno ->
                  /\ schedule_dao_refresh(a)
                  /\ UNCHANGED <<env, dao_last_seqno, dao_transmissions>>
             [] dao_transmissions >= RPL_DAO_MAX_RETRANSMISSIONS ->
                  /\ armed' = a
                  /\ joined' = FALSE
                  /\ UNCHANGED <<used, ready, urgent, dao_curr_seqno, dao_last_seqno, dao_transmissions>>
             [] OTHER -> SendDao(a, dao_transmissions)
    /\ UNCHANGED <<trickle, dao_last_acked_seqno>>

\* rpl_timers_schedule_dao_ack: answer a DAO with an ACK (delay 0).
rpl_timers_schedule_dao_ack ==
    /\ used
    /\ armed' = Set(armed, "dao_ack")
    /\ UNCHANGED <<env, trickle, dao>>

\* handle_dao_ack_timer: send the DAO-ACK.
handle_dao_ack_timer ==
    /\ armed["dao_ack"]
    /\ armed' = Stop(armed, "dao_ack")
    /\ UNCHANGED <<env, trickle, dao>>

-----------------------------------------------------------------------------
(* Probing, leaving and state-update timers.                               *)

\* rpl_schedule_probing: set the probing timer while the instance is used.
rpl_schedule_probing(a) == IF used THEN Set(a, "probing") ELSE a

\* get_probing_target: none without an instance; the urgent target if
\* there is one; else the preferred parent or a non-fresh neighbour, if
\* any (`stale': the neighbour table, in rpl-neighbor.c, has one).
get_probing_target(stale) == used /\ (urgent \/ stale)

\* handle_probing_timer: probe the target, if any, which clears the urgent
\* target; then schedule the next probing.
handle_probing_timer ==
    /\ armed["probing"]
    /\ \E stale \in BOOLEAN :
          urgent' = (urgent /\ ~get_probing_target(stale))
    /\ armed' = rpl_schedule_probing(Stop(armed, "probing"))
    /\ UNCHANGED <<used, joined, ready, trickle, dao>>

\* rpl_schedule_probing called by rpl-dag.c.
schedule_probing ==
    /\ used
    /\ armed' = rpl_schedule_probing(armed)
    /\ UNCHANGED <<env, trickle, dao>>

\* rpl_timers_stop_dag_timers: stop every timer of the DAG.
rpl_timers_stop_dag_timers(a) == [t \in Timers |-> a[t] /\ t \notin DagTimers]

\* handle_leaving_timer: rpl_dag_leave (rpl-dag.c), which stops the DAG's
\* timers and frees the instance.
handle_leaving_timer ==
    /\ armed["leave"]
    /\ IF used
       THEN /\ armed' = rpl_timers_stop_dag_timers(Stop(armed, "leave"))
            /\ used' = FALSE /\ joined' = FALSE /\ ready' = FALSE /\ urgent' = FALSE
       ELSE /\ armed' = Stop(armed, "leave")
            /\ UNCHANGED env
    /\ UNCHANGED <<trickle, dao>>

\* rpl_timers_unschedule_leaving: stop the leave timer if it is set.
rpl_timers_unschedule_leaving ==
    /\ used /\ armed["leave"]
    /\ armed' = Stop(armed, "leave")
    /\ UNCHANGED <<env, trickle, dao>>

\* rpl_timers_schedule_leaving: set the leave timer unless it is set.
rpl_timers_schedule_leaving ==
    /\ used /\ ~armed["leave"]
    /\ armed' = Set(armed, "leave")
    /\ UNCHANGED <<env, trickle, dao>>

\* rpl_timers_stop_dag_timers called by rpl-dag.c.
stop_dag_timers ==
    /\ armed' = rpl_timers_stop_dag_timers(armed)
    /\ UNCHANGED <<env, trickle, dao>>

\* rpl_timers_unschedule_state_update.
rpl_timers_unschedule_state_update ==
    /\ used /\ armed["state_update"]
    /\ armed' = Stop(armed, "state_update")
    /\ UNCHANGED <<env, trickle, dao>>

\* rpl_timers_schedule_state_update: set the timer (delay 0).
rpl_timers_schedule_state_update ==
    /\ used
    /\ armed' = Set(armed, "state_update")
    /\ UNCHANGED <<env, trickle, dao>>

\* handle_state_update: rpl_dag_update_state (rpl-dag.c; its effects are
\* the environment's actions).
handle_state_update ==
    /\ armed["state_update"]
    /\ armed' = Stop(armed, "state_update")
    /\ UNCHANGED <<env, trickle, dao>>

-----------------------------------------------------------------------------
(* The rest of RPL-lite, as far as these timers see it.                    *)

\* A DIO from a new DAG: the instance is used and has a parent.
EnvJoin ==
    /\ ~used
    /\ used' = TRUE /\ joined' = TRUE
    /\ UNCHANGED <<armed, ready, urgent, trickle, dao>>

\* The parent is lost, or a new one found.
EnvParent ==
    /\ used
    /\ joined' = ~joined
    /\ UNCHANGED <<armed, used, ready, urgent, trickle, dao>>

\* rpl_dag_ready_to_advertise changes.
EnvReady ==
    /\ used
    /\ ready' = ~ready
    /\ UNCHANGED <<armed, used, joined, urgent, trickle, dao>>

\* A neighbour needs urgent probing.
EnvUrgent ==
    /\ used /\ ~urgent
    /\ urgent' = TRUE
    /\ UNCHANGED <<armed, used, joined, ready, trickle, dao>>

\* A consistent DIO is heard: rpl-icmp6.c increments dio_counter.
EnvConsistentDio ==
    /\ dio_counter < MaxDioCounter
    /\ dio_counter' = dio_counter + 1
    /\ UNCHANGED <<armed, env, dio_intcurrent, dio_send, dao>>

\* A DAO-ACK arrives for a DAO that was sent, possibly an older one.
EnvDaoAck ==
    /\ \E s \in 1 .. dao_last_seqno : dao_last_acked_seqno' = s
    /\ UNCHANGED <<armed, env, trickle, dao_curr_seqno, dao_last_seqno, dao_transmissions>>

Callbacks ==
    \/ handle_dis_timer \/ handle_periodic_timer \/ handle_dio_timer
    \/ handle_unicast_dio_timer \/ handle_dao_timer \/ handle_dao_ack_timer
    \/ handle_probing_timer \/ handle_leaving_timer \/ handle_state_update

Calls ==
    \/ rpl_timers_dio_reset \/ rpl_timers_schedule_unicast_dio
    \/ rpl_timers_schedule_dao \/ rpl_timers_schedule_dao_ack
    \/ schedule_probing \/ rpl_timers_unschedule_leaving
    \/ rpl_timers_schedule_leaving \/ stop_dag_timers
    \/ rpl_timers_unschedule_state_update \/ rpl_timers_schedule_state_update

Environment ==
    \/ EnvJoin \/ EnvParent \/ EnvReady \/ EnvUrgent \/ EnvConsistentDio
    \/ EnvDaoAck

Next == Callbacks \/ Calls \/ Environment

\* A set ctimer fires once its time has passed, unless it is stopped or set
\* again first: Contiki's ctimer process is never starved (every process
\* runs to completion).  Nothing is assumed of the rest of RPL-lite, nor
\* of the network: a DAO-ACK may never come.
Fairness ==
    /\ WF_vars(handle_dis_timer) /\ WF_vars(handle_periodic_timer)
    /\ WF_vars(handle_dio_timer) /\ WF_vars(handle_unicast_dio_timer)
    /\ WF_vars(handle_dao_timer) /\ WF_vars(handle_dao_ack_timer)
    /\ WF_vars(handle_probing_timer) /\ WF_vars(handle_leaving_timer)
    /\ WF_vars(handle_state_update)

Spec == Init /\ [][Next]_vars /\ Fairness

====
