-------------------------------- MODULE Shell --------------------------------
(***************************************************************************)
(* The Contiki-NG shell (os/services/shell/shell.c, shell-commands.c):    *)
(* shell_input, which trims a line, splits off its arguments and spawns   *)
(* the command of that name, and the commands whose state lives in these  *)
(* files: ping, with its echo-reply callback and its timeout, log,       *)
(* rpl-set-root with the RPL-lite root code it calls (rpl-dag-root.c),    *)
(* tsch-set-coordinator, 6top and reboot, which restarts the node.        *)
(*                                                                         *)
(* The shell runs in one Contiki process, which serial-shell (not in the  *)
(* repository) gives a line at a time.  `pc' is where the spawned         *)
(* protothread stands: "idle" (no command running) or "ping_wait"         *)
(* (PT_WAIT_UNTIL in cmd_ping).  The process is resumed by any event      *)
(* posted to it (`woken'): the poll of echo_reply_handler, the expiry of  *)
(* timeout_timer, or a serial line.                                       *)
(*                                                                         *)
(* The network holds echo requests and replies, which it may lose and     *)
(* deliver in any order and at any time; remote hosts answer requests.    *)
(* A reply carries the number of the ping it answers (its ttl and         *)
(* datalen, which the code keeps in curr_ping_ttl and curr_ping_datalen,  *)
(* stand for it), so that a property can tell replies apart.              *)
(*                                                                         *)
(* A line is a sequence of tokens: Sp for a space, or a word.  Words are  *)
(* strings; uiplib_ipaddrconv and strtol (not in the repository) are the  *)
(* constant functions AddrText and LevelText from words to what they      *)
(* parse to.  log.c is not in the repository: a module's level is what    *)
(* log_set_level last set, log_get_level gives -1 for a word that names   *)
(* no module ("all" included), and log_set_level("all") sets them all.    *)
(***************************************************************************)
EXTENDS Naturals, Integers, Sequences, SequencesExt

CONSTANTS Lines,      \* the lines serial-shell may pass to shell_input
          AddrText,   \* uiplib_ipaddrconv: word -> address (16 bytes)
          LevelText,  \* strtol: word -> [value, read: whether a digit was read]
          Modules,    \* the names of all_modules[]
          MaxPings,   \* bound: the pings the user issues
          BootLevels, \* the log level of every module at boot (log.c)
          UIP_CONF_IPV6_RPL, ROUTING_CONF_RPL_LITE, MAC_CONF_WITH_TSCH,
          TSCH_WITH_SIXTOP, LLSEC802154_ENABLED,  \* build configuration
          AddrSlots,     \* UIP_DS6_ADDR_NB less the link-local address
          AddrInitState, \* the state uip_ds6_addr_add gives an address:
                         \* "tentative" with DAD, else "preferred"
          DagPrefixes,   \* prefixes of DAGs the node may join
          MaxReboots     \* bound: the reboots the user issues

Sp == " "
NULL == "NULL"

\* shell_commands[]: the names of the commands the build includes.
Commands ==
    {"help", "reboot", "ip-addr", "ip-nbr", "log", "ping", "routes"}
    \cup (IF UIP_CONF_IPV6_RPL
          THEN {"rpl-set-root", "rpl-local-repair", "rpl-global-repair"} ELSE {})
    \cup (IF ROUTING_CONF_RPL_LITE THEN {"rpl-status"} ELSE {})
    \cup (IF MAC_CONF_WITH_TSCH
          THEN {"tsch-set-coordinator", "tsch-schedule", "tsch-status"} ELSE {})
    \cup (IF TSCH_WITH_SIXTOP THEN {"6top"} ELSE {})

LOG_LEVEL_NONE == 0
LOG_LEVEL_DBG == 4

VARIABLES pc,          \* the spawned command's protothread: "idle" or "ping_wait"
          woken,       \* an event is pending for the shell process
          out_func,    \* curr_ping_output_func # NULL
          timer,       \* timeout_timer is running (not etimer_expired)
          remote,      \* remote_addr
          reply_of,    \* curr_ping_ttl, curr_ping_datalen: the reply recorded
          pings,       \* the pings sent so far; the current one is number pings
          net,         \* echo requests and replies in flight
          results,     \* what each finished ping printed, in order
          levels,      \* the log level of every module
          initialized, \* rpl_dag_root_set_prefix's static `initialized'
          addrs,       \* the global addresses of uip_ds6_if.addr_list, in slot order
          dag,         \* curr_instance: used, rank = ROOT_RANK, the DAG id's prefix
          printed,     \* the prefix of the last "Setting as DAG root" (<<>>: none)
          tsch,        \* tsch_is_coordinator, tsch_is_pan_secured
          sixtop,      \* sixtop_sub_cmd # NULL
          reboots      \* the reboots so far

\* The state outside cmd_ping and cmd_log.
rplVars == <<initialized, addrs, dag, printed, tsch, sixtop, reboots>>

vars == <<pc, woken, out_func, timer, remote, reply_of, pings, net, results,
          levels, rplVars>>

-----------------------------------------------------------------------------
(* shell_output_6addr, over the 16 bytes of an address.                    *)

\* The characters printed, as ASCII codes.
Colon == 58
Dot == 46

\* printf %x or %u of n (b = 16 or 10): its digits in base b, most
\* significant first, as the characters '0'..'9', 'a'..'f'.
RECURSIVE Digits(_, _)
Digits(n, b) ==
    LET d == n % b
        c == IF d < 10 THEN 48 + d ELSE 87 + d
    IN  IF n < b THEN <<c>> ELSE Digits(n \div b, b) \o <<c>>

\* a = (ipaddr->u8[i] << 8) + ipaddr->u8[i + 1], for the group at byte i.
Group(addr, i) == addr[i + 1] * 256 + addr[i + 2]

\* ip64_addr_is_ipv4_mapped_addr (ip64-addr.c, not in the repository):
\* the prefix ::ffff:0:0/96.
IsV4Mapped(addr) ==
    /\ \A i \in 1 .. 10 : addr[i] = 0
    /\ addr[11] = 255 /\ addr[12] = 255

\* Mutant of Print6Groups: `f = -1' is left out, so every run of zero
\* groups, not only the first, is printed as "::".
RECURSIVE Print6GroupsAllRuns(_, _, _)
Print6GroupsAllRuns(addr, i, f) ==
    IF i >= 16 THEN <<>>
    ELSE LET a == Group(addr, i) IN
         IF a = 0 /\ f >= 0
         THEN (IF f = 0 THEN <<Colon, Colon>> ELSE <<>>) \o Print6GroupsAllRuns(addr, i + 2, f + 1)
         ELSE (IF f > 0 \/ i = 0 THEN <<>> ELSE <<Colon>>) \o Digits(a, 16)
                  \o Print6GroupsAllRuns(addr, i + 2, 0)

\* The loop `for(i = 0, f = 0; i < sizeof(uip_ipaddr_t); i += 2)': f counts
\* the zero groups of the first run, printed as "::", and is -1 once that
\* run has ended.
RECURSIVE Print6Groups(_, _, _)
Print6Groups(addr, i, f) ==
    IF i >= 16 THEN <<>>
    ELSE LET a == Group(addr, i) IN
         IF a = 0 /\ f >= 0
         THEN (IF f = 0 THEN <<Colon, Colon>> ELSE <<>>) \o Print6Groups(addr, i + 2, f + 1)
         ELSE (IF f > 0 \/ i = 0 THEN <<>> ELSE <<Colon>>) \o Digits(a, 16)
                  \o Print6Groups(addr, i + 2, IF f > 0 THEN -1 ELSE f)

\* The text shell_output_6addr prints ("::FFFF:" in capitals).
shell_output_6addr(addr) ==
    IF IsV4Mapped(addr)
    THEN <<Colon, Colon, 70, 70, 70, 70, Colon>> \o Digits(addr[13], 10) \o <<Dot>>
            \o Digits(addr[14], 10) \o <<Dot>> \o Digits(addr[15], 10) \o <<Dot>>
            \o Digits(addr[16], 10)
    ELSE Print6Groups(addr, 0, 0)

-----------------------------------------------------------------------------
(* shell_input: the line up to the first space names the command.          *)

\* `while(*cmd == ' ') cmd++'.
RECURSIVE Trim(_)
Trim(l) == IF l # <<>> /\ Head(l) = Sp THEN Trim(Tail(l)) ELSE l

\* args = strchr(cmd, ' '): the index of the first space, 0 if none.
FirstSpace(l) == IF Sp \in ToSet(l) THEN CHOOSE i \in 1 .. Len(l) : l[i] = Sp /\ Sp \notin ToSet(SubSeq(l, 1, i - 1)) ELSE 0

\* The command word (the text before the space, "" when it is empty) and
\* the argument words, NULL when the line has no space.
CmdOf(l) == LET c == IF FirstSpace(l) = 0 THEN l ELSE SubSeq(l, 1, FirstSpace(l) - 1)
            IN IF c = <<>> THEN "" ELSE Head(c)
ArgsOf(l) == IF FirstSpace(l) = 0 THEN NULL ELSE SelectSeq(SubSeq(l, FirstSpace(l) + 1, Len(l)), LAMBDA w : w # Sp)

\* SHELL_ARGS_NEXT (shell.h, not in the repository): the next argument
\* word, NULL when there is none.
NextArg(args, k) == IF args = NULL \/ k > Len(args) THEN NULL ELSE args[k]

-----------------------------------------------------------------------------
(* rpl-dag-root.c, and what it calls of uIP and RPL-lite (not in the      *)
(* repository).  An address is its prefix, the first 8 bytes; the         *)
(* interface identifier is always uip_lladdr's.  NETSTACK_ROUTING's       *)
(* root_set_prefix, root_start and node_is_root are rpl_dag_root_*.       *)

PrefixOf(addr) == SubSeq(addr, 1, 8)

\* UIP_DS6_DEFAULT_PREFIX, 0xfd00.
DefaultPrefix == <<253, 0, 0, 0, 0, 0, 0, 0>>

\* curr_instance.used = 0.
NoDag == [used |-> FALSE, root |-> FALSE, prefix |-> <<>>]

\* uip_ds6_addr_add: the address takes the next free slot, in state
\* AddrInitState; a full list is left as it is.
AddrAdd(list, p) ==
    IF Len(list) < AddrSlots
    THEN Append(list, [prefix |-> p, state |-> AddrInitState])
    ELSE list

\* set_global_address: the prefix (UIP_DS6_DEFAULT_PREFIX for NULL) with
\* the link-layer interface identifier is added to the interface.
set_global_address(p) == AddrAdd(addrs, p)

\* rpl_dag_root_set_prefix: only the first call since boot sets an
\* address; `initialized' stays 1 until the node reboots.
rpl_dag_root_set_prefix(p) ==
    IF initialized THEN addrs ELSE set_global_address(p)

\* Mutant of RootAddrIndex: the state of the address is not looked at.
RootAddrIndexAnyState(l) ==
    IF l = <<>> THEN 0 ELSE Len(l)

\* rpl_dag_root_start's loop: the last used, preferred, non-link-local
\* address of addr_list (0: ipaddr stays NULL).
RootAddrIndex(l) ==
    LET c == {i \in 1 .. Len(l) : l[i].state = "preferred"}
    IN  IF c = {} THEN 0 ELSE Max(c)

\* rpl_dag_root_start over the address list l: its own
\* rpl_dag_root_set_prefix(NULL, NULL) changes nothing once initialized;
\* with an address found, rpl_dag_init_root makes the node the root of a
\* DAG whose id is that address; with none, it returns -1 and the DAG is
\* left as it was.
rpl_dag_root_start(l) ==
    IF RootAddrIndex(l) = 0 THEN dag
    ELSE [used |-> TRUE, root |-> TRUE, prefix |-> l[RootAddrIndex(l)].prefix]

\* rpl_dag_root_is_root: curr_instance.used && rank == ROOT_RANK.
rpl_dag_root_is_root == dag.used /\ dag.root

\* tsch_is_coordinator and tsch_is_pan_secured at boot.
TschBoot == [coordinator |-> FALSE, secured |-> FALSE]

-----------------------------------------------------------------------------

Init ==
    /\ pc = "idle"
    /\ woken = FALSE
    /\ out_func = FALSE
    /\ timer = FALSE
    /\ remote = [i \in 1 .. 16 |-> 0]
    /\ reply_of = 0
    /\ pings = 0
    /\ net = {}
    /\ results = <<>>
    /\ levels = BootLevels
    /\ initialized = FALSE
    /\ addrs = <<>>
    /\ dag = NoDag
    /\ printed = <<>>
    /\ tsch = TschBoot
    /\ sixtop = FALSE
    /\ reboots = 0

\* The line runs a command that ends at once and only prints `what'
\* and the prompt (output_prompt).  Printed text is not modelled: no
\* state changes.
Output(what) == UNCHANGED vars

\* cmd_ping up to PT_WAIT_UNTIL: a word uiplib_ipaddrconv rejects ends the
\* command; otherwise curr_ping_output_func is set, timeout_timer set, and
\* the echo request sent.
cmd_ping(args) ==
    LET w == NextArg(args, 1) IN
    IF w \notin DOMAIN AddrText
    THEN Output("invalid_ip")
    ELSE /\ pings < MaxPings
         /\ pc' = "ping_wait"
         /\ remote' = AddrText[w]
         /\ out_func' = TRUE
         /\ timer' = TRUE
         /\ woken' = FALSE
         /\ pings' = pings + 1
         /\ net' = net \cup {[type |-> "request", ping |-> pings + 1]}
         /\ UNCHANGED <<reply_of, results, levels, rplVars>>

\* log_get_level.
LevelOf(m) == IF m \in Modules THEN levels[m] ELSE -1

\* cmd_log: the module word, then the level word, each checked; the level
\* is set only when it differs from the one log_get_level gave.
cmd_log(args) ==
    LET module == NextArg(args, 1)
        prev_level == LevelOf(module)
        lw == NextArg(args, 2)
        level == IF lw = NULL THEN -1 ELSE LevelText[lw].value
        badModule == module = NULL \/ (module # "all" /\ prev_level = -1)
        \* `(level == 0 && args == ptr)': strtol read no digit.
        badLevel == \/ lw # NULL /\ level = 0 /\ ~LevelText[lw].read
                    \/ level < LOG_LEVEL_NONE \/ level > LOG_LEVEL_DBG
    IN  \/ badModule /\ Output("invalid_module")
        \/ ~badModule /\ badLevel /\ Output("invalid_level")
        \/ /\ ~badModule /\ ~badLevel
           /\ levels' = IF level = prev_level THEN levels
                        ELSE IF module = "all" THEN [m \in Modules |-> level]
                        ELSE [levels EXCEPT ![module] = level]
           /\ UNCHANGED <<pc, woken, out_func, timer, remote, reply_of, pings, net, results, rplVars>>

\* cmd_rpl_set_root: "1" or "0", then an optional prefix.  To become root
\* the shell prints the prefix, passes it to root_set_prefix and calls
\* root_start, whose result it ignores; "0" leaves the DAG
\* (rpl_dag_leave, in rpl-dag.c, not in the repository).
cmd_rpl_set_root(args) ==
    LET on == NextArg(args, 1)
        w == NextArg(args, 2)
        prefix == IF w = NULL THEN DefaultPrefix ELSE PrefixOf(AddrText[w])
        l == rpl_dag_root_set_prefix(prefix)
    IN  \/ on \notin {"0", "1"} /\ Output("invalid_argument")
        \/ on \in {"0", "1"} /\ w # NULL /\ w \notin DOMAIN AddrText
           /\ Output("invalid_prefix")
        \/ on = "1" /\ (w = NULL \/ w \in DOMAIN AddrText) /\ rpl_dag_root_is_root
           /\ Output("already_root")
        \/ /\ on = "1" /\ (w = NULL \/ w \in DOMAIN AddrText) /\ ~rpl_dag_root_is_root
           /\ addrs' = l
           /\ initialized' = TRUE
           /\ dag' = rpl_dag_root_start(l)
           /\ printed' = prefix
           /\ UNCHANGED <<pc, woken, out_func, timer, remote, reply_of, pings, net, results,
                          levels, tsch, sixtop, reboots>>
        \/ on = "0" /\ (w = NULL \/ w \in DOMAIN AddrText) /\ ~rpl_dag_root_is_root
           /\ Output("not_root")
        \/ /\ on = "0" /\ (w = NULL \/ w \in DOMAIN AddrText) /\ rpl_dag_root_is_root
           /\ dag' = NoDag
           /\ printed' = <<>>
           /\ UNCHANGED <<pc, woken, out_func, timer, remote, reply_of, pings, net, results,
                          levels, initialized, addrs, tsch, sixtop, reboots>>

\* cmd_tsch_set_coordinator: "1" or "0", then optionally "1" or "0" for
\* security, which without LLSEC802154_ENABLED prints a warning and is 0.
\* tsch_set_pan_secured and tsch_set_coordinator (tsch.c, not in the
\* repository) set the two flags.
cmd_tsch_set_coordinator(args) ==
    LET on == NextArg(args, 1)
        sec == NextArg(args, 2)
    IN  \/ on \notin {"0", "1"} /\ Output("invalid_first")
        \/ on \in {"0", "1"} /\ sec \notin {NULL, "0", "1"} /\ Output("invalid_second")
        \/ /\ on \in {"0", "1"} /\ sec \in {NULL, "0", "1"}
           /\ tsch' = [coordinator |-> on = "1",
                       secured |-> sec = "1" /\ LLSEC802154_ENABLED]
           /\ UNCHANGED <<pc, woken, out_func, timer, remote, reply_of, pings, net, results,
                          levels, initialized, addrs, dag, printed, sixtop, reboots>>

\* cmd_reboot: watchdog_reboot restarts the node.  Everything in RAM
\* starts again from its boot value: the statics of the shell and of
\* rpl-dag-root.c, the address list, the DAG, the log levels, TSCH and
\* the 6top sub-command.  Packets already in the network stay there.
cmd_reboot ==
    /\ reboots < MaxReboots
    /\ reboots' = reboots + 1
    /\ woken' = FALSE
    /\ out_func' = FALSE
    /\ timer' = FALSE
    /\ remote' = [i \in 1 .. 16 |-> 0]
    /\ reply_of' = 0
    /\ levels' = BootLevels
    /\ initialized' = FALSE
    /\ addrs' = <<>>
    /\ dag' = NoDag
    /\ printed' = <<>>
    /\ tsch' = TschBoot
    /\ sixtop' = FALSE
    /\ UNCHANGED <<pc, pings, net, results>>

\* cmd_6top: hands the arguments to sixtop_sub_cmd, if one is set.
cmd_6top == Output(IF sixtop THEN "6top" ELSE "6top_unavailable")

\* serial-shell hands shell_input a line while no command runs.  The
\* commands not above only print, or act on state of uIP, RPL-lite and
\* TSCH outside the repository (the repairs).
shell_input(l) ==
    LET cmd == CmdOf(Trim(l))
        args == ArgsOf(Trim(l))
    IN  /\ pc = "idle"
        /\ CASE cmd \notin Commands -> Output("not_found")
             [] cmd = "ping"  -> cmd_ping(args)
             [] cmd = "log"   -> cmd_log(args)
             [] cmd = "rpl-set-root" -> cmd_rpl_set_root(args)
             [] cmd = "tsch-set-coordinator" -> cmd_tsch_set_coordinator(args)
             [] cmd = "reboot" -> cmd_reboot
             [] cmd = "6top"  -> cmd_6top
             [] OTHER -> Output(cmd)

-----------------------------------------------------------------------------
(* The callback, the timer and the resumption of cmd_ping.                 *)

\* uIP delivers an echo reply m and calls echo_reply_handler: while a ping
\* waits, the reply is recorded, curr_ping_output_func cleared and the
\* shell process polled; otherwise the reply is dropped.
echo_reply_handler(m) ==
    /\ m \in net /\ m.type = "reply"
    /\ net' = net \ {m}
    /\ IF out_func
       THEN /\ out_func' = FALSE
            /\ reply_of' = m.ping
            /\ woken' = TRUE
       ELSE UNCHANGED <<out_func, reply_of, woken>>
    /\ UNCHANGED <<pc, timer, remote, pings, results, levels, rplVars>>

\* timeout_timer expires: the etimer process posts PROCESS_EVENT_TIMER to
\* the shell process, which a running ping receives.  The timer is never
\* stopped, so it may expire after the ping has ended, when serial-shell
\* consumes the event.
TimerExpire ==
    /\ timer
    /\ timer' = FALSE
    /\ woken' = (pc = "ping_wait" \/ woken)
    /\ UNCHANGED <<pc, out_func, remote, reply_of, pings, net, results, levels, rplVars>>

\* The shell process runs on an event, and the wait condition
\* `curr_ping_output_func == NULL || etimer_expired(&timeout_timer)' is
\* false: the protothread waits again.
PingStillWaiting ==
    /\ pc = "ping_wait" /\ woken
    /\ out_func /\ timer
    /\ woken' = FALSE
    /\ UNCHANGED <<pc, out_func, timer, remote, reply_of, pings, net, results, levels, rplVars>>

\* The outcome a finished ping prints.
Outcome(timedOut) ==
    [ping |-> pings, remote |-> remote,
     outcome |-> IF timedOut THEN "timeout" ELSE "reply",
     reply |-> IF timedOut THEN 0 ELSE reply_of]

\* Mutant of PingDone: the condition waits for the reply only.
PingDoneOnReply ==
    /\ pc = "ping_wait" /\ woken
    /\ ~out_func
    /\ woken' = FALSE
    /\ pc' = "idle"
    /\ results' = Append(results, Outcome(FALSE))
    /\ UNCHANGED <<out_func, timer, remote, reply_of, pings, net, levels, rplVars>>

\* Mutant of PingDone: "Timeout" is printed, curr_ping_output_func kept.
PingDoneKeepFunc ==
    /\ pc = "ping_wait" /\ woken
    /\ ~out_func \/ ~timer
    /\ woken' = FALSE
    /\ pc' = "idle"
    /\ results' = Append(results, Outcome(out_func))
    /\ UNCHANGED <<out_func, timer, remote, reply_of, pings, net, levels, rplVars>>

\* The wait condition holds: a ping still without reply prints "Timeout"
\* and clears curr_ping_output_func; otherwise it prints the reply.  The
\* command ends and the prompt is printed.
PingDone ==
    /\ pc = "ping_wait" /\ woken
    /\ ~out_func \/ ~timer
    /\ woken' = FALSE
    /\ pc' = "idle"
    /\ results' = Append(results, Outcome(out_func))
    /\ out_func' = FALSE
    /\ UNCHANGED <<timer, remote, reply_of, pings, net, levels, rplVars>>

\* serial-shell receives a line while a ping runs: the event resumes the
\* protothread and the line is lost.
LineDuringPing ==
    /\ pc = "ping_wait"
    /\ woken' = TRUE
    /\ UNCHANGED <<pc, out_func, timer, remote, reply_of, pings, net, results, levels, rplVars>>

\* A remote host answers an echo request.
Answer(m) ==
    /\ m \in net /\ m.type = "request"
    /\ net' = (net \ {m}) \cup {[type |-> "reply", ping |-> m.ping]}
    /\ UNCHANGED <<pc, woken, out_func, timer, remote, reply_of, pings, results, levels, rplVars>>

\* The network loses a message.
Lose(m) ==
    /\ m \in net
    /\ net' = net \ {m}
    /\ UNCHANGED <<pc, woken, out_func, timer, remote, reply_of, pings, results, levels, rplVars>>

\* The 6top module registers its sub-command handler.
shell_commands_set_6top_sub_cmd ==
    /\ ~sixtop
    /\ sixtop' = TRUE
    /\ UNCHANGED <<pc, woken, out_func, timer, remote, reply_of, pings, net, results,
                   levels, initialized, addrs, dag, printed, tsch, reboots>>

\* RPL-lite (not in the repository) joins a DAG advertised with prefix p
\* as a non-root node, and SLAAC adds an address with that prefix.
JoinDag(p) ==
    /\ ~dag.used
    /\ dag' = [used |-> TRUE, root |-> FALSE, prefix |-> p]
    /\ addrs' = IF \E i \in 1 .. Len(addrs) : addrs[i].prefix = p THEN addrs
                ELSE AddrAdd(addrs, p)
    /\ UNCHANGED <<pc, woken, out_func, timer, remote, reply_of, pings, net, results,
                   levels, initialized, printed, tsch, sixtop, reboots>>

\* Duplicate address detection (uip-ds6.c) ends for a tentative address,
\* which becomes preferred.
DadDone(i) ==
    /\ addrs[i].state = "tentative"
    /\ addrs' = [addrs EXCEPT ![i].state = "preferred"]
    /\ UNCHANGED <<pc, woken, out_func, timer, remote, reply_of, pings, net, results,
                   levels, initialized, dag, printed, tsch, sixtop, reboots>>

Next ==
    \/ \E l \in Lines : shell_input(l)
    \/ \E m \in net : echo_reply_handler(m) \/ Answer(m) \/ Lose(m)
    \/ TimerExpire
    \/ PingStillWaiting
    \/ PingDone
    \/ LineDuringPing
    \/ shell_commands_set_6top_sub_cmd
    \/ \E p \in DagPrefixes : JoinDag(p)
    \/ \E i \in 1 .. Len(addrs) : DadDone(i)

\* The etimer process posts the timer event once the timer expires, and
\* the shell process runs on every event posted to it: Contiki's
\* scheduler runs every process with a pending event.  Nothing is
\* assumed of the user or of the network.
Fairness ==
    /\ WF_vars(TimerExpire)
    /\ WF_vars(PingStillWaiting)
    /\ WF_vars(PingDone)

Spec == Init /\ [][Next]_vars /\ Fairness

====
