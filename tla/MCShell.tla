-------------------------------- MODULE MCShell --------------------------------
(***************************************************************************)
(* Model checking of Shell: five addresses whose zero groups fall at the   *)
(* start, in the middle, in two runs and at the end, and an IPv4-mapped    *)
(* one; ping lines for each, a word uiplib_ipaddrconv rejects, every kind  *)
(* of log line, help and an unknown command.  Lines separate their         *)
(* arguments by one space.                                                 *)
(***************************************************************************)
EXTENDS Shell

\* An address from its eight 16-bit groups.
FromGroups(g) == [i \in 1 .. 16 |-> IF i % 2 = 1 THEN g[(i + 1) \div 2] \div 256
                                                ELSE g[i \div 2] % 256]

Loopback  == FromGroups(<<0, 0, 0, 0, 0, 0, 0, 1>>)
TwoRuns   == FromGroups(<<1, 0, 1, 0, 0, 0, 0, 1>>)
TrailZero == FromGroups(<<1, 0, 0, 0, 0, 0, 0, 0>>)
NoZero    == FromGroups(<<1, 2, 3, 4, 5, 6, 7, 8>>)
V4Mapped  == FromGroups(<<0, 0, 0, 0, 0, 65535, 2560, 1>>)

MCAddrText == ("lo" :> Loopback) @@ ("two" :> TwoRuns) @@ ("trail" :> TrailZero)
                 @@ ("full" :> NoZero) @@ ("v4" :> V4Mapped)

MCLevelText == ("0" :> [value |-> 0, read |-> TRUE]) @@ ("3" :> [value |-> 3, read |-> TRUE])
                  @@ ("5" :> [value |-> 5, read |-> TRUE]) @@ ("x" :> [value |-> 0, read |-> FALSE])

MCModules == {"mac", "net"}

MCLines ==
    { <<"ping", Sp, w>> : w \in DOMAIN MCAddrText }
    \cup { <<Sp, "ping", Sp, "bad">>, <<"help">>, <<Sp, Sp>>, <<"nosuch">>,
           <<"log">>, <<"log", Sp, "mac">>, <<"log", Sp, "bogus", Sp, "3">>,
           <<"log", Sp, "mac", Sp, "x">>, <<"log", Sp, "net", Sp, "5">>,
           <<"log", Sp, "mac", Sp, "3">>, <<"log", Sp, "all", Sp, "0">> }
    \cup { <<"rpl-set-root", Sp, "1">>, <<"rpl-set-root", Sp, "1", Sp, "two">>,
           <<"rpl-set-root", Sp, "1", Sp, "bad">>, <<"rpl-set-root", Sp, "0">>,
           <<"rpl-set-root", Sp, "x">>, <<"rpl-local-repair">>,
           <<"tsch-set-coordinator", Sp, "1", Sp, "1">>, <<"tsch-set-coordinator", Sp, "0">>,
           <<"tsch-set-coordinator", Sp, "1", Sp, "x">>, <<"tsch-set-coordinator", Sp, "2">>,
           <<"reboot">>, <<"6top">> }

MCBootLevels == ("mac" :> 3) @@ ("net" :> 0)

\* The prefix of a DAG the node may join: 2001:db8::/64.
MCDagPrefixes == { <<32, 1, 13, 184, 0, 0, 0, 0>> }

\* The RPL, TSCH and 6top state and the ping state change independently
\* of each other; only a reboot touches both.  The passing run explores
\* root, TSCH and 6top commands on a node that has not pinged since boot,
\* and pings on a node whose RPL, TSCH and 6top state is the boot state.
PingOrRoot ==
    \/ pings = 0
    \/ addrs = <<>> /\ dag = NoDag /\ printed = <<>> /\ ~initialized
       /\ tsch = TschBoot /\ ~sixtop

-----------------------------------------------------------------------------
(* The texts RFC 4291 section 2.2 allows for an address: the eight groups  *)
(* in hex separated by ":", one run of zero groups possibly written "::",  *)
(* and for an IPv4-mapped address the last two groups possibly written as  *)
(* four decimal bytes.                                                     *)

Groups(addr) == [k \in 1 .. 8 |-> Group(addr, 2 * (k - 1))]

RECURSIVE JoinGroups(_)
JoinGroups(g) ==
    IF g = <<>> THEN <<>>
    ELSE IF Len(g) = 1 THEN Digits(Head(g), 16)
    ELSE Digits(Head(g), 16) \o <<Colon>> \o JoinGroups(Tail(g))

\* The runs s..e of zero groups of g.
ZeroRuns(g) == { p \in (1 .. Len(g)) \X (1 .. Len(g)) :
                   p[1] <= p[2] /\ \A k \in p[1] .. p[2] : g[k] = 0 }

\* The texts of the groups g: none compressed, or one zero run as "::".
GroupTexts(g) ==
    {JoinGroups(g)}
    \cup { JoinGroups(SubSeq(g, 1, p[1] - 1)) \o <<Colon, Colon>> \o JoinGroups(SubSeq(g, p[2] + 1, Len(g))) :
           p \in ZeroRuns(g) }

Dotted(addr) == Digits(addr[13], 10) \o <<Dot>> \o Digits(addr[14], 10) \o <<Dot>>
                  \o Digits(addr[15], 10) \o <<Dot>> \o Digits(addr[16], 10)

\* Hex digits are read without regard to case.
Lower(t) == [i \in 1 .. Len(t) |-> IF t[i] \in 65 .. 70 THEN t[i] + 32 ELSE t[i]]

Rfc4291Texts(addr) ==
    GroupTexts(Groups(addr))
    \cup IF ~IsV4Mapped(addr) THEN {}
         ELSE { t \o (IF Len(t) >= 2 /\ SubSeq(t, Len(t) - 1, Len(t)) = <<Colon, Colon>>
                      THEN <<>> ELSE <<Colon>>) \o Dotted(addr) :
                t \in GroupTexts(SubSeq(Groups(addr), 1, 6)) }

-----------------------------------------------------------------------------
(* Properties.                                                             *)

\* Every ping command ends: whether the echo reply comes, comes late, or
\* is lost, cmd_ping's PT_WAIT_UNTIL is left once timeout_timer expires,
\* and the shell goes back to reading lines.
PingEnds == pc = "ping_wait" ~> pc = "idle"

\* curr_ping_output_func is set only while cmd_ping waits: once a ping has
\* ended, by its reply or by its timeout, echo_reply_handler ignores every
\* reply, late or duplicated, that still arrives.
OutputFuncOnlyWhileWaiting == out_func => pc = "ping_wait"

\* The address shell_output_6addr prints for "Pinging" is a text of the
\* pinged address in the sense of RFC 4291 (at most one "::", standing for
\* a run of zero groups).
PrintedAddressValid ==
    pc = "ping_wait" => Lower(shell_output_6addr(remote)) \in Rfc4291Texts(remote)

\* The DAG the node is root of has, as its id, one of the node's own
\* addresses, and one that duplicate address detection has finished
\* with: rpl_dag_root_start picks it among the preferred addresses, over
\* set-root and leave commands, DAGs joined, DAD and reboots.
RootDagOwnAddress ==
    rpl_dag_root_is_root =>
        \E i \in 1 .. Len(addrs) : addrs[i].prefix = dag.prefix /\ addrs[i].state = "preferred"

\* Once rpl-set-root has printed "Setting as DAG root with prefix P", the
\* node is root of a DAG with prefix P, for as long as it stays root.
ShellRootAsPrinted ==
    rpl_dag_root_is_root => dag.prefix = printed

\* A ping that prints "Received ping reply from" its address has received
\* a reply to its own echo request.
ReplyAnswersPing ==
    \A i \in 1 .. Len(results) :
        results[i].outcome = "reply" => results[i].reply = results[i].ping

====
