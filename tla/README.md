# TLA+ models of TinyEVM

This directory holds TLA+ models of TinyEVM and of the parts of Contiki-NG it
ships with that have state worth checking, together with the TLC
configurations that check them. `PROJECT.json` lists:

- every component, modelled or not;
- every run and what it shows;
- the mutants;
- the source lines every definition translates (`map`);
- the findings;
- the hazards.

## The system

TinyEVM is an EVM interpreter that runs on Contiki-NG sensor nodes.

- **`evm.h`: the machine.** It defines the `Machine` struct:
  - `MEM[MEMORY_SPACE]` (bytes);
  - `STACK[STACK_SPACE]` and `STORAGE[STORAGE_SPACE]` (256-bit words);
  - `GAS_Charge`;
  - the `Message_Ext` block (caller, value, `data[]`, datasize,
    codesize, address).
- **`eth_vm.c`: the interpreter.**
  - `execute_contract` is the loop. It checks gas, decodes one opcode,
    handles RETURN and errors, advances PC, and looks ahead for a STOP.
  - `decode_instruction` has one `switch` case per opcode.
  - `stack_push` and `stack_pop` move SP.
  - RETURN fills the global `deployed_contract` and `DeployLength`.
- **`uint256.h`: 256-bit arithmetic.** It is not in the repository, so
  it is modelled from `spec.md`.
- **`Ethereum_App.c`: the driver.** A Contiki process that:
  1. builds the message;
  2. runs the constructor code;
  3. calls `init_machine`;
  4. runs `deployed_contract` a second time.

The interpreter and driver are single-threaded and persist nothing. Their
hazards are bounds and off-by-ones in a flat C struct, control flow, and
multi-limb arithmetic.

Four parts of Contiki-NG under `src/` have state and ordering of their own.
All four are modelled:

- **tinyDTLS `netq.c`.** A time-ordered linked list of packets whose nodes
  come from a fixed MEMB pool.
- **RPL-lite `rpl-timers.c`.** The DIS, periodic, Trickle-DIO, unicast DIO,
  DAO/DAO-ACK, probing, leaving and state-update ctimers. The callbacks
  run from Contiki's ctimer process, interleaved with calls from the rest
  of RPL-lite.
- **The shell, `shell.c` and `shell-commands.c`.** `shell_input` trims a
  line, splits off its arguments and spawns the command of that name as a
  protothread of the shell process. `ping` sends an echo request and waits
  until `echo_reply_handler` sees a reply or `timeout_timer` expires; the
  reply callback runs from the IPv6 stack, interleaved with the timer and
  with lines the user types. `log` reads and sets per-module log levels.
  `rpl-set-root` calls into RPL-lite's root code; `reboot` restarts the
  node.
- **RPL-lite `rpl-dag-root.c`.** `rpl_dag_root_set_prefix` adds the root's
  global address (only on its first call since boot), and
  `rpl_dag_root_start` makes the node root of a DAG whose id is the last
  preferred global address of the interface.

## Modules

| Module | Models | Sources |
|---|---|---|
| `EvmWord` | A word as four limbs. The `uint256.h` primitives, `swapLong`, the PUSH accumulators, EXP and BYTE. | `eth_vm.c`, `uint256.h` API from `spec.md` |
| `MCEvmWord` | EXP, which `eth_vm.c` writes itself, against the integer power for every 8-bit word. | — |
| `EvmInterpreter` | The machine, the message block built by `Ethereum_App.c`, `execute_contract`, every case of `decode_instruction`. | `eth_vm.c`, `evm.h`, `Ethereum_App.c` |
| `MCEvmInterpreter` | Every code buffer of up to `MaxInstrs` instructions of a per-run set, and the interpreter's properties. | — |
| `EvmDriver` | Composes two `execute_contract` calls with the `init_machine` between them. | `Ethereum_App.c` |
| `MCEvmDriver` | Compiler-shaped constructors plus enumerated buffers, and the CODESIZE property of the two phases. | — |
| `Netq` | The netq pointer list and MEMB pool: one action per netq function that changes state. | `netq.c` |
| `NetqQueue` | What netq promises: a time-ordered FIFO sequence and a set of pool nodes in use. No pointers. | abstract |
| `MCNetq` | The refinement mapping from `Netq` to `NetqQueue` and the list invariant. | — |
| `RplTimers` | Every ctimer, callback and API function of `rpl-timers.c`, with the absent rest of RPL-lite as the environment. | `rpl-timers.c` |
| `MCRplTimers` | The RPL timer properties. | — |
| `Shell` | `shell_input` over the command table of the build, `cmd_ping` with `echo_reply_handler` and its timeout, `cmd_log`, `cmd_rpl_set_root` composed with `rpl-dag-root.c`, `cmd_tsch_set_coordinator`, `cmd_6top`, `cmd_reboot`, `shell_output_6addr`; a lossy network, DAD, DAG joins and the user as the environment. | `shell.c`, `shell-commands.c`, `rpl-dag-root.c` |
| `MCShell` | Five addresses, every kind of log line, root, TSCH, 6top and reboot lines, RFC 4291 address texts as the reference, and the shell properties. | — |

### EvmInterpreter

**State.**

- `ram` is the `Machine` block as one byte array, laid out as
  `MEM | PAD | STACK | STORAGE | GAS_Charge | Message_Ext`.
  - `StackAddr(k)` and `StorageAddr(k)` compute `&STACK[k]` and
    `&STORAGE[k]` as C does. So `STACK[STACK_SPACE]` is `STORAGE[0]` and
    `STORAGE[STORAGE_SPACE]` is `GAS_Charge`.
  - An address outside the block ends the run in status `"outside"`.
    That is undefined behaviour, and nothing is claimed past it.
- `pc`, `sp` and `code` are PC, SP and `s_contract`.
- `status` is the way the loop was left: `running`, `end`, `gas`, `stop`,
  `return`, `error` or `outside`.
- `deployed` and `DeployLength` are the globals of the same names.
- `MessageRam` is the message block as `Ethereum_App.c` fills it:
  - the selector in `data[0..]`;
  - `datasize = 0x84`;
  - `codesize`;
  - the caller.

**Actions.** Each opcode case is one action, and each action is one whole
loop iteration:

1. the gas check;
2. the case body, with its pops, pushes and `GAS_Charge` update;
3. the RETURN and error exits, `PC++` and the STOP look-ahead (`Finish`).

The parts of the code the actions reproduce:

- Guards are the case's early returns.
- Charges sit where the code places them, including the cases that return
  before charging.
- CALLDATALOAD, CALLDATACOPY and CODECOPY reproduce the code exactly:
  - the bounds each one checks;
  - the source each copies from;
  - CODECOPY's copies, all onto `MEM[MEMOffset]`.

**Fairness.** The loop never blocks, so it keeps stepping until it is left.
`LoopFairness` says "the loop is eventually left, or steps keep
occurring". This equals `WF_vars(Next)`, because:

- `Next` is enabled exactly while `status = "running"`;
- every iteration changes some variable.

### EvmDriver

`phase` tells the two `execute_contract` calls apart.

- `Iteration` is a step of the running call.
- `Redeploy` is `init_machine` followed by the second call. It fires
  whatever ended the first loop.
  - It resets PC, SP and `GAS_Charge`.
  - It loads `DEPLOY_LENGTH` bytes of `deployed_contract`. That is the
    constant, not `DeployLength`.
  - MEM, STACK, STORAGE and the message, `codesize` included, keep what the
    constructor left.

The fairness is `LoopFairness` plus `WF(Redeploy)`. `PROCESS_THREAD` has no
`PROCESS_WAIT` between the calls, so once the first call returns the second
is certain to be made.

### Netq and NetqQueue (refinement)

In `Netq`:

- `queue`, `next` and `t` are `*queue` and the fields of the pool's
  blocks.
- `allocated` is the set of blocks `memb_alloc` handed out.
- `List` follows `next` from `queue`.
- `netq_insert_node` walks past the nodes with `p->t <= node->t`
  (`WalkPast`, `NotLater`) and links the new node in (`Link`).

The queue's user is the DTLS retransmission code, which is not in the
repository. It is modelled by the calls it makes:

- it inserts only nodes it holds and has not queued;
- it frees only nodes that are not queued.

Each call is one step, because Contiki processes are not preempted.

`MCNetq` maps `q <- List` and `used <- allocated`, then checks
`NetqQueue!Spec` as a property.

### RplTimers

- `armed[t]` tells whether ctimer `t` is set. `ctimer_expired` is
  `~armed`.
- Time is abstracted: an armed timer may fire at any moment.
- A callback is one step: it runs to completion in the ctimer process.
- `dio_intcurrent`, `dio_send`, `dio_counter` and the four DAO sequence
  fields are the `curr_instance.dag` fields of the same names.
- rpl-dag.c, rpl-icmp6.c and rpl-neighbor.c are not in the repository.
  Their state is abstracted to four flags:
  - `used`: `curr_instance.used`;
  - `joined`: a preferred parent and a finite rank;
  - `ready`: `rpl_dag_ready_to_advertise`;
  - `urgent`: an urgent probing target.
- The `Env*` actions are that environment:
  - it may change the flags;
  - it may hear consistent DIOs;
  - it may acknowledge any DAO sent, late or never.
- The `Calls` actions are every API function of `rpl-timers.c`. The
  environment may call any of them at any time.
- The fairness is weak fairness of each callback. A set ctimer fires
  unless it is stopped or set again first, because the ctimer process is
  never starved. Nothing is assumed of the network or of the rest of
  RPL-lite.

### Shell

The state is the protothread's place `pc` (`"idle"` or `"ping_wait"`, the
`PT_WAIT_UNTIL` of `cmd_ping`), `woken` (an event is pending for the shell
process), `out_func` (`curr_ping_output_func` is set), `timer`
(`timeout_timer` is running), `remote` (`remote_addr`), `levels` (what
`log_set_level` last set) and the network `net`. Two ghost variables let
properties tell pings apart: `pings` numbers them, a request and its reply
carry that number (the code's `curr_ping_ttl`/`curr_ping_datalen` play
this part), and `results` records how each ping ended.

The rest of the node's state: `initialized` (the static of
`rpl_dag_root_set_prefix`), `addrs` (the global addresses of
`uip_ds6_if.addr_list` in slot order, each with its prefix and its state,
tentative or preferred), `dag` (`curr_instance`: used, root, and the
prefix of the DAG id), `tsch` (coordinator and PAN-secured flags),
`sixtop` (`sixtop_sub_cmd` is set) and `reboots`. The ghost `printed` is
the prefix the last "Setting as DAG root with prefix" printed.

Printed text is not modelled: a command that only prints (`help`,
`ip-addr`, `ip-nbr`, `routes`, `rpl-status`, the TSCH status commands,
the repairs, and the error messages) is a step that changes nothing. The
build configuration (`UIP_CONF_IPV6_RPL`, `ROUTING_CONF_RPL_LITE`,
`MAC_CONF_WITH_TSCH`, `TSCH_WITH_SIXTOP`, `LLSEC802154_ENABLED`) is a set
of constants; `Commands` is the table the `#if`s leave.

- `shell_input(l)` is the whole of `shell_input` with the command it
  spawns: `cmd_ping`, `cmd_log`, the print-only commands (`Output`) or
  "Command not found".
- `cmd_ping(args)` runs up to `PT_WAIT_UNTIL`: an address that does not
  parse prints an error; otherwise it sets `curr_ping_output_func`, sends
  the request, starts the timer and prints `shell_output_6addr(remote)`.
- `echo_reply_handler(m)` polls the shell if a ping waits, else drops the
  reply. `TimerExpire` is the expiry of `timeout_timer`, which posts to the
  process if the ping still waits.
- `PingStillWaiting` and `PingDone` are the two outcomes of resuming at
  `PT_WAIT_UNTIL`: wait again, or report the timeout or the reply and clear
  `curr_ping_output_func`.
- `shell_output_6addr` is translated loop for loop (the `f` counter that
  compresses the first zero run, the `%x` digits), and the IPv4-mapped
  branch prints `::FFFF:` and four decimal bytes.
- `cmd_rpl_set_root(args)` checks "0"/"1" and the prefix, then, to become
  root, prints the prefix and runs `rpl_dag_root_set_prefix` and
  `rpl_dag_root_start` in one step, ignoring the start's result; "0" on a
  root leaves the DAG.
- `cmd_tsch_set_coordinator(args)` sets the two TSCH flags, security only
  when `LLSEC802154_ENABLED`.
- `cmd_reboot` is `watchdog_reboot`: every variable held in RAM returns to
  its boot value, while messages in the network stay.
- The environment: `Answer(m)` (a host answers a request), `Lose(m)`,
  `LineDuringPing` (a line typed during a ping, which wakes the protothread
  and is consumed), `JoinDag(p)` (RPL-lite joins a DAG as a non-root node
  and SLAAC adds an address), `DadDone(i)` (DAD finishes for an address)
  and `shell_commands_set_6top_sub_cmd`.

`uiplib_ipaddrconv`, `strtol`, `log.c`, serial-shell, `uip-ds6.c`,
`rpl-dag.c`, `rpl.c` and `tsch.c` are not in the repository. The first two
are the constant maps `AddrText` and `LevelText`. The boot log levels are
the constant `BootLevels`. `NETSTACK_ROUTING`'s root functions are taken
to be those of `rpl-dag-root.c`, as in RPL-lite's driver.

The fairness is weak fairness of `TimerExpire`, `PingStillWaiting` and
`PingDone`: the etimer process delivers the expiry once the timer is due,
and Contiki's scheduler runs a process that has an event pending. Replies,
answers and losses have no fairness: the network may lose everything.

## Bounds

**EVM.**

- A word is 4 limbs of one 8-bit byte. Every carry, borrow and byte copy of
  the four-limb code is kept; only the limb width shrinks.
- `MEMORY_SPACE = 5` is one word plus a byte, so a word store at offset 1 or
  beyond crosses MEM's end.
- `STACK_SPACE` is 2 to 4, so overflow and underflow happen within 3
  instructions.
- `STORAGE_SPACE = 2`.
- `GAS_LIMIT` is 8 to 16, so short programs run out of gas.
- `DEPLOY_LENGTH = 3` is less than `MEMORY_SPACE`, as 3000 < 8089.
- `MESSAGEDATASIZE = 3`, with a one-byte selector.
- `CodecopyBulk = 13` is the length of CODECOPY's long branch.
- Programs:
  - every buffer of up to 4 instructions of a run's set is checked, and the
    last byte of a buffer never runs;
  - the memory run adds every buffer of up to 4 message instructions;
  - the driver adds two constructors in the shape a compiler emits: one
    that deploys `CODESIZE; STOP` and the empty constructor
    `PUSH1 0 PUSH1 0 RETURN`.

**Words.** `MCEvmWord` uses 2-bit limbs and checks EXP for every word.
BYTE's `shift_value` is a `uint32_t` in the code; its width is the constant
`ShiftValueBits`, 6 in the interpreter runs. As in the code (2^32 > 256), it
can hold every shift of a word, and it is narrower than the limb, so both the
cast of the index and the wrap of `248 - i*8` happen.

**Netq.** A pool of 4 blocks and 3 time stamps. That is enough for:

- equal times;
- inserts at the head, middle and tail;
- removal anywhere;
- a full pool.

**RPL.** A non-root node with these settings:

- `DioIntMin = 3` and `DioIntDoubl = 2`, so the interval can double twice;
- redundancy 1;
- 2 DAO retransmissions;
- DAO sequence numbers below 2;
- one consistent DIO per interval.

**Shell.** Three pings (`MaxPings = 3`), enough for a reply of the first to
arrive during the second or third. One reboot. Two global address slots,
so the list can fill (the root's address, then a joined DAG's). Addresses
start tentative, so a start during DAD is reached. One joinable DAG prefix.
The root, TSCH and 6top state and the ping state change independently of
each other, except through reboot. The constraint `PingOrRoot` therefore
explores root, TSCH and 6top commands on a node that has not pinged since
boot, and pings on a node whose RPL, TSCH and 6top state is at its boot
values; reboot, which resets that state, is explored after pings. Five addresses: the loopback (zero run at the
start), one with two zero runs of which the second is longer, one with a
trailing run, one with no zero group and an IPv4-mapped one. Two modules,
and log levels 0, 3, 5 and a word with no digit, so every error path of
`cmd_log` and both the "all" and single-module branches are reached.

## Runs

### Passing runs

Between them, the passing runs fire every action and every disjunct.

- **`interp_stack`** (stack, arithmetic and control opcodes, jumps
  included; about 490k states, 1 min). It checks `StackFrame`: the stack
  below an opcode's operands is untouched, over underflow, overflow and the
  PUSH check that counts immediate bytes.
- **`interp_memory`** (memory, storage, SHA3, RETURN, REVERT, the default
  case and all message opcodes; about 460k states, 1.5 min). It checks:
  - `TypeOK`;
  - `StorageFrame`: `STORAGE[1..]` changes only by an SSTORE of its key.
- **`netq_refines`.**
  - `WellFormed`: the list is acyclic, holds no node twice, and holds only
    allocated blocks.
  - `Implements`: `Netq` refines `NetqQueue`.
- **`rpl_timers`** (about 1.5 min).
  - `TrickleIntervalBounded`: the Trickle interval stays within
    `[Imin, Imin + doublings]`.
  - `DaoRetransmissionEnds`: DAO retransmission ends even if no DAO-ACK
    ever comes.
  - `DisWhileDetached`: a detached node eventually has a DIS timer set.
- **`shell_ping`** (about 270k states, 1.5 min).
  - `OutputFuncOnlyWhileWaiting`: `curr_ping_output_func` is set only while
    a ping waits, so a late or duplicated reply after a ping ended is
    ignored.
  - `PrintedAddressValid`: the "Pinging" address is an RFC 4291 text of
    the address pinged, checked against every text the RFC allows.
  - `RootDagOwnAddress`: a DAG the node is root of has, as its id, a
    preferred address of the node. This holds over set-root and leave
    commands, DAG joins, DAD and reboot.
  - `PingEnds`: every ping ends, whatever the network loses.

### Violation runs

Each violation run checks one property, and the code breaks it. Each one is a
finding in PROJECT.json.

| Run | Property | What TLC shows |
|---|---|---|
| `exp_zero` | `ExpIsPower` | EXP's accumulator starts at 0, so `x^e = 0` for every `e > 0`. |
| `stop_falls_through` | `StopHalts` | The STOP case has no `break` and falls into PUSH. |
| `codecopy_bulk` | `CopiesWithinMemory` | CODECOPY's long branch memcpys with no bound on the destination, over the padding and the stack. |
| `jump_loop` | `Terminates` | JUMPDEST, DUP1, JUMP loops forever: none of them charges gas, so the gas check never stops the loop. |
| `runtime_codesize` | `CodesizeIsCodeLength` | A constructor returns `CODESIZE; STOP`. In the runtime call over the 3 bytes of `deployed_contract`, CODESIZE pushes 11, the constructor's size, because `message.codesize` is set once and `init_machine` does not reset it. |
| `ping_late_reply` | `ReplyAnswersPing` | Ping 1 times out, its reply arrives while ping 2 waits, and `echo_reply_handler`, which checks neither source nor identifier, has ping 2 report it as its own reply. |
| `root_prefix` | `ShellRootAsPrinted` | `rpl-set-root 1` fails while the fd00:: address is tentative. DAD then ends, and `rpl-set-root 1` with another prefix prints that prefix. `rpl_dag_root_set_prefix` ignores it after its first call since boot, and the DAG id is the fd00:: address. |

### Mutants

Every property of a passing run has a mutant in PROJECT.json. A mutant is a
plausible bug, defined just before the definition it replaces, and TLC finds
the property violated under it.

## Modelled behaviour that no run asks about

The actions reproduce these behaviours of the code. The project spends its
runs on the questions above, so these are recorded here rather than as runs;
those hard to reach by testing are also hazards in PROJECT.json:

- MSTORE and MLOAD accept offsets up to `MEMORY_SPACE`, so a store can
  write past MEM.
- `stack_push` lets SP reach STACK_SPACE, so a push on a full stack
  overwrites `STORAGE[0]`. `StorageFrame` checks the other slots.
- POP on an empty stack is unchecked, and the next push writes over the end
  of MEM.
- RETURN's length is bounded by MEMORY_SPACE, not by DEPLOY_LENGTH.
- The PUSH cases store `element_low_upp` in `LOWER(UPPER)` and
  `element_upp_low` in `UPPER(LOWER)`: the two middle limbs are exchanged.
  A PUSH of more than one limb's bytes (PUSH9–32 in the code, PUSH2–4 in
  the models) pushes a different word from the big-endian value of its
  bytes. `PushWord` reproduces it.
- BYTE casts its index to `uint32_t` and computes `248 - i*8` in `uint32_t`:
  the upper bits of the index are dropped, and an index from 2^29 to
  2^29 + 31 selects a real byte instead of giving 0. `ByteW` reproduces both.
- The loop bound `PC < size - 1` never runs the last byte.
- CALLDATALOAD reads past `data[]`.
- CALLDATACOPY copies from the code buffer.
- CODECOPY's copies all land on `MEM[MEMOffset]`.
- The second phase keeps the constructor's MEM, STACK and STORAGE.
- `key > STORAGE_SPACE` in SSTORE lets key STORAGE_SPACE write one word
  past STORAGE, onto `GAS_Charge`.
- After a zero-length deployment the runtime call still decodes
  `DEPLOY_LENGTH` zero bytes of `deployed_contract`.
- `cmd_log` calls `log_get_level(module)` before it checks `module` for
  NULL.

## Not modelled

- **Keccak-256.** It is not in the repository, and out of TLC's reach.
  SHA3 pushes any member of `Digests`. Which bytes SHA3 hashes (its VLA of
  `length` bytes) is therefore not modelled.
- **The C runtime stack.** The VLAs of RETURN and REVERT, and the message
  writes past `data[]` at `data+35` and beyond, land outside `MAIN_VM`.
- **Usage statistics and hardware I/O.** `max_sp` and the other statistics
  are never read. SENSOR, LED and TEMPERATURE are no-ops to the machine.
- **RPL-lite outside `rpl-timers.c`.** rpl-dag.c, rpl-icmp6.c and
  rpl-neighbor.c are not in the repository, so they are the environment.
  - Lollipop wrap-around is not modelled: the macros are absent.
  - Timer durations and random jitter are not modelled; only whether a
    timer is set matters.
  - `rpl_dag_init_root`, `rpl_dag_leave`, the repairs and SLAAC are in
    rpl-dag.c and uip-ds6.c. They are modelled only by their effect on
    `dag` and `addrs`, and the repairs not at all.
- **tinyDTLS outside `netq.c`.** Logging, locking and clock wrappers,
  which are pure I/O.
- **The shell's print-only commands and `shell_output_lladdr`.** They
  read tables outside the repository and only print; in the model they
  change nothing. `ping`, `rpl-set-root` and `tsch-set-coordinator` with
  no argument pass NULL to `uiplib_ipaddrconv` or `strcmp`, which is
  undefined; the model's lines always carry a first argument.
- **GPIO HAL and the cc2538dk button sensor.** `gpio_hal_event_handler`
  walks a handler list kept by `list.c`, which is not in the repository,
  and the button sensor's state is one debounce `timer` over clock ticks.
  Their behaviour is how interrupts of five pins meet that timer. That
  needs a model of its own, with a run of its own, and none is written yet.
- **The rest of Contiki-NG.** Platform drivers and the CoAP test programs.
  They are operating-system services and I/O.
