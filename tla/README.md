# TIS-100 on an FPGA: a verification project

This directory holds TLA+ models of this repository, the TLC configurations
that check them on small instances, and TLAPS proofs of the properties that
matter most. The repository builds a fabric of TIS-100 nodes (VHDL) next to a
Nios II soft processor that feeds it (C, under uC/OS-II).

1. The system. 2. Modules. 3. Runs. 4. Proofs. 5. Where the code and its
documents differ. 6. Not modelled. 7. Plan.

## 1. The system

| part | source | state it keeps | operations |
| --- | --- | --- | --- |
| controller | `tis_controller.vhd` | phase, `active`, `tis_step_done` | one branch of a clocked process per phase; reset |
| stack node | `tis_stack_node.vhd` | ring buffer, two pointers, `count`, phase, configuration, output register, four lines, `readdata` | bus read and write (buffer, configuration), the conduit handshake in each phase, reset |
| execution node | `tis_execution_node.vhd` | memory of 16 halfwords, phase, `pc`, `acc`, `bak`, the operand with its pending read and write, `last`, four lines | decode, convey, finish; memory write; reset |
| wiring | `tis_system.qsys`, `tis_toplevel.vhd` | none | conduits, `tis_active`, address map, switch and keys |
| host test program | `fpga_monitoring/main.c` | none | loads a program, pushes, waits, pops |
| assembler | `software/tis_microc/tis_asm.c` | label tables | assemble, link, disassemble |
| node helper | `software/tis_microc/tis_node.c` | none | `configure_node`, `node_info` |
| demo application | `software/tis_microc/hello_ucosii.c` | text buffer, program, counter | read, assemble, upload; tasks `input` and `output` |
| uC/OS-II kernel | `tis_microc_bsp/UCOSII/src/os_*.c` | control blocks of tasks, events, queues, flag groups and partitions; ready list and wait lists; nesting counters | scheduling, tick, interrupts, and the services |
| JTAG UART driver | `tis_microc_bsp/drivers/src/altera_avalon_jtag_uart_*.c` | two rings, interrupt enables, `host_inactive`, two semaphores, a flag group | interrupt routine, alarm, read, write |
| Altera HAL | `*_bsp/HAL` | vendored | start-up, file descriptors, alarms |

**How the parts interact.** Everything in hardware has one clock, and every
process runs the same lap of six phases, RUN, LEFT, RIGHT, UP, DOWN, FINISH.
Nobody tells the nodes which phase it is: the controller opens a gate,
`tis_active`, and each process counts for itself while the gate is open. Two
neighbours exchange a value when each has raised its line on the conduit
between them: an edge raises the line, the next edge looks at both. For the
two to meet they have to look at the same phase, so reads and writes are paired
(a node reads UP in the phase in which the node above writes DOWN). The host
reaches every node's registers over a memory bus, at any edge and without
regard to the phases.

In software, `main` reads text from the console (the JTAG UART), assembles it
and stores the words into the execution node one by one. Then it starts two
tasks that push and pop and sleep in between; the kernel runs them and the
driver's interrupt routine, which shares two rings with the tasks.

**What is hard here.**

- The nodes and the controller agree on the phase without a handshake; starting,
  stepping, stopping and resetting must keep them together.
- A stack has five users, the host at its tail and four neighbours at its head,
  and one counter between them; lines are promises about the next edge.
- The two ends of a conduit decide separately whether a transfer took place.
  The stack looks at both lines, the execution node at its neighbour's alone.
- A host access takes an edge away from the conduits of a stack node.
- The instruction set is interpreted three times: by the assembler, by the
  decoder in RUN and by the tests in FINISH; an instruction may take any number
  of laps, and the words may change meanwhile.
- A kernel call is several critical sections. Between two of them an interrupt
  may post, time out, suspend, raise or delete what the first one looked at.
- The tasks and the interrupt routine of the driver each own one pointer of each
  ring and write to the other's interrupt enables; the flags that wake a task
  outlive what they were raised for.

**What makes each part correct.** Controller: lockstep, one cycle per press, no
stopping or going on by itself. Stack: a bounded deque; announced values are
the ones handed over. Execution node: it implements the instruction set; no
transfer is completed on one side only; the program counter stays inside the
program. Fabric: results come out once each and in order. Assembler: each word
means to the node what the text says. Host: the node carries out nothing but
its program. Kernel: the most urgent ready task runs, the lists say who is ready
and who waits, signals and messages are neither lost nor invented, a mutex has
one owner and no inversion, blocks are conserved. Driver: every byte once and in
order, none waits for an interrupt that is off, a write returns.

## 2. Modules

| module | what it is |
| --- | --- |
| `TisTypes` | phases and their pairing with conduits, number ranges and conversions |
| `TisController` | the process of the controller: `Start`, `Go`, `Count`, `Finish`, `CtlReset` |
| `TisClocking` | controller, switch, keys and the phase registers of a set of nodes |
| `TisStackNode` | the process of a stack node; its inputs are parameters of `StackEdge` |
| `TisStack` | a stack node among arbitrary neighbours and an arbitrary host |
| `TisDeque` | abstract: a bounded deque with two kinds of users |
| `TisIsa` | the fields and patterns of the instruction words |
| `TisExecutionNode` | the process of an execution node; its inputs are parameters of `ExecEdge` |
| `TisExecution` | an execution node among arbitrary neighbours |
| `TisCpu` | abstract: one instruction is one step |
| `TisSystem` | input stack, execution node, output stack, controller and host |
| `TisAsm` | the assembler and the disassembler, as operators on lines and words |
| `TisHost` | `main` up to `OSStart`, `configure_node` and `node_info`, beside a node that runs |
| `OsCore` | control blocks, ready list, wait lists, scheduler, interrupts, tick |
| `OsReadyList` | the two-level bitmap that `OsCore` takes for a set |
| `OsSem`, `OsMbox`, `OsQ`, `OsMutex`, `OsFlag` | the services of `os_sem.c`, `os_mbox.c`, ... |
| `OsRing` | the ring of a message queue |
| `OsMulti` | `OSEventPendMulti` |
| `OsTask` | `os_task.c` and `os_time.c` |
| `OsMem` | a memory partition (`os_mem.c`) |
| `OsKernel` | an application of tasks and a handler over all of these |
| `JtagUart` | the driver, its device and the host at the other end of the cable |
| `TisClockingProofs`, `TisStackProofs`, `TisExecutionProofs`, `JtagUartProofs` | theorems about the hardware and the driver |
| `TisSystemProofs` | the fabric: results exact and in order, its parts as specified |
| `TisHostProofs` | from the typed text to what the node makes of the words |
| `OsKernelProofs` | ready list, rings and partitions; control blocks and queues of any application; settled applications: who is ready, who waits, who runs |
| `OsOwedProofs` | settled applications: signals, messages and flags; applications that share mutexes: owners, raising and who runs |
| `MC*` | constants for TLC |

**Hardware.** A *process module* (`TisController`, `TisStackNode`,
`TisExecutionNode`) has the registers of one VHDL process as its variables and
one action per branch. What the process reads from outside (lines and data of
the neighbours, the bus access, `tis_active`) are parameters, so the same module
is used closed with an arbitrary environment (`TisStack`, `TisExecution`), wired
up (`TisSystem`, three instances) and under the host (`TisHost`). As in VHDL,
every unprimed name is the value before the edge.

- The four lines `o_left_active` .. `o_down_active` are one function `o_active`.
  `ReadPort` and `WritePort` give the conduit that a phase settles; the process
  text that is repeated for each phase becomes one action over them. Where the
  text of one phase differs from that of the others, the action says so
  (`Receive` in RIGHT, `Settle` in DOWN).
- The registers of the execution node are 16 halfwords in place of 8 words of
  32 bits; `current_instruction` is the halfword after `node_pc`. A fetch at
  address 15 is outside the array; three address bits make it register 0.
- `Execute` stands for the two copies of the instruction set in FINISH.
- Integers declared `range -999 to 999` without a saturating conversion are
  modelled as the 11 bits they are synthesised to: operands and accumulator are
  in `Word11`, sums are cut by `Wrap11`. In simulation an excess is a run-time
  error.
- The bus readback of the execution node, `irq`, the debug ports and the LEDs
  have no effect on the state and are left out.
- In `tis_system.qsys` the line `tis_active` is exported with the kind "reset";
  the model takes it to be a plain wire. The generated fabric that would show
  whether anything is inserted is not in the repository.

**Assembler and host.** A line is a record of its tokens; what splitting a line
does to the text itself (`strtok` ends the string behind the first token) is
`Chopped`, because the buffer is read again after a failure. The buffer counts
lines where the code counts characters. Each store into the node is an action,
and the clock edges of the node fall between any two of them. The console may
end at any line (`EndOfInput`): then the tasks start over a node without a
program. `NodeInfo` is what `node_info` lists, as many words as the length
register says. `Effect` says what the node takes a word for; where the node does
not use the operand that the word names (`KeepsOperand`), it has none.

**Kernel.** One action is one critical section, OS_ENTER_CRITICAL to
OS_EXIT_CRITICAL with the tests around it. A call that waits is two: the one
that puts the caller in the lists, and the one behind `OS_Sched` that looks at
what it got (`SemReturn`, `MutexReturn`, ...). `pc` says where each task is. A
task takes a step only while it is `OSTCBCur`; the handler may come between any
two actions, runs to its `OSIntExit`, and does not nest, as in the HAL. The same
service called from a handler runs the same action with `OSIntNesting` at 1. The
test of an event's type, outside the critical section in the code, is a guard of
the action. `Workloads` says which services each task and the handler call, with
which arguments; the order is free.

The model asks of the application what the comments of the kernel ask: it takes
one mutex at a time (part of `os_mutex.c` 393, Note 1; an owner does wait for a
semaphore), does not change an owner's priority by hand (l.395, Note 2), deletes
a mutex only with its users' consent (l.250, note 4), and gives back only blocks
that it has. Tasks that wait on one flag group wait for flags set or for
flags cleared, not both, when they consume them. The priority of a task is
changed from below it and not from a handler (see section 5).

**Driver.** A task takes one access to a shared variable per action
(`ReadLook`, `ReadCopy`, `ReadAdvance`, ...). The interrupt routine is split at
its reads of the device, between which only the host goes on. A byte is its
place in the stream modulo `Modulus`, so that order is visible. `VIEW Seen`
identifies states that differ only by a shift of the streams; every property
that is checked under it looks at differences alone.

Definitions named `Faulty...` are seeded faults, each beside the definition it
distorts. Nothing uses them; with one of them in the place of its original a
property has to fail.

## 3. Runs

| run | checks | shows |
| --- | --- | --- |
| `clocking` | `Lockstep`, `OneStepPerPress`, `ComesToRest`, `KeepsRunning`, `PressIsServed` | for all sequences of switch, step key and reset key, phases agree, a press is one cycle, and the gate neither stays open nor stays closed against the switch and the key |
| `stack` | `TypeOK`, `RingOK`, `PromisesKept`, `DequeSpec` | a node that does not read LEFT implements the deque |
| `execution` | `TypeOK`, `OneLine`, `PcInProgram`, `NoPhantomRead`, `LastFollowsAny` | with resets at any moment and a program rewritten as it runs |
| `execution_isa` | `CpuSpec` | laps and handshakes implement the instruction set |
| `system` | `ExactUnlessCollided`, `NeverReordered`, `PartsAsAssumed`, `Drains` | end to end, with a program that copies and one that computes between its transfers |
| `host` | `TypeOK`, `TextBecomesProgram`, `ListingReadsBack`, `RunsTheProgramOnly`, `TornIsHarmless` | from the typed text to what a running node makes of the words and back to what `node_info` lists, with failed attempts |
| `os_kernel` | `TypeOK`, `ReadyIffRunnable`, `ListedIffWaiting`, `NothingLostOrInvented`, `HighestRuns`, `OwnedByOne`, `NoInversion`, `NoMissedFlags`, `BlocksConserved`, `RingIsAQueue` | fifteen applications, each a group of services that meet |
| `os_timed` | `TimedWaitReturns`, `MutexGranted` | waits end, and priority inheritance does what it is for |
| `uart` | `BytesInOrder`, `InterruptsOwed` | two readers or two writers, the interrupt routine, the alarm and the host, access by access |
| `uart_fair` | `WriteReturns` | a reader, a writer, and a host that takes bytes or leaves for good at any time |

Runs that find a disagreement, one property each:

| run | property | what it finds |
| --- | --- | --- |
| `system_collide` | `Exact` | a host access at the edge of a handshake loses or repeats a value (stack l.167) |
| `os_resume` | `ResumedIsReady` | a task suspended in a wait on several events and posted to is not made ready by OSTaskResume (`os_core.c` l.1020, `os_task.c` l.816) |

**What the passing runs avoid, by name.** `stack` has no configuration that
reads LEFT (`MCConfigs`); `execution_isa` has no JRO and no MOV from DOWN to a
port (`MCIsaPrograms`); `ExactUnlessCollided` is stated for behaviours without a
collision (the history variable `collided`), `NeverReordered` for all;
`TextBecomesProgram` is about the lines that are `Plain` and whose operand the
node keeps (`KeepsOperand`: no JRO, no MOV of DOWN, ANY or LAST to a port);
`ListingReadsBack` is about the plain lines without JGZ, and asks for all
instructions only after `configure_node`; `RunsTheProgramOnly`
leaves out an empty program and the fifteen instructions of `configure_node`.
Where tasks wait for several events at once, `os_kernel` does not suspend them or
change their priority, and deletes events only in an application without waits
for single ones (`SeveralEventsLive`). Each of these is in section 5. The
applications of `os_kernel` are fifteen groups of services, not all that can be
put together; section 2 says what is asked of an application.

**Bounds and why they are enough.**

- `Nodes`: two, for one to run ahead of the other; the theorem has no bound.
- `BufferLength`: 3 for the open stack (empty, one, between, full, and pointers
  that wrap), 2 in the fabric; 15 in the hardware. The theorems have no bound.
- Host words 1 and -1000, neighbour value 1000: one ordinary value and one
  each to saturate. Configurations: 0 and bit 0.
- Programs of two instructions, all pairs of a list with every operation and
  every kind of operand. Their numbers are multiples of 512: this set is closed
  under 11-bit sums, so the accumulator has four values and still wraps.
- `Inputs` 3, `Outputs` 2: three values through two stacks of two slots, so that
  both fill up and wrap while the host works at their other ends; a value that
  is not popped is compared where it waits.
- `ASM_SIZE` 16 lines: texts of up to fifteen instructions, the most the node's
  memory takes; sixteen are stopped there. `Scripts` has texts of every opcode
  and kind of operand, of jumps backwards and forwards, and failed attempts
  followed by good ones. Numbers are multiples of 512, and 1000 to be clamped.
- Kernel: three or four tasks and the idle task at priorities 2 to 6, with 0, 1
  and 5 for changes; two events (two waits of one task, or a mutex and a
  semaphore), a queue of two slots, a group of two flags, two messages to tell
  apart, a partition of three blocks. `MaxDelay` 2 lets a timeout and a delay
  run at once and expire together or apart; `MaxCount` 2 is the limit of a
  semaphore. Three tasks are what inversion takes, and what lets a
  post choose between two waiters while a third one acts.
- Driver: rings of three slots of which two can be full, one FIFO slot each
  way, calls for 1 and for 3 bytes, so that a call is longer than ring or FIFO
  and wraps; `Timeout` 1; `Modulus` 4, more than can be on the way at once. In
  `uart_fair` rings of two slots, `Timeout` 2, calls for 2 bytes, no bytes from
  the host (`RxFifoLen` 0), and `Modulus` 1: it is about control, not order. The
  reader there takes TIMEOUT flags away from the writer, which is the race that
  could hang it.

**Fairness.** Hardware: weak fairness of `ClockEdge` alone: the oscillator does
not stop. Nothing is asked of the person at the switch and the keys or of the
host; what a property needs of them (the reset key eventually left up, the bus
eventually quiet) is its premise. Kernel: the timer goes on ticking (`IntEnter`,
`Tick`), a handler ends (`IntExit`), handlers leave time for the kernel's own
code (`Sched`, `Returns`), who has locked the scheduler unlocks it (`Unlock`) and
an owner that runs again and again releases its mutex (`Release`). A task may
keep the processor for ever otherwise: that is the point of `MutexGranted`.
Driver: a task that can go on does so although interrupts come (strong fairness
of its steps and of getting a semaphore), the interrupt routine runs while an
interrupt is asked for, and the alarm comes. Of the host one of two things is
asked: it leaves for good at some moment (`HostLeaves`), and then the alarm has to
end the write, or it goes on taking what has been sent. A third kind, a host that polls
and never takes a byte, blocks a write for as long as it does, which is what the
driver means. Nothing makes the host send or poll.

CHECK_DEADLOCK is on everywhere.

## 4. Proofs

**Lockstep** (`TisClockingProofs!LockstepHolds`), for any set of nodes. Lockstep
with the types is inductive: each branch of the controller moves `node_state`
and `active` so that a node that sees the old `active` ends where the new one
says. The proof goes by the four branches of `Edge`.

**One step per press** (`OneStepPerPressHolds`). The action property needs the
invariant that an armed step with the key down has seen a release:
`tis_step_done` false with the gate closed implies `released`, which the four
branches and the key preserve.

**Promises and types of the stack** (`TisStackProofs!PromisesAreKept`,
`TypesHold`), for any buffer length, any values, all configurations. Types and
promises are inductive together (`StackInv`): the counter stays in its range
only because a raised line implies room or a value, and lines are only raised
with the counter in its range. The consequence is that the three assertions "The
assumption was wrong!" hold in a weaker but sufficient form and that no
subtraction or addition of `count` leaves its type.

**The ring of the stack** (`RingHolds`), under the assumption that no
configuration reads LEFT (`NoReadLeft`, in the statement). `RingOK` needs that
assumption as an invariant of `node_config` and that, without reading LEFT, the
branch of phase RIGHT that resets the head is never taken (`RingInv`).

**The stack is a deque** (`ImplementsDeque`), under the same assumption. With
`RingInv` the slots from the tail to the head, read in order, are the contents of
the deque of `TisDeque`: the two ends, the single value and the full ring are
lemmas on that reading, and each of the four phases of a lap is a push, a pop or
a stutter.

**The execution node** (`TisExecutionProofs!TypesHold`, `OneLineHolds`,
`CounterStaysInProgram`), for any programs, neighbours and resets at any moment.
`OneLine` with the types is inductive: a line goes up in the phase before the one
that settles it and only for the transfer still pending, and every phase leaves
all other lines down. A reset in the middle of a transfer takes the line down
before any neighbour looks again. `PcInProgram` needs, in its statement, that no
patch rewrites address 0: a length rewritten below the counter lets it run on.

**Transfers of the execution node** (`NoReadIsPhantom`, `LastIsThePortOfAny`),
for any programs, patches, neighbours and resets. `LineIsUp`: a node about to
look for an answer to a read on a port has its line there up, so that the neighbour
sees the question at the same edge. Every read of ANY and every write to ANY but over
UP leaves its port in LAST; over UP the source register decides (X:532, section 5),
and the statement says so.

**The execution node is a processor** (`ImplementsProcessor`: `RunSpec => CpuSpec`).
The clock edges of a run, from the decoding of an instruction to the phase that
finishes it, are one step of `TisCpu` and stutters. The invariant `UnderWay` says
what the operand registers hold of an instruction that is begun and not finished.
The statement names its two conditions: no patches while the program runs, and
regular programs (`RegularProgram`), those without JRO, whose operand nothing
loads (section 5), without words that are no instruction, a jump of no condition
among them, and without MOV to a conduit from DOWN, ANY or LAST, which passes the
instruction before its value is written (section 5).

**The fabric** (`TisSystemProofs!ExactHolds`, `OrderHolds`), for stacks of any length
and any number of inputs. The programs are those the run has, named by what they do:
a program reads UP into the accumulator, computes without touching a conduit and
writes the accumulator DOWN, or moves UP to DOWN in one instruction (`Served`), and
its result grows with its input (`Monotone`, asked by `OrderHolds` alone).
`DemosServed` proves that the copying and the doubling program of the run meet both.
`FabricInv` has four parts. `Parts` says of each register what it may hold:
nodes and controller share the phase while the gate is open (`InStep`), the stacks
hold successive inputs and results (`InputInv`, `OutputInv`), a raised line belongs
to the phase that settles it (`LinesInv`), and the registers of the node are those of
an instruction that has come that far (`RegistersInv`, whose `BusyWith(v)` follows a
computation through `Traces`). `Balanced`: until a bus access has met a handshake,
what has been read and what has come out differ by the value in the node.
`Behind`: after collisions the node may have read an input that the stack still
has, and results may be missing, but what has come out stems from no later input
than the current one. `InOrder` follows the results wherever they wait. The
disagreement of section 5 is where `Balanced` is lost: a bus access at the
edge of a handshake, seen by one side alone.

**The parts of the fabric** (`PartsHold`). Every step of the fabric is, for each
of the three nodes, a step that its open specification (`TisStack`,
`TisExecution`) allows, and the initial states agree: what is proved of a stack or an
execution node among arbitrary neighbours holds in the fabric. The gate is the
case to argue: the open specifications let a node go on or stand still only as
lockstep allows, and `InStep` is what shows that the controller's gate does so.

**From the text to the node** (`TisHostProofs`), for any scripts and all texts that
fit the buffer. `HostInv` is what has been read and what it is assembled to
(`TextInv`), the memory as the words stored so far and zeros (`MemoryInv`), types
(`RegisterInv`), the counter in the program although its length is stored while
the node runs (`CounterInv`), and `LapInv`, the interesting one: stores fall
between any two edges of a lap and may replace the instruction under way, but
they only replace zeros, and a zero has left nothing behind that the new word
could take for its own. With it `OnlyTheProgramRuns` and `TornWordsAreHarmless`
follow. `TextIsCarriedOut` and `ListingIsTheText` rest on lemmas that put the word
of each kind of line together and take it apart again, field by field, with the
operators of the assembler on one side and those of the decoder on the other
(`LineIsMeant`). Both leave out what the runs leave out (`Plain`,
`KeepsOperand`). `TypesHold` is `TypeOK`.

**The driver** (`JtagUartProofs`), for any tasks and any lengths of rings and
FIFOs. `UartInv` is `TypeOK` and five parts: a task that is in no call has
clean variables (`IdleIsClean`); what a task has copied fits in the ring
and in what it has still to move (`CopyFits`); the room the interrupt routine
counted is still there when it writes, since only the host goes on (`SpaceFits`);
who is inside has the semaphore (`LocksHeld`); and `InterruptsOwed`. The last
one is the interesting one and is not inductive alone: that a reader will turn
the read interrupt on follows from `some`, and `some` is only kept
because nobody else is inside. `OneTaskInside` is a consequence.

**Bytes stay in order** (`ByteInvHolds`, `BytesStayInOrder`), with any number of
tasks and of interrupts in between. Bytes are numbered as they are accepted, and
`BytesInOrder` reads the FIFOs, the rings and what a task has copied as one run of
successive numbers in each direction. `ByteInv` adds that the pointers and the
piece a task has read off them stay good while it copies: the other side of the
ring only makes more room, or brings more bytes (`ReaderPieceHolds`,
`WriterPieceHolds`).

**Data structures** (`OsKernelProofs`), for any size. The ring with its two
indices and its counter is a queue (`PutAppends`, `PutFrontPrepends`,
`TakenIsFirst`). The two-level bitmap of ready tasks, as manipulated by shifts
and masks, is the set that `OsCore` uses, and the two lookups in `OSUnMapTbl` give
its least member (`InsertedAdds`, `WithoutRemoves`, `HighestPrioIsLeast`).
`BlocksStayChained`: whatever the application writes into the blocks it has, the
others are chained from `OSMemFreeList`, each once, `OSMemNFree` of them: the
invariant is that such a chain exists, and each operation shows the next one.

**Blocks of the kernel** (`OsKernelProofs`), for any application and any numbers of
tasks, events, queues and memory blocks. `BlocksInv` (`EventAndQueueBlocks`): an
event or queue control block is in its free list exactly when nobody has it, a
queue belongs to one event, every ring is one of `OsRing`'s, and the memory blocks
are chained as above. With the lemmas on rings this gives `QueuesKeepTheOrder`.

**Tasks of the kernel** (`OsKernelProofs`), for any *settled* application: it calls
its services from any task and the handler in any order, but creates its tasks
before OSStart, keeps their priorities, uses no mutexes and, if it waits for
several events at once, neither suspends tasks nor deletes semaphores, mailboxes
or queues (`Settled`, part of each statement). 9 of the 15
applications of `os_kernel` are settled. `SettledInv` says of each task in which of
four situations it is - at ease, waiting for one event, for several, for flags - and
what its block, the lists of the events, its flag node and its place in the call
hold there; and of the scheduler who runs when no call is under way
(`Scheduled`). The hard cases are those between two critical sections: a task that
timed out stays in the list of its event until it runs again, and what is
posted meanwhile goes to it. `KernelTypes`, `ReadyTasksAreRunnable`,
`ListedTasksWait`, `HighestOfReadyRuns` and `NoBlockIsLost` follow. The conditions
on waits for several events are defects of the code, not of the proof: see
`ResumedIsReady` in section 3 and OSEventPendMulti in section 5. `SeveralInv` is what the second
one gives: the events of such a wait last as long as the wait, so `MultiReturn`
never takes the branch that leaves the block as it is.

**What is owed** (`OsOwedProofs!NothingIsLost`), for any settled application.
`AccountInv`: what was posted to an event and not yet taken is its stock (counter,
mailbox or queue) and what waking tasks hold in their blocks, message by message.
It needs the lemmas on how often a message is in a sequence, and `SettledInv` for
which task a post goes to.

**Flags** (`OsOwedProofs!NoFlagsAreMissed`), for any settled application in which
all wait for set flags, or all for cleared ones, or nobody consumes (`OneSense`).
`FlagsInv`: a task with a node in a group waits for what the group does not show. The
condition is needed: a wait that consumes flags (`os_flag.c`,
`OSFlagAccept` and `OSFlagPend`) is not followed by a look for tasks that wait for
the opposite of these flags.

**Mutexes** (`OsOwedProofs!MutexHasOneOwner`, `NobodyIsInverted`), for any number of
tasks, mutexes and semaphores and any application that *shares* them (`Sharing`, part
of each statement): its tasks take, wait for and release mutexes and semaphores,
sleep and use memory blocks in any order, and the handler ticks, accepts and posts
semaphores. The conditions are those of `os_mutex.c`: a mutex is free when it is
created and has a priority of its own, higher than those of all who compete for it
(l.140); and who may own one waits for a semaphore without a timeout only (l.393,
Note 1, rules out any wait). The applications `Mutexes` and `MutexesAndSemaphores`
of the run `os_kernel` share; `MutexLives`, which creates and deletes a mutex under way, does
not. `SharingInv` is the invariant. `MemberWell`: where each task is, and that its
priority is its own or that of the mutex it owns, with the entries of `OSTCBPrioTbl`
to match (`RankWell`). `MutexWell`: a free mutex has the entry of its priority
reserved and nobody in its list; an owned one names the owner's own priority in
its count, and all who wait are less urgent than the owner is now. `Queued` has what
keeps raising in order: the owner that is raised moves from one bit to another
in the one list it is in, the ready list or that of the semaphore it waits for, so that no
list keeps the old bit (`RaisedTasksAreListed`). `Running` is the case to
argue: OSMutexPost lowers the caller without telling `OSPrioCur`, so the scheduler may
take the task that runs for one of the mutex's priority. `Spare` says that this priority
is then nobody's until the next switch, which therefore does not mistake
another task for the one that runs (`HighestRunsDespiteRaising`).

**Assumptions.** Those on the constants (`BufferLengthAssumption`,
`StackAssumption`, `ExecutionAssumption`, `UartAssumption`, `MemAssumption`,
`CoreAssumption`, `SemAssumption`, `FlagAssumption`, `WorkloadAssumption`,
`SystemAssumption`, `HostAssumption`), which TLC evaluates, and the conditions that
stand in the statements: `NoReadLeft`, `RegularProgram`, `Served`, `Monotone`,
`Settled`, `OneSense`, `Sharing` and those on patches. Neighbours, host and gate of the open
specifications are assumed by nobody: `PartsHold` shows that they cover the fabric.

**Only model-checked.**

- Liveness: fairness and ENABLED are outside the prover's reach.
- `OwnedByOne` and `NoInversion` where mutexes are created and deleted under way.
- `ReadyIffRunnable`, `ListedIffWaiting` and `HighestRuns` in applications that neither
  are settled nor share, `NothingLostOrInvented` and `BlocksConserved` in those that are
  not settled (waits for several events among deletions, in one application), and
  `NoMissedFlags` where `OneSense` fails.
- Programs that are not regular are not proved to follow `CpuSpec`.

## 5. Where the code and its documents differ

Two disagreements depend on the order of steps and have runs of their own
(`system_collide`, `os_resume`). Most others happen whenever the code is reached.
They were met while modelling; the models follow the code, and the properties of
the passing runs leave them out by name.

Hardware (S: `tis_stack_node.vhd`, X: `tis_execution_node.vhd`):

- A stack that reads LEFT sets its head from the tail (S:195), so the ring is
  off from then on.
- A value pushed in one phase leaves `node_output` as it was (S:164), so that
  with two neighbours the next phase announces and hands over a stale one.
- Phase DOWN announces on RIGHT in place of UP (S:325): a stack never gives
  anything to the node above.
- JRO jumps by the operand of an earlier instruction (X:540): none is fetched.
- MOV DOWN, port does not keep its operand between the read and the write
  (X:422).
- A write is taken to be done when the neighbour's line is up, whether or not
  the node's own has been raised (X:317).
- MOV to ANY that is met on UP looks at the source register before it sets LAST
  (X:532); the exception in `LastFollowsAny`.
- Sums are cut to 11 bits and so leave the range declared for the accumulator
  (X:124, 598).
- A stored -1 reads as 0xFFFF, "empty" (S:123, `hello_ucosii.c` l.76).
- `jtag_debug_module_reset` of the processor resets every slave, nodes included.
- The stack addresses in `fpga_monitoring/main.c` are swapped against
  `tis_system.qsys`.

Assembler and host (A: `tis_asm.c`):

- JNZ is assembled to 0x7110 (A:157), which the node takes for JGZ.
- A negative number in MOV is encoded as sign and magnitude (A:183), and the
  node reads two's complement. In ADD and SUB the sign bit happens to be the bit
  that tells the two apart, and comes out right.
- JRO loses a number; JGZ is listed as "JLZ".
- A label that nobody defines is address 0; one that is defined twice is
  the bitwise "or" of both addresses.
- A line that is only a comment is refused.
- After a failed attempt the first word of the text stays in the buffer and is
  the first line of the next attempt, without the rest of what was typed.
- `node_info` takes the length for the number of instructions: after `main` it leaves
  out the last one, and says "Node unconfigured" of a program of one;
  after an empty program it lists fifteen words.
- An empty program writes the length 0xFFFF.
- `configure_node` stores the count where the node wants the count less one. The
  node then carries out the word behind the program; with fifteen instructions
  that is the length itself. It tests the count after it has stored it.
- `hello_ucosii.c` accepts sixteen instructions, of which the last has no place;
  more run past the label tables (A:199). `ASM_SIZE` keeps the model below.

Kernel:

- OSSemDel with OS_DEL_ALWAYS, and its like, makes the waiters ready with
  OS_ERR_NONE: they believe that they have what they waited for.
- OSEventPendMulti returns from its `default` branch (`os_core.c` l.513-519) without
  clearing status, event pointers and message of its task, when the event that woke
  it is no more (`EventGone`). A later single wait would leave the task in the
  list when it is woken, and OSTaskResume would not make it ready.
- OSMutexPost without a waiter lowers the caller to its own priority and does not
  call `OS_Sched`: a more urgent task waits for the next switch (`lazy`).
- Two tasks that wait for the same flag and consume it are both released by one
  post: the flag is taken when the first of them runs (`os_flag.c` l.695-709),
  and the second finds in its own block that it has it.
- OSTaskChangePrio of a task that has been woken and has not run enters it in the
  wait list again; priorities are changed from below in the model.

Driver (`altera_avalon_jtag_uart_read.c`): READ_RDY stays set when the bytes it
announced have been read without waiting. The next read that finds the ring empty
consumes the stale flag, finds no byte either (l.178) and returns -EIO with the
host present. A write goes round once more on a stale WRITE_RDY, but gives up as
soon as the host has been missed once, where a read waits for the whole timeout.

## 6. Not modelled

- Nios II, timer, interrupt routing, system id: generated or vendored, no source
  of their behaviour here.
- The HAL (`alt_*`): start-up, file descriptors and C library hooks, pure I/O.
  What the driver takes from it (the alarm, the interrupt disable, the
  semaphores) is modelled from how the driver uses it.
- Of the kernel: `os_tmr.c` is compiled out (`OS_TMR_EN` is 0); queries and names
  change nothing or only text; the statistics task only counts;
  OSTimeDlyHMSM is OSTimeDly once or several times; `os_dbg.c` is constants.
- Of the driver: close, ioctl, the loops that poll before `OSStart`, an alarm
  that could not be started.
- Bare-metal copies (`old_software`, `software/tis_nios*`): older or identical
  copies of sources that are modelled.
- Test benches: read as documentation of what the hardware should do.
- `tis_system/synthesis`, `work`, `output_files`, `tmp.vhd`: generated or stale.

Measured in lines the models cover little: of the 43000 lines of implementation
the greater part is headers, HAL code that is vendored twice, and comments
(about half of each kernel source), and the files left are the ones above. The VHDL,
the C of the application and the state-changing services of the kernel and of
the driver, which are where things can go wrong, are covered nearly whole.

## 7. Plan

Done: controller and clocking, stack and deque, execution node and instruction
set, the fabric; assembler, upload, resets inside a transfer; the kernel; the
JTAG UART; the proofs of section 4.

Left, in order:

1. Several execution nodes side by side: a rendezvous of two, ANY against ANY.
2. `alt_tick` and the list of alarms, with the rollover of the tick counter.
3. Proofs: the kernel with mutexes created and deleted under way, then with tasks
   created, deleted and moved by hand.
