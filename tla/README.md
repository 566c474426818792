# lg-npu: a verification project

lg-npu is a small neural-network accelerator in SystemVerilog (`rtl/`) with a
Linux driver and a user-space runtime in C (`sw/`).  A host writes a 16-word
command descriptor into a window of the register file, rings a doorbell, and
the device fetches, decodes, queues, schedules and executes the command on one
of six compute backends; a DMA engine moves tensors between an external memory
and the on-chip buffers.  This directory models that system in TLA+, from the
kernel driver and the command builder down to the registers of the backends,
checks it with TLC on small instances and proves its core facts with TLAPS for
every value of the constants.

One step of every hardware module is one clock edge: every block sees the
outputs the others had before the edge, as `always_ff` does.  A step of software
that touches a register is an edge too, with that bus cycle on it; between two
of them any number of edges may pass.  In the modules about control, data are
names: a descriptor word stands for the command it belongs to, an operand is the
address it was read from, a sum the sequence of its products.  In the modules
about computation (`CommandBuilder`, `TensorDesc`, `Backends` and what they use)
data are integers with their widths.

## Inventory

| Component | State | Operations | Correct when |
|---|---|---|---|
| Register block (`npu_reg_block`) | control bits, pulses, descriptor window, fetch port, DMA registers | one register write per edge | pulses last one cycle; the fetch port answers in the cycle the FSM looks |
| Reset (`npu_reset_ctrl`, `reset_sync`) | synchroniser stages | hard reset, soft reset | nothing of an aborted command survives; the next one is not lost |
| Fetch / decode (`npu_cmd_fetch`, `npu_cmd_decode`) | FSMs, word counter, descriptor registers | doorbell, read, deliver, check, hand over | descriptors are not torn; bad opcodes stop here; drops only under back-pressure |
| Queue (`npu_queue`, `fifo`) | ring, two pointers | push, pop, both, reset | bounded FIFO with exact flags |
| Scheduler / dispatch (`npu_scheduler`, `npu_dispatch`, `npu_core`) | FSM, held command, port selector | take, issue, retire, select | one backend at a time, owner of the ports; in order, exactly once |
| Conv and GEMM backends | pipeline from address generator to writer, loop counters, accumulator | accept, step, drain, done | every result written once, from the right operands, with the right value; done means done |
| Vec, softmax, layer norm, pooling | serial FSMs with counters, sums and dividers | accept, passes over memory, done | results equal the reference; nothing of the last row or command is left; one done pulse |
| Buffers (`npu_buffer_router`, `npu_*_buffer`) | answer registers, deferred bias read | grant, answer | no read or write is lost on a shared port |
| DMA (`npu_dma_*`) | two engines with latched arguments | start, read, write, finish | exactly LEN bytes move; one direction at a time; every call ends |
| Status, interrupt (`npu_status`, `npu_irq_ctrl`) | pending flag | set, clear | idle and the interrupt mean what the host takes them for |
| Runtime (`sw/runtime`) | program counter of the host; a descriptor and a buffer that are reused | submit, poll, irq, reset, dma; build, convert | the waiting protocols are sufficient for the hardware; the device decodes what was meant |
| Driver (`sw/driver`) | `cmd_lock`, `cmd_done`, the handler, probe and remove | submit, dma, reset, enable, irq handler | callers do not disturb each other; 0 means done; every call returns |

Interactions: software and device share the register file (bus cycles) and one
interrupt line; fetch, decode, queue, scheduler and backends hand a command on
by valid/ready pairs; scheduler, completion and interrupt hear of its end by a
one-cycle pulse; DMA, host and backends share the buffers through muxes without
an arbiter; driver threads and the handler share the mutex and the completion.

The hard behaviours are the one-cycle pulses that nobody acknowledges
(doorbell, done, decode error, interrupt clear), the registered port selector
that takes memory away from a backend, a reset that arrives two edges after it
is asked for, pipelines whose metadata travels beside the data, controllers that
carry sums and addresses over several passes, a host that polls a flag while the
state behind it moves, transfers and commands that are given up and go on in the
background, and integers cut to 16 bits.  `PROJECT.json` lists them under
"hazards", each at its line.

## Modules

The shell and its hosts:

| Module | Models | Notes |
|---|---|---|
| `NpuCmdPkg` | `include/pkg/npu_cmd_pkg.sv` | the command set, opcodes, and the view each backend has of a command |
| `RegBlock` | `npu_reg_block.sv` | a bus cycle is a record naming the register written; reads take their data after the edge, as the test bench functions do |
| `ResetCtrl` | `npu_reset_ctrl.sv`, `reset_sync.sv` | `InReset` says when an edge leaves the asynchronously reset registers in reset |
| `CmdFetch`, `CmdDecode` | `npu_cmd_fetch.sv`, `npu_cmd_decode.sv` | one action per FSM arc and one for staying |
| `NpuQueue` | `npu_queue.sv`, `fifo.sv` | also a specification of its own, `QueueSpec`, with any traffic |
| `CommandFifo` | - | abstract bounded FIFO that `NpuQueue` implements |
| `Scheduler` | `npu_scheduler.sv` | |
| `SerialBackend` | `npu_dispatch.sv`, the selector of `npu_core.sv` and the common shape of the controllers | the abstract backend: idle, working, done for one cycle; `Backends` shows that the four serial controllers implement it |
| `IrqCtrl` | `npu_irq_ctrl.sv` | |
| `DmaFrontend` | `npu_dma_frontend.sv`, `_reader`, `_writer`, the host port of the buffer router, `update_ext_mem` of the bench | the external memory grants and answers whenever it likes, the bench's being the fastest case |
| `NpuShell` | `npu_shell.sv`, `npu_status.sv` | composes the above on one clock edge |
| `CmdSubmit` | `sw/runtime/submit.c`, `liblgnpu.c`, the host functions of `tb/integration/npu_tb.h` | the shell with a host that waits for the interrupt, polls, waits as the bench does, or does not wait, and may reset at any time |
| `DmaTransfer` | `sw/driver/npu_dma.c`, `npu_reset.c`, `npu_dma_start`, `npu_dma_poll` | register file, DMA, interrupt and reset with a careful or a careless host; states the promise of a transfer as an abstract copy |
| `Driver` | `sw/driver/*` | the shell with threads in `lgnpu_ioctl`, the interrupt handler, probe and remove |

Computation:

| Module | Models | Notes |
|---|---|---|
| `FixedWidth` | - | integers of `DIM_W` and 2 `DIM_W` bits (16 and 32 in the code) |
| `CommandBuilder` | `command_builder.c`, `lgnpu_cmd.h`; the field slicing of `npu_cmd_decode.sv`; the descriptor structures of the bench | words are integers |
| `TensorDesc` | `tensor_desc.c`, `lgnpu_tensor.h` | the loop nest of the conversion byte by byte; the index `w * C` is an `int` (2 `DIM_W` bits with a sign), and a product beyond it either wraps or does not |
| `ConvAddrGen` | `conv_addr_gen.sv`, `gemm_addr_gen.sv` | an address as a function of its iteration |
| `Runtime` | - | a program that converts tensors and builds commands, next to the address generator |
| `RefOps` | the `ref_*` functions of `npu_tb.h` | used as definitions of what is right |
| `BackendPorts` | read and write ports of `npu_act_buffer.sv`, `npu_weight_buffer.sv`; the serial divider | a read granted now is answered in the next step (`assign gnt = req` for reads) |
| `VecCtrl`, `SoftmaxCtrl`, `LnormCtrl`, `PoolCtrl` | the controllers of these names, `softmax_exp_lut.sv` | one action per state; every register that outlives a state is a field |
| `MacLoop` | `conv_ctrl.sv`, `gemm_ctrl.sv`, `conv_accum.sv`, `ops/postproc`, `ops/activation`, done and busy of `conv_backend.sv` and `gemm_backend.sv` | loops, addresses and arithmetic; one product is one step, the result it completes is written by a later one, possibly after done |
| `Backends` | `npu_core.sv` | all six behind scheduler and dispatcher on the same buffers; the next command comes when the results of the last are written |
| `MacBackend` | the pipelines of `backends/conv` and `backends/gemm`, `skid_buffer`, `pipeline_reg`, `postproc` | stage by stage, with symbolic data |
| `NpuCore` | `npu_core.sv`, `vec_ctrl.sv`, backend ports of `npu_buffer_router.sv` | a pipeline, the vector backend, scheduler and ports, cycle by cycle |

The modules called `*Proofs` hold the theorems and `MC*` the instances for TLC.  The variables keep the names of the registers.  Definitions
called "Mutant" are plausible errors of the definition that follows them; they
are used by no specification, only to confirm that a property notices them.

How the convolution is split: `MacBackend` and `NpuCore` have its timing
(handshakes, metadata, early done) and no arithmetic, `MacLoop` has its
arithmetic (six counters, padded addresses, saturation) and no cycles.  Both
take the same loop order from `conv_ctrl.sv`.  `MacLoop` keeps the order of done
and writes: a result is first where `pipe_empty` does not look (`sums`), then
where it does (`pipe`), then in the buffer; `mac_done` and `mac_busy` are those of
the backends, with `ctrl_finished`, so done may come while results are on their
way, and busy may rise again after it.

What the abstraction leaves out: in `Backends`, contention for the ports (the
other backends have nothing to read or write, which `BackendsProofs` proves for
hosts that leave the results of a command time to be written) and reset (which takes
every register to `Init`); the double bank of the activation buffer; `dtype`,
which only has one value.  In `VecCtrl` the two reads are granted and answered
together, as the buffers do it when nobody else reads; `NpuCore` has the flags
for the case that they are not.

Facts about the driver that the model relies on: `LGNPU_IRQ_STATUS_PENDING` in
`npu_irq.c` is defined nowhere in the repository and is taken to be bit 0, as
`LGNPU_STATUS_PENDING` is; ioctls that only read, and those that fail in
`copy_from_user` or with `-EINVAL`, change nothing and are `Pause`; probe starts
after the power-on reset; `udelay(1)` outlasts a reset of a few cycles; the
command timeout of 5 s is so long that of the path only a backend, or an
external memory, can still be busy when it expires.

## Runs

| Run | Question | Instance |
|---|---|---|
| `submit_free` | what holds whatever the host does? | 5 commands without waiting, one with a bad opcode, 2-entry queue, 2-word descriptors: fetch, decode and queue all overrun and the pointers wrap |
| `submit_wait` | are the ways of waiting sufficient, also with resets at any time? | 4 commands of 4 words, one bad, 2 resets; the host waits by interrupt, by `npu_poll_idle`, or as `npu_tb.h` does |
| `dma` | does a transfer do what it promises, and what holds for a host that does not wait? | careful: 2 calls or buffer writes, 1 or 3 bytes, both directions, addresses at the end of both spaces, a reset in mid-transfer; careless: 3, with timeouts and writes under a running engine |
| `core` | do the pipelines write the right results and share the ports? | conv or GEMM with 1 to 3 elements of 1 to 3 products, padding, a vector command, 4 commands in every order, `Gap = 7` |
| `driver` | do callers, handler and device agree on what is done, and what is left of it when calls are given up? | 2 threads, 2 submissions (one bad), a transfer, a reset; behaviours with a failing probe, with resets, with timeouts and resets, with timeouts, signals and a shared line |
| `runtime` | is what the software prepares what the device reads? | any two calls; 12 geometries per axis in 4-bit dimensions, fitting and not; tensors up to the limits of `int` and of `uint32_t` and past them, all error returns |
| `backends` | do the backends compute what the references compute, the serial divider and root of the layer norm a quotient and a root? | any two of 21 commands, the second after the results of the first, on two memories of 16 bytes with the extremes of INT8, in place and not, padded, strided, saturating |
| `false_idle` | (violated) is idle never raised too early? | |
| `done_early` | (violated) does done come after the last write? | `Gap = 0` |
| `dma_both_ways` | (violated) is one engine busy at a time? | a transfer after one that timed out |
| `dma_unmapped` | (violated) does the documented example end? | local address below the buffers |
| `stale_completion` | (violated) does a submission that returns 0 mean its command is over? | two submissions, the first times out |

What the violated properties show, and how far the passing ones reach:

* The idle flag misses the scheduler: it is up in the cycles between the pop of
  a command and its acceptance.  `submit_wait` shows what still holds for a
  host that polls: the window is free and every command runs once, in order.
  The interrupt does mean the end of the command (`ReportedMeansDone`), and so
  does the wait of the bench, because it lets 2000 clocks pass first.  It needs
  2 `NUM_WORDS` + 4 of them, 36 for a descriptor of 16 words; with fewer
  `RunClocks` the property fails.
* `done` of the convolution and GEMM backends can precede the last write,
  because `pipe_empty` does not look at the stages before postprocessing.  The
  pipeline needs six more cycles.  `Gap` in `NpuCore` is the number of cycles
  between a done and the next command: with 7 or more everything in run `core`
  holds, and is proved; with 6 a command finds results of the one before it
  still under way, with 5 what is written is wrong as well.  A host that waits for each completion
  leaves far more, since fetching a descriptor alone takes 32 cycles; commands
  that were queued up behind each other leave none.  With `Gap = 0` the
  assertion of `npu_core.sv` that one backend is busy at a time fails as well.
  `Backends` has the same early done and gives the next command when the results
  of the last are written, as `DrainedByNextCommand` of `core` justifies for
  `Gap >= 7`.  So `ResultsMatchReference` speaks of the moment when the backend has
  reported done and has nothing left to write: at done itself the last results of
  a convolution or a GEMM may be missing.
* A driver call that gives up leaves its command in the device.  Its completion
  then belongs to the next submission.  `SuccessMeansDoneUnlessGivenUp` says
  that this is the only way (resets, errors and transfers of other threads do
  not matter), `NoUnearnedSuccess` that even then nothing is signalled twice.
  A decode error raises the same interrupt, so a refused command returns 0 too:
  "done" there means retired or refused.
* The same late completion can end a wait while the descriptor of that caller is
  still being fetched.  The lock is free then, and a third caller writes into
  the window: a mixture of two descriptors runs.  `UntornUnlessGivenUp` says that
  this too takes a call that was given up.  Nothing in the code rules it out but
  time: the writes have to overtake a fetch of two clocks per word, which with
  the two-word descriptors of run `driver` they never do.  The attempt to prove
  the unconditional `UntornCommands` for all lengths failed on it, and TLC gives
  the trace when `MCStaleCompletion.cfg` is changed to `NUM_WORDS = 5`,
  `MaxSubmits = 3` and the invariant `UntornCommands`.
* The unlocked reset ioctl may take the completion a submission waits for; that
  call returns by its timeout and in no other way (`EveryCallReturns`).  A reset
  during the poll loop makes `lgnpu_dma_transfer` return 0 for a transfer that
  was aborted, so `TransferMeansMoved` is stated without resets.
* A local address below the weight buffer is never granted.  The runtime's
  `npu_dma_req.loc_addr` is 16 bits wide and the buffers start at 0x10000, so
  `npu_dma_start` cannot name any buffer address at all; the driver's can.
* Transfers of length 0 move one byte (the count is compared after a byte), so
  `Reqs` of the passing runs have lengths of at least 1; 65536 truncates to 0.
* A buffer write of the host during a transfer is acknowledged with the grant of
  the DMA and lost, although `docs/arch/memory_hierarchy.md` says that the path
  is blocked.  The careless host of `dma` does this; what it asked for is not
  promised there, only that nothing else is copied.
* A doorbell rung while a descriptor is being fetched starts nothing, and a
  soft reset lasts two cycles, not the one that `docs/spec/reset_boot_flow.md`
  mentions; the hosts of `submit_wait` are not hurt by either.
* `act_mode` 3 is ReLU in `activation.sv` and no activation in `vec_ctrl.sv` and
  in the references; the commands of `backends` use it for the vector backend
  only.
* `dh[w * C]` in `tensor_desc.c` multiplies two promoted `uint16_t` in `int`.  The
  check of the element count keeps the product of a row's elements below 2^32, not
  below 2^31, so a tensor of one row with (W - 1) * C >= 2^31 is accepted and its
  last columns have an index that overflows; if it wraps, they land before `dst`.
  (With two rows or more the element count excludes it.)  `ConvertedIsNhwc` and
  `WritesOnlyTheTensor` are stated for tensors whose last column has an index that
  fits (`IntSuffices`).  No comment or document promises more.
* A filter larger than the padded input does not fail in the builder: the
  unsigned extent wraps.  `DescriptorDecodes` states what the device then gets,
  `FetchReadsTensor` is about geometries that fit.

### Bounds

`MaxCmds`, `MaxResets`, `MaxOps`, `MaxSubmits`, `MaxDmas`, `MaxCalls` and
`MaxCommands` bound what the host asks for, nothing else is cut off.  Five
commands overrun fetch, decoder and a two-entry queue at the same time; two-word
descriptors still let a window be overwritten between two reads; two transfers
are enough for the second to meet everything the first may leave behind, four
addresses and three bytes for a wrap.  Two threads with two submissions give
every pair of a caller that has given up and one that follows; the transfer and
the reset fall anywhere between them.  With three elements of one product each
the address skid fills up, and with three products per element the address
generator waits for the loader.  Postprocessing never pushes back on the
processing element, in these instances or any other (`StagesNeverStall`): the
ports grant at once, and the loader takes three cycles for a product while the
writer takes two for a result.  So that part of the handshake is modelled but
not exercised.  Two backends are enough for the selector: its properties speak
of pairs.

`DIM_W` is 4 instead of 16, so that dimensions, addresses and padded coordinates
reach the end of their range, and the double-width products theirs.  `ACC_W` is
20 instead of 32: the largest sum of the instances has 18 bits, and a shifted
difference of the layer norm saturates.  `BufMax` is 272, so that a tensor of
1x14x10 elements is accepted and overflows an `int` of 8 bits, and one of 9x15x2
has more elements than an unsigned one can count.  Three results
before `pp_trigger` are one each in address generator, loader and processing
element, three after it one each in postprocessing, address queue and writer.
Two commands in a row show what one
leaves in the registers for another of the same or a different backend.

### Fairness

`CmdSubmit`: the clock runs, a host in the middle of its loop gets to the bus,
a backend finishes (`backends` shows that every one does).  `DmaTransfer`: the
external memory accepts and answers, backends do not write in every cycle, a
host in a call goes on with it.  `NpuCore`, `Backends`: the clock runs, also after
a done, for the results that are still on their way (`Settle`).
`Driver`: a thread in a call and an invoked handler are scheduled, backends
finish, the memory answers, and where the timer of a wait exists it fires.
Nowhere is a reset, a signal, a removal or a new call forced; and the driver's
timeout is not available in the behaviours without "timeout", so that there it
never stands in for an answer that was lost.  An external read granted before a
soft reset is assumed to be answered before the reset is over; the code could
not tell a later answer from one to the next transfer.

## Running it

In this directory, `tlc -config MCNpuCore.cfg MCNpuCore` (likewise for the other
configurations; `PROJECT.json` pairs each with its module) model-checks an
instance, and `tlapm NpuShellProofs.tla` checks the proofs of a module.  The
longest run, `driver`, takes about three minutes.

## Proofs

All theorems hold for every value of the constants that satisfies the named
assumptions.  Those on the device: `DepthAssumption` (a queue of at least one
entry), `NumWordsAssumption` (a descriptor of at least one word),
`StagesAssumption`, `WordAssumption`, `ZeroCmdAssumption`, `CmdAssumption` (the
reset value is a word, and a command is a descriptor), `RouteAssumption` (every
command has a backend), `WidthAssumption` and `WindowAssumption` (the address
spaces are not empty and the buffers lie inside theirs), `ShapeAssumption` (a
command of the pipelines has at least one result of at least one product).
`DimRangeAssumption` and `PowerAssumption` say of powers of two what follows from
`DimWAssumption` and `AccWAssumption`; they are there because the provers know
nothing of powers.  `AccRangeAssumption` says that the accumulator holds a row of
bytes of any length (128 * 2^16 in 32 bits).  Those on the hosts:

* `CmdSubmit`: `BenchAssumption`, for the host of the test bench only.  It lets
  at least 2 `NUM_WORDS` + 4 clocks pass before it looks at the idle flag (2000
  in the code, which needs 36), and writes at least as many words as the reset
  synchroniser has stages (16 and 2) so that a reset is over by the doorbell.
* `DmaTransfer`: `HostAssumption`.  Transfers have at least one byte (a length of
  0 moves one, see above) and, from the buffers, stay inside them; the length
  register is no wider than the address registers (16, 20 and 32 bits).
* `Driver`: `DriverAssumption`.  Faults are of the named kinds, the mark for "no
  owner" is not a thread, the arguments of a transfer are numbers.  The theorem
  about transfers adds `ReqFits`: at least one byte, inside both memories.
* `CommandBuilder`, `TensorDesc`: `ParamsAssumption` and `TensorAssumption`, the
  types of the C structures a caller fills in.
* `Backends`: `CmdTypeAssumption`, the fields of a command and the contents of the
  buffers have their width, and `ExtentAssumption`, convolution, GEMM and layer
  norm have no empty dimension.  The controllers compare a counter of 16 bits with
  the dimension less 1 in 32 bits, which for 0 it never meets; only the output
  height and width of a convolution are cut to 16 bits and count 2^16 rounds.
* `NpuCore`: `Gap >= 7`, as a hypothesis of the theorems that need it.  A host
  that waits for a completion leaves more, since fetching the next descriptor
  takes two cycles per word.

Each module of proofs is about one specification.

* `NpuShellProofs`, `QueueSpec` and `ShellSpec`.  First the ring under any
  traffic and any reset.  The inductive invariant `QueueInv` is the types and
  `Occupancy <= DEPTH`; the types alone would allow an occupancy from which a push
  overwrites the oldest entry.  `FlagsFromPointers` reads occupancies off the
  pointer bits.  From these: `QueueTypes`, `QueueFlags`, and
  `QueueImplementsFifo`, whose step lemma splits on push and pop and compares the
  contents entry by entry.  Then the whole shell with any bus cycle and any
  timing of backends and memories on every edge.  `ShellInv` follows a command:
  `FetchInv` (the read port answers exactly in `S_WAIT`, so words arrive under
  their own index), `DecodeInv` and `RingValid` (what is offered without an
  error and what waits has a valid opcode), `ComputeInv` (`BackendsServe`:
  outside `S_WAIT` all backends are idle, in it exactly the one the held command
  routes to works, on that command, with the ports).  `OneBackendAtATime` is
  inductive only beside the types and the valid opcode, without which a command
  would have no backend.  From it: `ShellOneBackend`, `ShellFetchInStep`,
  `ShellOnlyValid`, `ShellTypes`.  `ShellDrops` adds
  `DropInv`: a decoder that is still offering when the next descriptor is under
  way has been refused, so the queue was full, and loses one entry at most.
  Its last part says what an edge does to a path that holds exactly one command.
  `Stage(p, id)` is where the command
  is p clocks after the doorbell; `StageStep` moves it on by one, until it is
  refused or, when the backend is done, finished.  `QuietStays`, `QuietRings` and
  `ResetQuiets` do the same for an empty path.  `CmdSubmitProofs` and
  `DriverProofs` rest on these lemmas.
* `CmdSubmitProofs`, `CmdSubmit!Spec`.  Its steps are steps of `ShellSpec`
  (`SubmitUsesShell`), so everything above holds under each host.
  `NothingIsLost` (`Conservation`) is inductive with `ShellInv`.  For the waiting
  hosts `SubmitInv` ties the place of the host to the place of its command: path
  quiet while it writes; a stage with the right number of clocks left while the
  bench runs its clocks; after a reset, how far the reset has come.  A reset the
  host has asked for and not yet got (`Doomed`) needs its own case, because the
  host goes on writing meanwhile.  From it: `ReportedIsDone` and
  `PathIsQuiet`; `SubmitTypes` beside them.
* `DmaFrontendProofs` and `DmaTransferProofs`, `DmaTransfer!Spec`.  Types of the
  engines for every width, then `DmaInv`: while a careful host polls, the engine
  holds the arguments of the call advanced by its count, the first `cnt` bytes
  are in place and the rest of both memories is what it was, also where the
  addresses wrap.  The invariant is needed because the promise, a whole copy at
  once, is only met at the end.  From it `TypesHold`, `TransferIsCorrect`,
  `InterruptIsFresh`.  `AnswersFindWaiters` and `CopiesAreRequested` are about
  careless hosts as well, under `CarelessOnlyLoad`: with transfers in both
  directions under way at once the engines do take each other's grants
  (`dma_both_ways`), and the run that checks the two properties has the same
  restriction.
* `DriverProofs`, `Driver!Spec`, for any set of threads and every fault.
  `BaseInv`: a thread is where the mutex is held exactly if it owns it, has a
  command and has written as many words as its place says; the shell has its
  invariant.  From it `DriverTypes` and, since only the owner enables the line
  and reset disables it, `LineBelongsToOwner`.  `NothingUnearned` counts events:
  `EarnedInv` adds to the successes and the completions those on their way, in
  the handler and in the pending flag, unless the flag is being cleared.
  `CalmInv`, for behaviours in which no wait is given up and the line is the
  device's own, says what the owner of the mutex relies on at each place of its
  call: a device at rest while it writes, arms and rings; its own words in the
  window; while it waits, its command lost to a reset, on its way, or over with
  the event in exactly one of flag, handler and completion.  A reset at any edge
  leads back to rest.  From it `SuccessIsDone` and `CommandsAreWhole`.
  `TransferInv` is about transfers, without resets but with everything else, timed
  out polls included.  All callers make the same request, so no lock is needed for
  it: a busy engine has moved the bytes it has counted and stands at the next
  ones, an engine that has stopped has moved them all, the registers hold what the
  callers at "loc", "len" and "ctrl" have written, and whoever polls sees an engine
  about to start, busy, or done.  `LoadEdge` and `StoreEdge` are one edge of either
  engine.  From it `TransfersMoveTheirBytes`.  TLC checked `CalmInv`, `EarnedInv`
  and `TransferInv` first, on the instance of run `driver`, the last also with
  two-byte requests in both directions and three transfers.
* `BackendsProofs`, `Backends!Spec`.  The handshake first, with no assumption but
  `ZeroCmdAssumption` used: commands may have any shape, zero dimensions included.
  One lemma per serial controller says that a clock takes it from work to work,
  from work to done or from done to idle; one for convolution and GEMM says that a
  step keeps a command unreported, reports it (`mac_done`), or, after that, only
  moves results on.  `Reported` is an idle controller with `ctrl_finished` down,
  which is not the absence of busy: busy of these two may be up again while the
  scheduler no longer waits.  `Handshake` (`PortsHaveOneOwner`) says that the
  scheduler waits exactly while the selected backend has not reported, that all
  others have, that results are on their way in the selected one only and never
  when a command is issued; without it a command could find its backend at work or
  two backends could move.  From it `BackendsImplement`: the four serial
  controllers implement the `SerialBackend` the shell is proved with, and a command
  of convolution or GEMM takes the ports from none of them at work
  (`SelectOther`).  About convolution and GEMM as backends of the shell it says
  nothing, and `ShellOneBackend` is not about them.

  Then the registers.  `TypeOK` of `Backends` is not inductive: that the mean fits
  a byte rests on what the divider computes.  `WidthInv` adds, per controller, the
  registers and answers a result is made of, the results on their way and the
  bounds of the loops, and for
  the layer norm four things: a sum of i bytes lies between -128i and 127i; with n
  cycles to go (`DivLeft`) the divider's register holds the n bits of the dividend
  still to come above the quotient of the others, whose remainder is below the
  divisor; with k digits to go (`RootLeft`) the root's register holds the 2k bits
  still to come, and result and remainder are the root of the others; the mean is
  the truncated quotient.  `DivStep` and `RootStep` are one cycle of each, `DivEnd`
  and `RootEnd` what is left after the last.  From it `BytesKeepTheirWidth`,
  `DividerGivesTheMean` and `RootGivesTheDeviation`.  A mean of one byte is also
  why the narrowing of `abs_diff_w` to 16 bits, which `lnorm_ctrl.sv` asserts, loses
  nothing.  TLC checked the three properties first; `WidthInv` names the witnesses of
  `DivLeft` and `RootLeft` over all naturals and was not model-checked.
* `NpuCoreProofs`, `NpuCore!Spec`: the pipeline cycle by cycle, for every shape,
  padding, kind and order of commands.  The promise is kept as a history variable,
  `expected`: what the commands taken so far have to write, in order.
  `ResultsCorrect` says that what was written is a prefix of it, and is far from
  inductive.  `CoreInv` has the positions: each product in the address generator,
  the loader and the processing element is the one the loop nest has next, each
  stage's address, bias and last flag belong to the sum beside it, and two results
  are at least three cycles apart, because the loader needs that long; hence no
  stage ever stalls and the address buffer never overflows.  While a finished
  command drains, `since_done` bounds how far its last result can still be from the
  port.  `HistoryInv` adds up what is owed: what was written, followed by what
  the writer, postprocessing, the accumulator and the loop nest still hold, by the
  vector backend's share and the scheduler's, is `expected`.  From them
  `PipelineIsCorrect`, `CommandsFindItDrained` and `StagesNeverStall`, for
  `Gap >= 7`.  `PortIsFree` needs no `Gap`: the loader asks for weights in one state
  and the bias is asked for in another, so the shared port is never contended.
* `RuntimeProofs`, `Runtime!Spec`: what the software prepares, for every width.
  `BuilderInv` says that the descriptor is exactly what the last call of the
  builder makes of its parameters, whatever was in it before.  The lemmas
  `PackedFields` and `PostFields` take packed words apart again, and
  `PositionsCounted` and `SameExtent` show that the builder's output size and the
  bench's are the number of window positions.  From them `BuilderAgreesWithBench`
  and `DescriptorIsDecoded`.  `TensorInv` says that in the middle of a conversion
  every element the loops have passed is in its place and nothing beyond the tensor
  has changed; since an offset determines its four indices (`Offsets`), later
  stores do not disturb earlier ones.  Both parts are under `IntSuffices`, that the
  index of the last column fits an `int`; then every index of the conversion does
  and none wraps.  From it `ConversionIsNhwc` and
  `ConversionStaysInside`; tensors past that limit are in the model, and nothing
  is claimed of where their bytes go.  `FetchIsCorrect` joins the two: a window that fits
  (`WindowFits`) has coordinates inside 17 signed bits and addresses that do not
  wrap (`NoAddressWrap`), so the address generator meets the element the caller put
  there.

Only model-checked:

* liveness (`EventuallyDrained`, `HostHalts`, `EveryCommandRuns`, `CallsReturn`,
  `AllGetWritten`, `EveryCallReturns`, `EveryCommandFinishes`), which the proof
  system does not cover;
* `ResultsMatchReference` of `Backends`: the references are sums over sets, so
  their agreement with an accumulator needs induction over data.  Of the layer
  norm the division of the mean and the root, which need none, are proved.

## Not modelled

Not modelled: the performance counters, which nothing else reads; the feature
word, a constant; the partial-sum window, a memory only the host reaches; the
technology wrappers, the ASIC flow and the blocks that the shell does not
instantiate; the Python models, which compute what the references of the bench
compute; the annotation macros of `sw/shared/annotations.h`; removal of the
device under a running call.  Dimensions of zero, for which the references have
no value, are not among the commands: their loops never end, except those over
the output height and width of a convolution, which take 65536 rounds, and a
softmax row of length zero hangs (see the hazards).
