# A TLA+ model of the RepVGG accelerator

The repository puts a convolution accelerator (`src/rtl/acc`, Verilog) on the
bus of an open-source RISC-V SoC (`src/rtl/e203`), with a testbench
(`src/acc_tb`), a C driver and a demo program (`src/hbird-sdk`). This directory
models the accelerator clock by clock, its registers together with the driver,
the memory path it shares with the processor, and the software's own model of
the result.

One TLA+ step is one rising clock edge. Every `always` block is a conjunct of a
module's `Clock`; wires are operators. Literals of the source that are sizes
are constants here: 56 is `M`, 64 channels `NOCH`, 9 taps `Taps`, 16 words per
tap `Words`, `16'hc400` input words `ImapWords`.

## Inventory

| part | source | state | operations | what must hold |
|---|---|---|---|---|
| job controller | `main_fsm.v` | 4-state FSM, four pulses | start -> weights of channel 0 -> map -> convolve, prefetching the next channel's weights | each load is needed, never overlaps another, every job ends |
| MAC array sequencer | `mac_array_fsm.v` | 12-state FSM, 8 counters, 6 valid bits | walk the map once per (output channel, input group), tag what leaves | zone = pixel, tag = pixel, padding, read pointer |
| systolic arrays | `systolic_array.v`, `mac_array_core.v`, adder trees | line buffers, product registers | 3x3 and 1x1 products, identity | taps meet their neighbours |
| weight loading | `mac_array_wlu.v`, `basic_pe.v` | bank select, weight buffers | fill one bank while the other is read | the array reads the weights of its channel |
| partial sums | `psum_acc.v` | 4k buffer, stage | first visit writes, second adds and forwards | both visits are of one pixel |
| map merger | `map_merger.v` | stage | quantise, pack | handshake, arithmetic |
| output unit | `omap_biu.v` | word counter, request, stage | write words in order | word k goes to address k |
| weight unit | `weight_biu.v` | FSM, issue and answer counters | read 160 words per channel | right place, right buffer |
| map unit | `imap_biu.v` | FSM, issue and answer counters | read the map, pair words | order, place in the buffer |
| map buffer | `imap_buf.v` | seven SRAMs, read addresses | one pair written, four pairs read at once | a pixel read is that pixel |
| arbiter | `icb_master.v` | owner of the bus | grant, route answers | answers reach who asked |
| registers | `icb_slave.v` | 9 registers, handshake | driver's loads and stores | a start is one job, a DONE is one job's |
| driver | `hbirdv2_acc_cfg.c`, `acc/main.c` | position in the program | configure, start, poll, clear | sees every job |
| memory path | `e203_subsys_main.v` 685-790, `sirv_icb1to8_bus.v`, `sirv_gnrl_icbs.v`, SRAM controller | four queues, one stage, the SRAM | shared by processor and accelerator | in-order answers to who asked, no refusal ignored |
| result check | `acc/main.c` 25-130 | loop counters, kernels | convolve one channel in software | the same window and bytes as the accelerator |

Parts talk by valid/ready handshakes (array -> psum_acc -> map_merger ->
omap_biu -> arbiter), by request/grant (units -> arbiter), by one-clock pulses
nobody acknowledges (`weight_start`, `imap_start`, `conv_start` and the done
signals), and by live wires (`out_ch_cnt` to the job controller, `in_ch_cnt`
to the output unit, the parameter registers to the units).

The behaviours that are hard: the sequencer counts pixels that enter while the
tags count pixels that leave, with stalls in between; weight prefetch overlaps
computation and output, all on one bus; nothing is reset between jobs; the
answers of the memory come when they come. The testbench runs one job, with a
memory that answers in the next clock and data that is all ones; both it and
the demo would not notice words in the wrong place. `PROJECT.json` lists the
hazards with the lines where they bite.

## Modules

* `MacArrayFsm` - the sequencer. `Tick` is `Clock` with surroundings that pulse
  `conv_start` and refuse pixels of the second input group at will.
* `MacArrayFsmProofs` - theorems about it.
* `PipeStage`, `PsumAcc`, `OmapBiu` - the three kinds of parts the output path
  is made of. A partial sum is the number of the pixel it belongs to, so that a
  word records which two sums met.
* `OutputPath` - these in a row as `repvgg_acc_top.v` wires them.
  `OrderedChannel` is what they promise, and `ImplementsChannel` is the
  refinement: `q` is the words of the four places, oldest first, `stored` the
  address counter, `sent` the second visits so far. `OutputPathProofs` holds the
  theorems.
* `WeightBiu`, `ImapBiu`, `IcbMaster`, `MainFsm`, `MacArrayWlu` - one per source
  file. A weight address is kernel and byte offset and records the channel it
  was computed for; a weight is the channel it was fetched for.
* `MacArrayCore` - `MacArrayFsm` with what it drives: map read register, line
  buffers, multipliers, adder trees, identity path. A value is the set of
  pixels, weight bank and group it was computed from. `MacArrayCoreProofs` holds
  the theorems.
* `RepvggAcc` - all but the array's data path wired together, plus `Memory`
  (prompt, or in-order with at most `MaxOutstanding` commands of which the oldest
  waits at most `MaxDelay` clocks; with `MayRefuse` the command line may be low)
  and `Software` (starts a job after DONE; unless `RestartsEarly` only when the
  load that follows the last channel is over). `RepvggAccProofs` holds the theorems.
* `IcbSlave` - the register file; `AccDriver` extends it with the driver, the
  bus between them and an accelerator reduced to idle, busy, done;
  `AccDriverProofs` holds the theorems about it.
* `MemoryPath` - what lies behind `Memory`: arbiter, buffer, splitter, SRAM
  controller, with the processor as the other user. `SharedMemory` is the
  abstract specification: one memory, one queue `due` of answers with the port
  each is for. The refinement computes `mem` as the SRAM after all commands
  already taken, and `due` from the arbiter's FIFO and all that is under way.
  `MemoryPathProofs` holds the theorems.
* `ImapBuf` - the seven SRAMs; `ImapLayout` puts `ImapBiu` before it and reads
  behind it. A word is its number in the maps loaded so far. `ImapLayoutProofs` holds
  the theorems.
* `MapMerger` - the arithmetic behind the array on words of bits; `ResultCheck`
  extends it with `check_result` of the demo. Its loops are actions; a sum is
  the set of its products, and the numbers it stands for are chosen, once for
  the software's and the accelerator's arithmetic. `MCResultCheck` chooses them.
  `ResultCheckProofs` holds the theorems.

Operators next to a definition with a longer name of the same beginning
(`Done`, `DoneOneLate`) are altered forms of it: each is what a plausible slip
in that code would be, and violates the property it is paired with in
`PROJECT.json`.

## Runs

Those that pass:

* `mac_array_fsm` (M 4, NOCH 2; 1264 states). Zones and counters, padding, tags
  against stalls in any clock, read pointer in step, drained at done,
  `ConvolutionEnds`. M = 4 has every zone with one inner pixel row more than
  the minimum; two channels have a first, a last and a change between.
  `HalfUntilChannelEnd`: the half bit of the tag comes from the pixel entering
  (`mac_array_fsm.v:368`) and is wrong for the last pixels of a channel, and
  for no other.
* `mac_array_core` (M 4, NOCH 4; 93 480 states). Convolution after convolution:
  `rst_n` alone resets `imap_cnt` (`mac_array_fsm.v:261`), so a job begins to read
  where the last one stopped, and the run goes on until all 16 addresses have been
  that place. `first` records it, and the properties count pixels from there: they
  hold of every job, and are about the map's own addresses in the first one only
  (`ReadPointerDrift` of `acc_jobs` says how far the later ones are off).
  `LeavingNamesPixel`: taps, line buffers, adder trees, valid bits and identity path
  have the lengths that make each sum the one its tag names. Two things hold only in
  part, and the properties say where: the input group of a pass is right beyond the
  M + 3 pixels read ahead, the identity byte up to the last three pixels of a
  channel. `LineBuffersInStep` holds through every stall, for the cells filled in
  this job; what leaves is only claimed for an array not refused in this job,
  because the product registers have no enable (`basic_pe.v:79`) and a refused pixel
  is multiplied away. `NeverStalled` of `acc_jobs` is the other half of that
  argument.
* `output_path` (4 pixels, NOCH 2, `Absorb` 3; 183 states). Adding, addressing and
  the refinement. `Absorb` is the number of words under way up to which the bus may
  still be withheld: with 4 instead of 3 `AddressNamesPixel` and `ImplementsChannel`
  fail (`SamePixelAdded` does not), because `psum_acc_vld_out` is not held and the
  word behind a full stage is overwritten. Three is what the path really absorbs.
* `acc_jobs` (M 5, NOCH 4, two jobs, both memories, `MaxDelay` 2, `MaxOutstanding`
  3; 35 795 states). Routing of answers, loads that do not overlap, output words at
  their addresses, at most three words outstanding at DONE, the end of both jobs;
  and, as far as it goes, what the second job finds: `ReadPointerDrift` says exactly
  how far the read pointer is off in which job, `WeightsMatchChannel` which bank
  holds the weights of which job (with the prompt memory): the one the array reads
  in the first job, the other in the second. NOCH is even as in the source, for that
  decides whether the banks are swapped. The sizes keep the source's proportion that
  a channel's weights arrive within one pass over the map (160 words in 3136
  clocks); with `MaxDelay` 4 they do not, the array stalls, and `NeverStalled`
  fails.
* `acc_driver` (3 jobs, 2 parameters, answers kept waiting at will; 121 states).
  Parameters stand while a job runs, no stale DONE, one start per store, an
  answer is true or 0, and the driver is told of every job. Two of the seven
  parameters are enough to have a first and a last store; they do not interact.
* `memory_path` (one word of SRAM, one value written by either side, the source's
  queue sizes 8 and 2; 107 403 states). Each side writes a value of its own, so
  one word tells whose write a read saw, and order of execution shows.
  `SharedSpec` is the refinement; `OutstandingBound` shows that the FIFOs of eight
  never fill, so that the path refuses only when the two-place buffer is full;
  `RefusesOnlyWhenDisturbed` that this takes a processor that keeps an answer
  waiting or uses another branch; `AnswersCome` and `CpuTaken` that neither side is
  left waiting.
* `imap_layout` (5 pixels, SRAMs of 6 cells, two loads; 108 495 states). Blocks
  cross the SRAMs' ends as they do with 3136 and 4096: 8 blocks in 7 SRAMs, and
  the four blocks of a read always in four different ones. The second load shows
  that no pair of the first survives.
* `result_check` (operands of 3 bits, 4 x 4 map, 8 channels; 39 177 states). The
  sums tried are the extreme ones, zero, -1 and both sides of every boundary of the
  fields; widths scale as 8, 32, 24, 17 and 14 do: no sum reaches the bit above its
  field (`SumAssumption`).

Those that find a violation, each a disagreement between the code and the place
quoted in `PROJECT.json`:

* `acc_weight_address` - channel k's weights are read at byte 144 k, they are
  stored at word 144 k.
* `acc_jobs_alike` - neither read pointer nor bank select is reset: the second job
  starts M + 3 pixels late and, the number of loads per job being odd, with the
  banks swapped.
* `core_group` - the first M + 3 pixels of a pass are those of the other group.
* `imap_channels` - the two words of a cell reach the arrays swapped, the weights
  do not.

All four are hidden by data that is the same in every channel and pixel, which is
what both the testbench and the demo use, and by running one job.

DONE is not the end of the writes: it follows the last pixel into `psum_acc`,
and up to three words are then still to be written. `DoneNearlyDrained` states
the bound that does hold.

More can be seen by changing a constant of `AccJobs.cfg` and checking the property
named alone:

* `WeightsMatchChannel` without its `prompt /\`: the ping-pong exchange
  (`mac_array_wlu.v:72`) toggles once per clock while the last weight is awaited,
  and is right only if it is awaited for an odd number of clocks.
* `RestartsEarly = TRUE`: a job started while the needless load after the last
  channel (`main_fsm.v:125`) is under way may never end (`NoLoadOverrun`, `JobsEnd`).
* `MayRefuse = TRUE`: the accelerator never looks at `acc_icb_cmd_ready`
  (`icb_master.v:138`); a refused command is lost and the job waits for its
  answer for ever (`JobsEnd`). In the SoC that takes a processor that disturbs
  the path, as `memory_path` shows.

None of the three is in a run: `acc_jobs` has both constants FALSE (the demo and the
testbench run one job, and the testbench's memory never refuses), so that `JobsEnd` and
`NoLoadOverrun` say nothing of them there. The theorems
that hold for either value are named below.

The software's border test (`main.c:78`) ends one column early: a reference result
it computes is wrong in the last two columns. `WindowUntilLastColumns` claims the
others.

## Fairness

* `MacArrayFsm`: an unstalled edge recurs. Once the output unit owns the bus it
  drains a word per clock (`icb_master.v:158`).
* `RepvggAcc`: edges on which the memory takes a command and answers the oldest
  one recur. Nothing else is assumed; `start` is never forced.
* `MemoryPath`: edges on which the processor takes its answers and the slow device
  gives its own recur (the core's load unit waits for nothing else, a device
  answers sooner or later). `CpuTaken` further supposes that the accelerator falls
  silent: its priority (`e203_subsys_main.v:698`) starves the processor otherwise.
* `AccDriver`: edges on which the processor, the bus and the accelerator all go on
  recur (weak), and a poll answered with 1 is not kept waiting every time it is
  made (strong): a waiting answer is lost after one clock, so a bus that makes
  every poll wait would starve the driver.

## Proofs

Each `...Proofs` module extends the module it is about and names its inductive
invariant, `IInv` in most; each was checked on a run before it was proved. What is
assumed of the constants are the ASSUMEs of the modules, plus hypotheses named in
the theorems that need them: `BusInTime` (output path), `RoomForFour` (memory path),
`Steady` and `FastEnough` (what the accelerator does in time).

### The sequencer (`MacArrayFsmProofs`)

For every `M >= 3` and `NOCH >= 1`; the source's 56 and 64 are one instance. `IInv` is
`TypeOK`, `ZoneMatchesPixel` and `Balance`.

* `TypeCorrect` - `TypeOK` is inductive by itself.
* `ZoneCorrect` - `ZoneMatchesPixel` is inductive relative to `TypeOK`. It says
  more than the property needs at first sight: it also pins the counters outside
  the zones and `setup_cnt` outside `array_setup`, without which the step from
  `array_setup` to `conv_s0` could start at any pixel. `ZoneClock` splits on
  whether the pipeline advances and then on the state.
* `PaddingAlwaysCorrect` - padding follows from the two, zone by zone.
* `TagsAlwaysRight`, `DoneAfterLastPixel`, `HalfRightUntilChannelEnd` - from `Balance`.
  `TagNamesPixel` is modulo the pixels of a convolution and loses what it needs at
  the wrap, so `Balance` says it exactly and phase by phase: nothing is in the
  array before the first pixel; while pixels enter, issued = delivered + in flight,
  and the six valid bits are a block at the front (the pipeline fills without
  holes) until the last is set; in `array_cool_down` they are a block at the
  back, delivered + in flight is the total, and the last bit stays set, so each
  unstalled clock delivers one. The step has one lemma for issuing, draining and
  resting; the counters are handled as two-digit numbers (`TwoDigits`, `Digits`).
* `ReadPointerInStep` - an action property: pointer and pixel both count modulo
  the map (`NextOffset`), so their difference stands.

### The array's data path (`MacArrayCoreProofs`)

For every `M >= 3` and `NOCH >= 2` and every job after reset: `LeavingAlwaysNamesPixel`, `GroupAlwaysRight`,
`IdentityRightUntilChannelEnd` and `LineBuffersAlwaysInStep`, all the properties of
`mac_array_core`. `IInv` is the sequencer's (its lemmas are used through
`F == INSTANCE MacArrayFsmProofs`) and

* `Lines` - everything is a function of the number `Reads` of pixels read in this job and
  of the address `first` it began at: the line buffers hold the last of them, newest first
  and one behind in the clock after an enabled one, and the read pointer is
  `first + Reads` modulo the map. It holds through refusals, and claims nothing of cells
  that still hold pixels of the job before.
* `Values` - as long as nothing was refused in this job, what travels beside valid bit i is
  `Product(Number(i))`: the pixel bit i stands for, counted from the entering end
  while pixels enter and from the leaving end while they drain; `Balance` makes
  the two ways agree.

The properties follow by arithmetic: the neighbour in row r, column c of pixel n was
read (1 - r) M + (1 - c) pixels away from it.

### The output path (`OutputPathProofs`)

For every number of pixels and channels and whatever the array offers.

* `SumsOfOnePixel` - however long the bus is withheld: a word may be lost then, but the
  two sums of one that is there belong together. From `SumInv`: ranges, the property and
  what the buffer holds for the pixels already visited once (`FirstVisitsStored`).
* `AddressOfPixel` - under `BusInTime`, which says that the bus is granted before a fourth
  word is under way (`Absorb <= 3`). With four it and the refinement are false, because
  `psum_acc.v:47` offers room one clock too early; that the arbiter does grant in time is
  `ArrayGoesOn` of `RepvggAccProofs`, which uses this module's lemmas with `Absorb` 3.
  `IInv` is `SumInv` and `Consecutive`: the words in the four places, oldest first, carry
  consecutive pixels, starting with the address counter and ending before the next second
  visit. The property is not inductive without it: a word can be checked only at the end
  of the path.
* `PathImplementsChannel` - the refinement, under `BusInTime` too. A clock edge takes at most one word in and
  one out; each place either keeps its word, hands it on or is filled from behind.

### The memory path (`MemoryPathProofs`)

For every depth of the queues, every set of commands and either side's choice:

* `FifosBounded` - at most one or two commands are between splitter and devices, in one
  of four forms (`Nothing`, `InSlow`, `InStage`, `InController`), and the arbiter's
  FIFO is as long as all that is under way.
* `NeverRefusesUndisturbed` - with at least four entries in the FIFOs (`RoomForFour`, the
  source has eight) and as long as the processor takes its answers and asks only
  the SRAM, each place holds at most one command (`Calm`), so there is always room.
* `PathImplementsShared` - the refinement: `mem` is the SRAM after the commands still
  to be executed (`After`), `due` pairs the askers with the answers under way and
  those to come (`Zip`). A clock edge executes at most the first pending command,
  removes at most the first answer and appends at most one command; each of these
  is a step of `SharedMemory` or none.

### The accelerator (`RepvggAccProofs`)

First, for all sizes (`M >= 3`), both memories, any delay, refusals and early restarts:
what the parts promise each other without regard to time.

* `TypeCorrect` - registers and the memory's queue. A full memory answers, and whoever
  may issue a command also listens, so that the queue is never overrun.
* `ArrayRefined` - the sequencer in the accelerator implements `MacArrayFsm!Spec`,
  whose surroundings may do more, so its theorems hold here. What it needs is that
  the output path refuses only pixels of the second group (`Offered`).
* `JobsNeverOverlap` - `OneConvolution`: the array works only in state `conv` of the
  controller, is started once per job, and software that waits for `acc_done` finds
  the controller idle.
* `DriftExact` - `ReadPointerDrift` for any number of jobs. `Drift` follows the pointer
  through a job: M + 3 pixels during `array_setup`, one per pixel after that, a whole
  number of maps in all, none while the array rests.

Second, what rests on one unit being done with the bus before another begins. The
controller acknowledges nothing and the array does not wait, so all of it is a race
between a pass over the map and the memory, and false for a slow one. Two hypotheses:

* `Steady` - the memory refuses no command, and software leaves the last, needless load
  the time to end. The first holds of the SoC's memory path as long as the processor does
  not disturb it (`RefusesOnlyWhenDisturbed`); what happens without either is said above.
* `FastEnough` - `LoadEnd < M * M - 1`. With MO for `MaxOutstanding`, D for `MaxDelay`,
  an answer takes at most D + 1 clocks once it is its turn. `OutEnd` = MO (D + 1) + 10 is
  the clock of a pass by which the words of the channel before are answered: ten stages
  and all the answers owed. `LoadEnd` = `OutEnd` + 160 + MO (D + 1) + 3 is the clock by
  which the next weights are in: a command per clock, and again the answers owed. With
  56 x 56 pixels this is 2 MO (D + 1) + 173 < 3135, that is MO (D + 1) <= 1480. A memory
  path with eight places for commands may so take 185 clocks for each; the testbench's
  takes one.

For all sizes, both memories and any number of jobs then:

* `AnswersArrive` - `AnswersReachAsker`: who gives the bus up has had all its answers.
* `LoadsInTurn` - `NoLoadOverrun`, also for the load ordered in the middle of a convolution.
* `ArrayGoesOn` - `NeverStalled`, the premise of `LeavingNamesPixel` in `MacArrayCore`.
* `MapReadWhenStored` - `MapStoredBeforeRead`.
* `OutputsNamed`, `NearlyDrained` - `OutputNamesPixel` and `DoneNearlyDrained`.
* `WeightsInBank` - `WeightsMatchChannel`, for a prompt memory: the bank read holds the
  weights of the channel computed in jobs with an even number of loads before them, as the
  first has; in the others, every second job when `NOCH` is even, they are in the bank that
  is not read. So it is the exact statement of what `acc_jobs_alike` shows an instance of.

None of them is inductive, and each depends on the others: the bus is free for the
weights because the output is answered, that is so because the bus was granted in time,
and this because the weights before were in. `TimeInv` closes the circle:

* `Routed`, `WeightsCounted`, `MapCounted` - commands issued are answered or in the queue,
  which belongs to the owner of the bus.
* `OutputCounted` - second visits of this channel are in the path, in the queue or answered,
  and before the first of them leaves the array the bus is granted.
* `Starts`, `Controller` - a pulse finds its unit at rest; request, start and done follow
  each other as the controller expects.
* `SecondPass`, `Emptying`, `Loading` - the race itself: how many words and answers may still
  be ahead at position p of a pass. `Emptying` and `Loading` say
  p + Wait(owed) <= bound + waited, so each clock that passes is an answer or one of
  the `MaxDelay` clocks that an answer may take.
* `P!IInv`, `AllWritten` - the invariant of the output path, and what is written at the end.

`TimeStep` has one lemma per conjunct; `EdgeFacts` gathers what they share, `Leaving` derives
from `Balance` of the sequencer what leaves the array while a given pixel enters.

`BankInv` adds what `WeightsInBank` needs: `PlaceCounted` (tap and word of the next answer
are the digits of the number of answers), `NoGap` (a prompt memory answers a load without a
gap, so that the exchange, made in every clock that awaits the last word, is made once),
`ChannelKept` (the channel is not changed under a load), `Exchanged` (the bank filled is the
parity of the loads ended, `NOCH + 1` per job) and `BanksFilled`. Loads order and end while
the array works, so `LoadsAdd` and `CurrentFrom` count them first, without the banks.

`TimeInv` and `BankInv` were checked with TLC before they were proved (M 6, NOCH 4,
`MaxOutstanding` 2, `MaxDelay` 1 meets `FastEnough`; 21 311 states). `acc_jobs`, at M 5 with
three commands of up to three clocks, does not: `FastEnough` counts every answer at its
latest, and the run shows that the properties reach further.

### Registers and driver (`AccDriverProofs`)

For every non-empty set of parameters that does not hold
"START" or "DONE", and every positive number of jobs (`ParamsAssumption`,
`DriverAssumption`), whatever the bus delays and however long a job takes:
`DriverTypes`, `DriverParameters`, `DriverDone`, `DriverOneStart` and
`DriverAnswers`, one for each invariant of the run `acc_driver`. None of the
properties is inductive alone; they follow together from `IInv`, `TypeOK` and

* `Handshake` - ready is up only for a command, and rsp_valid exactly while the
  driver waits. Without it a store could take effect twice.
* `Stored` - the parameters no longer in `todo` hold this job's number, and so does
  the one whose store still waits for its answer.
* `OneJob` - a job is in one place only: the start pulse, `acc`, or `DONE`.
  Outside the wait for it all three are empty.
* `Answers` - only a poll is answered with anything but 0, and then `DONE` is set;
  this carries the truth of the register over the clock in which the answer waits.

`Accesses` and `Registers` reduce the slave's clock edge to what the driver's one
access does to each register, `Answered` the driver's program; the step has one
lemma per part (`HandshakeKept`, `StoredKept`, `OneJobKept`, `AnswersKept`,
`TypeKept`), split on whether an answer is taken in this clock.

### The map buffer (`ImapLayoutProofs`)

For every number of words per block and every depth of the SRAMs with which seven of them
hold the eight blocks of a map and no SRAM holds two blocks whole (`BufAssumption`):

* `ReadsYieldPixel` - `PairsOfPixel`: the four pairs a read returns are those of the
  pixel and group read, oldest map forgotten. `LayoutInv` adds what it needs:
  `Counting` (a load has as many words behind it as its counters say) and `Storing`
  (the pairs written so far in this load lie in their cells). That no cell is written
  twice is `PlaceOwn`: block and place in it are quotient and remainder of a place in the
  buffer, SRAM and cell are quotient and remainder again, with another divisor.
* `CommandsCounted`, `MapComplete` - what `LayoutInv` says of the counters, and that a
  finished load has left every pair of the map in the buffer.

`FourInOrder` is about the selection behind the SRAMs (`imap_buf.v` hands the outputs of
the enabled SRAMs on in ascending order): four blocks start in four different SRAMs, and
the order of the SRAMs is that of the blocks.

### The result check (`ResultCheckProofs`)

For every size of map and every number of channels, every width of byte and of sums that
`SumAssumption` admits:

* `SameBytes`, `BytesExact` - `BytesAgree` and `BytesHoldSums`: the software's shifts and
  masks give, as the `int8_t` they are stored in, the bytes the accelerator's part selects
  give, read as signed numbers, and both are the quantised sum while it fits. The comparison
  in the comment at `main.c:122` takes the accelerator's byte unsigned and so would find a
  difference for negative ones. The widths come in through powers of two. The provers know no
  rules for ^, so `PowerAssumption` of `MapMerger` names the three facts used (a power
  is positive, a smaller one divides a larger one, 4^(B-1) is a square); TLC evaluates it.
* `SameWindow` - `WindowUntilLastColumns`, from `WindowInv`: the loop counters are in
  bounds, the kernels read so far are those in memory, and the sums gathered so far are
  those of the taps passed. Only the kernel of output channel 0 is ever used, as the demo
  checks that channel alone.

### What is only model-checked

* Liveness under fairness (`ConvolutionEnds`, `JobsEnd`, `AnswersCome`, `CpuTaken`, and
  that the driver is told of every job): out of the prover's reach, as is ENABLED.
* The properties of `RepvggAcc` that depend on time, at sizes between the bound of
  `FastEnough` and those at which they become false, as in `acc_jobs`.

## Not modelled

* Sums of products as numbers: `MacArrayCore` and `ResultCheck` say which products
  a sum is made of, `MapMerger` what becomes of the numbers; the adders in
  between (`adder_tree_3x3.v`, `adder_tree_ich.v`) are only their pipeline depth.
* The composition of `RepvggAcc` with `MemoryPath` and of `MacArrayCore` with
  `RepvggAcc`: the state spaces multiply. They meet in properties: `SharedMemory`
  is an instance of `Memory`, which it answers in order, `NeverStalled` and
  `MapStoredBeforeRead` are what `MacArrayCore` and `ImapLayout` assume.
* Byte masks (the accelerator writes whole words), and the splitter's flash, ROM
  and debug branches beyond one slow device.
* Parameters MAPSIZE, ICH, OCH: the accelerator stores and ignores them.
* A parameter store during a job, and values of START other than 0 and 1: the
  driver makes neither.
* `gen_imap`, `gen_w3`, `gen_w1` of the demo and the testbench's generator: they
  fill memory with one constant.
* The inside of the processor, of the bus between it and the register file and of the flash,
  ROM and debug module: `Processor`, `BusClock` and `SlowDevice` allow them any delay and
  any order the handshakes do, which is more than they do in fact.
* The e203 core and peripherals, the SDK, its operating systems, libraries and
  benchmarks: vendored, and nothing of this project's own logic is in them.

## Plan

Done: the sequencer, the array's data path, output path, whole accelerator,
registers and driver, memory path, map buffer, result check; theorems for every
safety property of the passing runs and both refinements. What is left:

1. Liveness is only model-checked, and will be until the prover can do it.
2. The bound of `FastEnough` is sufficient, not sharp: it counts the answers owed twice at
   their latest. A sharper one would count the commands really under way.
3. The compositions named above, of the accelerator with the memory path and of the array's
   data path with the accelerator, as theorems that instantiate both.
