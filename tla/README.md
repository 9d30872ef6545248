# Verification of ava_module

ava_module is a header-only C library for motor control and its tooling: lock-free rings, a
log, a memory pool, a scheduler, a network layer, shared-memory channels, and the field-oriented
control (FOC) of a motor. This directory holds its TLA+ models, the TLC runs that check them on
small instances, and TLAPS proofs that hold for every value of the constants.

## How to run

    tlc -config MCSpsc.cfg MCSpsc         # every .cfg names the module before its first "_"
    tlapm Spsc_proof.tla

and the same for `Mpsc_proof`, `Mp_proof`, `Log_proof`, `Shm_proof`, `Net_proof`, `Comm_proof` and
`Sequential_proof`.

`PROJECT.json` lists the runs, what each property would catch (a mistake of the code under which
TLC finds it violated), the source lines every definition models, the findings and the hazards.

## Inventory

| component | state it keeps | operations | who uses it |
|---|---|---|---|
| spsc ring, `ds/spsc.h` | storage, free-running `wp`/`rp`, policy | init, reset, write, read, avail/free | shm, maf, fft |
| mpsc ring, `ds/mpsc.h` | storage, `wp` (offset, wrap counter, lock bit), `rp`, `warp_end`, per producer `flag` and `reserve_pos` | reg, unreg, acquire, push, pop, release, write, read | log |
| log, `log/log.h` | an mpsc ring, `busy` | write, write_bin (any thread), flush, flush_bin (one thread) | net |
| memory pool, `ds/mp.h` | buffer, `off`, ordered free list, spin lock | init, alloc, calloc, free, reset | net |
| list, `ds/list.h` | links | init, add, add_tail, del, splice, replace, move | mp, net |
| red-black tree, `ds/rbtree.h` | links and colours | link, insert_color, erase, first/last/next/prev | sched |
| scheduler, `sched/` | task table, ready tree or round-robin index | init (starts a thread), add_task, exec | applications |
| network, `comm/net.h` | channels and their sockets, io_uring, requests from the pool | init, destroy, add_ch, send, recv (waiting, spinning, asynchronous), poll, broadcast | applications |
| shared memory, `shm/shm.h` | one mapped object per name with a spsc ring | init (open or create), read, write | two processes |
| FOC, `foc/` | state, mode, angle source, calibration progress | init, exec per control period, select, enable/disable, calibrate | interrupt handler |
| HFI observer, `obs/hfi.h` | polarity identification state, counter | init, exec | foc |
| spectrum, `trans/fft.h` | a spsc ring, `neet_exec`, the window being transformed | exec_in (interrupt handler), exec (main loop) | applications |
| moving average, `filter/maf.h` | a spsc ring, running sum | init, exec | filters |
| numerics: pid, iir, pll, rls, smo, lbg, clarke/park, waves | last samples | exec per period | foc |
| utilities, drivers, scripts | none | macros, pure functions, vendored headers | all |

What is hard, and what makes each part correct:

* **spsc**: two threads or processes without a lock. Each decides on an index of the other that may
  be old, the indices wrap at the width of `usz`, copies are split at the end of the storage.
  Correct when it is a byte FIFO: nothing lost, torn, repeated; the policy decides overflow.
* **mpsc**: reservation, compare-and-swap, fill and commit are separate steps of many producers,
  beside a consumer that scans them one by one; regions are contiguous, so the end of the storage
  may be abandoned (`warp_end`). Correct when regions are exclusive, nothing uncommitted is read,
  records stay whole and ordered, and no lock bit is left behind.
* **log**: registration per record; header and payload are two reads; `busy` must be cleared by
  someone. Correct when each accepted record is flushed once, whole, with its own header.
* **mp**: blocks disjoint and inside the buffer, the free list ordered and complete, sizes adding up.
* **rbtree/sched**: the five rules after every operation; no task lost or run early; tasks added from
  another thread while the executor walks the table or tree.
* **net**: one request shared by a receive and its linked timeout, completed in any order; every
  request freed exactly once whatever step fails. Sockets closed once and never lost; timeouts that
  wait as long as they say, through three conversions of units.
* **fft**: a handler passes samples while the main loop copies the ring; a spectrum is of one window.
* **shm**: processes that open, create, size and initialise one object in any order, and may die between.
* **foc**: the calibration, mode and enable/disable state machines over many control periods.

## Modules

| module | models |
|---|---|
| `ByteFifo` | what the spsc ring promises, per policy: an atomic bounded byte queue |
| `Spsc` | `ds/spsc.h`, one action per access of shared memory |
| `SpscFifo` | the mapping from the cells of `Spsc` to `ByteFifo` |
| `Spsc_proof` | the proofs about `Spsc` and its mapping to `ByteFifo` |
| `MpscQueue` | what the mpsc ring promises: reserve, commit, peek, drop |
| `Mpsc` | `ds/mpsc.h`, one action per access of shared memory, a memcpy being one |
| `MpscFifo` | the mapping from the live cells of `Mpsc` to `MpscQueue` |
| `Mpsc_proof` | the proofs about `Mpsc` and its mapping to `MpscQueue` |
| `List` | the functions of `ds/list.h` as operators on the links |
| `Lists` | any sequence of calls of `List`, beside the sequences they stand for, changed by position |
| `Pool` | what the memory pool promises: disjoint ranges of bytes, lent and given back |
| `Mp` | `ds/mp.h` over `List`, one action per iteration of a walk, with the spin lock |
| `Mp_proof` | the proofs about `Mp` and its mapping to `Pool` |
| `Journal` | what the log promises: accepted records printed once, whole, in order |
| `Log` | `log/log.h` over `MpscQueue` |
| `LogJournal` | the mapping from `Log` to `Journal` |
| `Log_proof` | the proofs about `Log` and its mapping to `Journal` |
| `RbTree` | the functions of `ds/rbtree.h` as operators on a record of links and colours |
| `Trees` | any sequence of insertions and removals with `RbTree` |
| `Sched` | `sched/` over `RbTree`: the task table, FCFS and CFS, the loop and `sched_add_task` beside it |
| `Net` | the asynchronous requests of `comm/net.h` on io_uring and on completion ports, over a pool of blocks |
| `Net_proof` | the proofs about `Net` |
| `Channels` | the channels of `comm/net.h`, its synchronous receives and `net_broadcast` |
| `Fft` | the sampling of `trans/fft.h`: an interrupt handler and the main loop |
| `Comm_proof` | the proofs about `Channels` and `Fft` |
| `Shm` | `shm/shm.h`: two processes that open, create, size, map and initialise one object, use its ring, and die |
| `Shm_proof` | the proofs about `Shm` |
| `Foc` | the state machines of `foc/` and the polarity identification of `obs/hfi.h`, over whole angles |
| `Sequential_proof` | the proofs about `Lists` and `Foc` |
| `Numeric` | the portable loops of `util/bitops.h`, `find_max`, `poly_eval` and power-of-two macros of `util/mathdef.h` |
| `MCSpsc`, `MCMpsc`, `MCMp`, `MCLog`, `MCSched` | the instances TLC checks |
| `MCSequential` | `Lists`, `Trees`, `Foc` and `Numeric` side by side: the components one thread uses |
| `MCComm` | `Net`, `Shm`, `Channels` and `Fft` side by side: the components that meet the system, another process or an interrupt |

The modules of `MCSequential` and of `MCComm` share no state. They are checked in one run each; a
behaviour of the run is one of the component its variable `part` names, and the others rest.

### Conventions

A module's actions are named for what the C function does between two accesses of shared memory; a
function is the sequence its program counter (`wpc`, `rpc`, `pc`, `cpc`) takes. A local variable
that is dead is put back to a fixed value, which merges states and hides nothing. Definitions
preceded by the words "a mistake" are not part of the specifications: they are the mutated forms
that `PROJECT.json` names, kept beside the definition they vary.

Memory is sequentially consistent: an access is atomic and seen by all at once. The orders the code
asks for give this for the accesses the properties depend on, with one exception listed as a hazard:
`mpsc_pop` loads `flag` relaxed, so a consumer that sees a producer unregistered is not ordered after
the bytes that producer wrote.

**Spsc.** `WriteCall` to `WriteStore` are `spsc_write_buf` and `spsc_policy`; `ReadCall` to
`ReadStore` are `spsc_read_buf`; `ResetRp`, `ResetWp` are `spsc_reset`. The load of the side's own
index is no step of its own where nobody else writes it; where OVERWRITE moves `rp` under the
reader, the reader's load (`ReadCall`) and its use are apart. Bytes are copied one per step in
ascending order. `IndexMod` stands for 2^64: the code relies only on its being a multiple of the capacity
and at least twice as large. Three things are the caller's duty, not checked by the code, and are in
the guards: `spsc_reset` runs when neither side is in a call (it has no caller in the repository), a
write under OVERWRITE passes at most `cap` bytes, and, in policies listed in `Serialized`, the calls
of the two sides do not overlap.

**Mpsc.** `WriteCall` to `Push` are `mpsc_write` with `mpsc_acquire` and `mpsc_push`; `ReadCall` to
`Release` are `mpsc_read` with `mpsc_pop` and `mpsc_release`; `Reg` and `Unreg` can happen between any
two writes, as the log does per record. The word `wp` is a record of its three fields. `CasFail`
covers the spurious failure of the weak compare-and-swap. Bytes are identified by producer, position
and record length, and a consumed cell holds `Empty` instead of its stale byte, so a misplaced read
cannot go unnoticed. The split copies of `mpsc_write` and `mpsc_read` (lines 229-233, 251-255) are
dead code: `RegionsAreExclusive` and `FetchIsCommitted` show that no region crosses the end.
The comment on line 25 calls `reserve_pos` the end of the region a producer asked for; the code
stores its start, which is what the consumer needs.

**Lists, Mp.** The links are a record of two functions, `next` and `prev`; aliasing (a node that is its
own neighbour) comes out as in the code, because the operators assign in its order. `Lists` keeps beside the links the sequence each list stands for,
and a call changes that by position: a node goes in before or behind a place, comes out, or takes another's place. `Mp` names a block by the
offset of its header and keeps sizes in bytes. `AllocCall` to `Unlock` are `mp_alloc`; `FreeCall`, `Lock`,
`PlaceNext`, `Place`, `Unlock` are `mp_free`, whose insertion loop the split of `mp_alloc` shares. The update
that ends a walk is one step, since the lock keeps the others out; that it does is checked with the walk's steps, which
see the list change if the lock fails (`LockUnchecked`). The variable `free` is auxiliary. A user gives a block back
once, and `mp_reset` is not called while an `mp_free` is under way; `mp_reset` has no caller in the repository. The header
fields forgotten by `Reset` are garbage in the code. Sizes whose rounding overflows `usz` are not modelled.

**Log.** The ring appears as the queue that `Mpsc` implements, so a write is `Acquire` (reservation or `Drop`) and `Push`, a
read is a `Peek` and a `Drop` of `MpscQueue`. Two facts about reads come from `Mpsc`: the payload's read never falls
short (`RestIsReadable`), and the header's may, while any producer is inside a call (`LoopEmpty`). The auxiliary variable `waiting`
holds the records accepted that have not arrived; no guard reads it, and it is what `Journal` has still to print. `TransferDone` is the
application's: the end of an asynchronous `f_flush` clears `busy`, after `log_flush` has set it. A transfer that ends
between lines 190 and 191 of `log.h` would leave `busy` set for good; the model excludes it and the hazards list it.
Levels, formatting, time stamps and the length of `flush_buf` are left out. Time stamps are taken before the
reservation, so records may arrive with decreasing stamps; the code promises nothing else.

**RbTree, Trees.** A tree is one value and an operator returns it as the C function leaves it. The
two mirrored branches of every function are one, for a side and its opposite. Loops are recursive functions, one
round a step. The colour bit packed into the parent's address is a field of its own; a node cleared
with `memset` is a red one without parent, as `Forget` leaves it, which is what `sched_cfs_remove_task` tests for.

**Sched.** `AddFill` to `AddColor` are the stores of `sched_add_task` and, for CFS, of `sched_cfs_insert_task`;
`ExecStart` to `ExecReturn` are one call of `sched_exec`. Time stamps are the ticks left until them. Under the
discipline of the run `sched`, tasks are added from another thread for FCFS only. CFS has its tasks added by the thread of the loop
(between two calls or from a callback), because its tree has no lock: `sched_race` shows what happens otherwise.
A task whose `id` is not below `SCHED_TASK_MAX` is never inserted, and a task without a callback stays first in the
tree once it is; both are named as exceptions in the properties, since the code reports neither. `AddFill` keeps the
number of tasks below `SCHED_TASK_MAX`, which the code does not.

**Net.** One thread calls, one polls. `Call`, `CallNext` (the receive of `net_send_recv`), `Alloc`, `Fill`, `Entries`,
`Submit` are the calls on Linux; `Post`, `Pointer` replace the last two on Windows. `PollTake`, `PollCall`, `PollFree`
are one completion in `net_poll`. A submission entry keeps what its slot last held, as the ring of io_uring does, so an entry
taken without being prepared is submitted as the old one again. A completion carries the call it was submitted for
besides its block: that is the history the properties need, the code sees the block only. `lost` holds the
requests nobody will see again: one allocated before `net_async_recv` finds no entry, and on Windows one that completes before `ov.Pointer` is set.
`crashed` stops the model where the code dereferences NULL.

**Shm.** A process that dies at any step loses its mapping; the object stays (Linux) or goes with its last handle (Windows). A
creator is whoever failed to open, so there may be two (no `O_EXCL`). The ring's calls have two steps, the loads and copies and the
store of the index; what happens between them inside one call is `Spsc`'s subject. A record is one cell.

**Channels.** `net_init`, `net_destroy` and `net_add_ch` are one step each, with every failure of the system on the way. `Recv` begins a synchronous
receive: `YieldReturn` or `YieldGiveUp` ends a blocking one, `Try` and `Look` are the rounds of a spinning one and of `net_broadcast`. `Tick` lets a
nanosecond pass anywhere in a call. `limit` is what the socket was told to wait, after the conversions of `net_sync_recv_yield`. A synchronous
send keeps no state. The entry that a synchronous call writes with `f_flush` is left out.

**Fft.** The ring is the one of `Spsc` under REJECT; since nothing reads or resets it, its fill level and cells are all that matters. The handler
interrupts the main loop between any two cells of the copy. The transform is a function of the window, which stands for the spectrum.

**Foc.** A call of `foc_exec` is one step and is composed of operators named after the C functions; `SetState` and `SetControl` are the
stores of the application between calls. `WARP_TAU` keeps the remainder's sign and the closed end of the code's interval. The rotor and the true
offset are external. Voltages, speeds and the control loops are arithmetic without control state and left out; of the currents there is `ref_i_dq.d`
and the reading of the ADC.

**Numeric.** Words have `Width` bits; every loop is a fold or a recursive function over the state the loop carries. `find_max` is
modelled for every number of lanes, 1 standing for the build without vector registers.

## Runs

| run | instance | what it shows |
|---|---|---|
| `spsc` | bytes {0,1}, capacity 2, indices mod 4, calls of 0 to 3 bytes, all policies, OVERWRITE serialized | type, capacity, exclusive and stable copies, stale views safe, `ImplementsByteFifo` |
| `spsc_overwrite_race` | OVERWRITE with overlapping calls | finding: `AvailWithinCap` fails |
| `mpsc` | 2 producers, capacity 5, records of 2 and 3, one-byte reads | regions exclusive, only committed bytes read, unsigned differences sane, `warp_end` unshared, `RestIsReadable`, `ImplementsQueue` |
| `mpsc_live` | 2 producers, capacity 5, records of 2, reads of 2 | `CallsReturn` |
| `mpsc_refusal` | 1 producer, capacity 6, records of 4 | finding: `RefusesOnlyForSpace` fails |
| `sequential` | lists of 2 heads and 4 nodes; trees of 8 keys; a motor of 2 pole pairs with 12 angles a turn; words of 6 bits, arrays up to 6 | list links stand for the promised sequences both ways; the red-black rules and the walks; offset of a calibration, windows of the identification, references left behind; each function agrees with its meaning |
| `mp` | 2 threads, 16 bytes, header 2, blocks of 4, 6 and 8 | the pool is tiled, list sorted, grants fit, `ImplementsPool`, `CallsReturn` |
| `mp_refusal` | 1 thread, 12 bytes, blocks of 4 and 8 | finding: `NullMeansExhausted` fails |
| `log` | 2 writers, 3 records of 1 and 2 bytes, header 2, both modes | own header, undisturbed transfers, `ImplementsJournal`, `EveryRecordArrives` |
| `sched` | 3 slots, 5 kinds of tasks, both schedulers | `ReadyTasksAreQueued`, `StartsTheEarliest`, `EachTaskGetsItsTurn` |
| `sched_race` | CFS, tasks added by a second thread as in `test/sched_test.c` | finding: `ReadyTasksAreQueued` fails |
| `comm` | 2 blocks, 2 queue entries, 4 calls, both systems; rings of 2 records, 4 process starts, 2 objects; 2 channels, 2 sockets, timeouts 0, 1, 2 and 5; windows of 4 among 12 samples | each request ends once, by its own completion or a leftover one; accepted records survive; open sockets have an owner; no receive gives up early; a spectrum is of consecutive samples; every request is called back |

**Bounds.** In `spsc` calls ask for more than the capacity, copies of 2 bytes are split after the
first, and `wp` and `rp` wrap every second round of the ring; a larger ring adds positions, not
cases, and the proofs cover every size. In `mpsc` the capacity is no multiple of a record, so the end of the
storage is sometimes met exactly and sometimes abandoned, by either record size; two producers
give every pair of a swap and a stale view of it. The counter of `wp` (2^31 values, 2^15 on the MCU)
takes `WrapMod` = 2 values, and `NobodyLapped` keeps a producer that sleeps between its load of `wp`
and its swap from being lapped until the counter repeats. Without the counter (`TargetUncounted`) the
swap of such a producer overwrites unread records. Three producers exceed the time of a run.
In `mp` the pool holds up to four blocks; the three sizes give a block that fits exactly, one that is split,
one taken whole with a remainder too small to keep, and one passed over. In `log` three records are two of one writer
around one of the other, in any order; the ring of 9 can be full. `sequential` treats the list's nodes as
interchangeable, which they are; eight keys give trees of four levels, in which every case of the repair after a removal occurs, red sibling
and inner nephew included; the sizes of `Foc` make the forced angle miss the end of a turn as well as meet it, and its sensor zero lies off the grid of steps.
In `sched` the task kinds have periods of 2, 1 and 0 ticks, a limit of executions, equal priorities, an `id` out of range and no callback; `Late` bounds how long the
loop may sleep. In `comm` two blocks and two queue entries are exhausted by the second receive: the smallest sizes at which a completion can be late for a
reused block while another request runs, and a queue has exactly one entry left. Four process starts give each process a death and a return.
In `Channels` a word has 8 values, a unit 2 of the next smaller one, and a float 5: the timeout of 5 is at the same time one that wraps in ns and one that is rounded,
the others are exact. `MaxWait` is longer than any limit (7 us of 2 ns, which a call need not use up: an answer may end it), and two answers of a broadcast
are as good as many. Twelve samples fill a window of 4 and go on through two copies of it.

**Fairness.** `mpsc_live` assumes that a thread inside a call keeps running (weak fairness of the
consumer and of each producer) and that a compare-and-swap that can succeed again and again
at last does (strong fairness, excluding endless spurious failure). Calls are not assumed to start.
`CallsReturn` is stated for runs in which new writes stop at some time: while they go on, nothing in the
code keeps the consumer from finding a `reserve_pos` locked whenever it looks. `EveryRecordArrives` has the same
premise for the same reason; it assumes that `log_flush` is called again and again (`test/log_test.c:29`) and that transfers
end. `CallsReturn` of `mp` assumes that a thread in a call keeps running and that the compare-and-swap of `SPIN_LOCK`
at last meets a free lock (strong fairness; the lock favours nobody). `EachTaskGetsItsTurn` assumes that a started `sched_add_task` and the
loop go on (weak fairness; `sched_exec_worker` loops without a wait) and that the clock is not held up for good (strong: it rests during a scan). Callbacks return.
`EveryRequestIsCalledBack` assumes that both threads go on (weak), and that an operation that is sure to complete is polled at last (strong): a send, and on
Linux a receive, which has its linked timeout. A receive on Windows may wait for ever, as the code does not use its timeout.

## Findings

* `SPSC_POLICY_OVERWRITE` with a concurrent reader (`spsc_overwrite_race`). The writer computes
  `size - free` from the `rp` it loaded and adds it to whatever `rp` is by then (`spsc.h:110`); if the
  reader stored a newer `rp` in between, `rp` passes `wp` and the ring claims more bytes than its capacity.
  No caller in the repository uses this policy.
* A record may be refused by an empty ring, for good (`mpsc_refusal`). `mpsc_acquire` accepts a record behind
  `wp` or, restarted at 0, strictly before `rp`. With `rp = wp` in the middle of the storage a record above half of the
  capacity fits neither, the comment on line 111 notwithstanding, and the consumer, having nothing to read, never moves `rp`.
  `log_write` drops such records although it checks only `total_size > cap`.

* `mp_alloc` returns NULL with every block given back (`mp_refusal`). Blocks are kept in address order "方便后续合并" (to make
  the later merging easy, `mp.h:148`), but nothing merges them: after small blocks have filled the pool, a
  request that the empty pool could serve finds neither a block nor fresh space.
* A second thread that adds tasks damages the tree of CFS (`sched_race`). A node linked and not yet coloured (`sched.h:162`, `163`) looks
  unlinked to `sched_cfs_remove_task` (`172`) if it is the root: it stays in the tree while its callback runs and is inserted again. `test/sched_test.c`
  adds its tasks after `sched_init` has started the executor.

What the models show besides, where the repository says nothing to the contrary; the properties name each as an exception or a premise:

* **net.** A completion left over from an earlier request (the second one of a receive, or a stale entry) ends the request its block was given to
  next, early (`OwnCompletionOrLeftover` says that this is the worst that happens). A queue with one free entry makes `net_async_recv` dereference NULL; a full one loses
  the request for good; so does a completion on Windows polled before `ov.Pointer` is set.
* **shm.** Two processes that start together both create, and the later initialisation resets a ring in use. A creator that dies between `ftruncate` and the store of `cap`
  leaves a ring that takes nothing, for good; one whose `ftruncate` fails leaves an object of no size, which kills whoever maps it next. If `cap >> 1` is no power of two,
  `spsc_init_buf` gives up and nobody looks at its result.
* **sched.** A CFS task with an `id` out of range is dropped silently; one without a callback blocks all others once it comes first.
* **foc.** A mean of angles is taken as a mean of numbers: with a sensor zero near the wrap of `sensor_theta` the calibrated offset is half a turn away, so
  `Zeros` holds one angle in the middle. With `theta_cali_cnt_max` of 1 and a step that does not divide the turn, the sample is taken one step past the turn's end, and a zero
  that the lag alone keeps off the wrap is read on its other side (20 angles, step 6, lag 1, zero 18): a hold of two periods brings the field back to the end first. A second calibration starts in `FOC_CALI_FINISH`, divides by zero, and adds its ADC offset to the old one; an aborted
  calibration or identification leaves its reference in `ref_i_dq.d`; `foc_ready` leaves the drive as it was.
* **channels.** The spinning receive multiplies the timeout by 1000 in 32 bits: from 2^32 ns (4.29 s) on it gives up early. The blocking one divides floats: on
  Linux 1077 s become 1076 s and 16 999 999 us become 17 999 999 us, on Windows 134 221 ms become 134 220 ms. A timeout of 0 is no wait at all when spinning and an endless one when
  blocking. On Windows the socket of a spinning receive is a blocking one. After a failed synchronous transfer `f_flush` gets its negative result as a size.
  `net_destroy` leaves the list with its closed channels. Nothing bounds the answers that `net_broadcast` stores.
* **fft.** Nothing reads or resets the ring, so it fills once: every spectrum is that of the first `points_num` samples. `SpectrumIsOfOneWindow` owes
  its truth to this. In a loop that also emptied the ring, the copy and the handler would meet.
* **maf.** `maf_exec` reads before it writes, so its window holds one sample at most.

## Proofs

Every proof follows one pattern: an invariant `IInv` that is inductive, `InitIInv`, `NextIInv` with one lemma per action of the
code, and for each property a lemma that `IInv` implies it. TLC has checked the parts of each `IInv` on the instance of its run before.

### Spsc

`Spsc_proof` proves for every capacity that is a power of two, every index width, request size and
set of policies, under `Discipline` (if OVERWRITE is in use, its calls are serialized; the
counterexample above shows that this is needed):

* `TypeCorrect`, `NeverOverfull`: `TypeOK` and `AvailWithinCap` are invariants;
* `GrantsHold`: `CallsAreBacked`, a call has the room or the bytes it was granted until it stores its index;
* `CopiesAreExclusive`: no copy leaves the storage or overwrites an unread byte;
* `FetchesAreStable`: a read fetches committed bytes that no write fills: it is not torn;
* `StaleViews`: an estimate made from an old index of the other side stays safe until it is used;
* `RingIsAFifo`: the ring implements `ByteFifo`.

`AvailWithinCap` is not inductive: a write that passed the policy has to have room when it stores
`wp`, a read has to have its bytes when it stores `rp`. `CallsAreBacked` says so for every program
counter, and `IInv == TypeOK /\ AvailWithinCap /\ CallsAreBacked` is inductive. Its arithmetic rests on two groups of lemmas: `Distance` (adding to
either index, modulo its width, changes `wp - rp` by as much) and `DivMod`, `ModSum`, `ModWrap`, `CellShift`, `CellInjective` (the cells
reached from an advanced index continue those of the old one, and bytes less than `cap` apart never share a
cell), from which `CellsOfCalls` concludes that what is filled, what is unread and what is fetched are
disjoint or nested as they should be. For the refinement the invariant also holds what the copies have moved so far; a store of `wp` is then
the abstract write of all that was copied, a store of `rp` the abstract read, and every other step a stutter.

### Mpsc

`Mpsc_proof` proves for any number of producers, capacity, and sizes of records and reads:

* `RegionsStayExclusive`, `FetchesAreCommitted`, `AvailStaysSane`, `WarpEndStaysPrivate`: four of the invariants of `mpsc`;
* `RingIsAQueue`: the ring implements `MpscQueue`: a swap is a reservation, a push a commit, a copy a peek, a store of `rp` a drop.

What is reserved is one stretch of cells, or two around the abandoned end (`Spans`). `IInv` says that this stretch is well formed (`RingIsSound`: `warp_end` is in
use from the wrap of a producer to the rewind of the consumer, and only the one that wraps holds the lock bit), that the region of a producer lies inside of it
and its mark `reserve_pos` stands at its start (`CallIsSound`, `RegionsApart`), that a reserved cell without an owner is committed (`BytesAreThere`), and what the
consumer has found out while it looks at the producers one by one: none of those it has passed owns a cell in front of `ready`, whatever they
reserve in the meantime (`ScanIsSound`), nor has any a cell of what it copies (`ReadIsSound`). The hard cases are the swap, which has to be shown to succeed on
a current `wp` only, and the wrap, which moves the limit of the scan under it. The bound `NobodyLapped` is a guard of the swap: the proofs hold for a wrap counter that does not repeat
while a producer sleeps. `RingIsAQueue` adds that owners fill their cells with their own bytes and that the consumer's
copy is of the cells it gives back (`QInv`).

* `RestStaysReadable`: `RestIsReadable`, the fact the log's second read rests on.

This one needs to know where records begin and end. `RInv` (theorem `CutsInvariance`) says that the rest of a record lies behind each of its bytes (`RestIsThere`), and that
whatever bounds a read stands between two records: the marks of the producers (`MarksAreCuts`), `wp` as the consumer loaded it and `ready` (`ScanStopsAtCuts`).
Only a swap adds a region and only a fill turns one into bytes, so neither moves such a bound into a record; a read that comes back short,
or empty, can then only do so at a record's end.

### Mp

`Mp_proof` proves for any pool, alignment, request sizes and number of threads:

* `PoolIsTiled`, `FreeListIsSorted`, `EveryGrantFits`: the invariants of `mp`;
* `PoolLendsRanges`: the pool implements `Pool`.

`IInv`: the lock admits one thread (`OneInside`), the list is a ring through the free blocks in the order of their addresses (`LinkedOver`, stated by neighbours,
so that no sequence has to be followed), the blocks lie side by side up to `off` (`Tiled`), each is free, lent or in one thread's hands (`Apart`), and
a walk under way stands at a node of the list that is below the place it looks for (`CallIsSound`). This last is what makes an insertion in the middle keep the order.

### Log

`Log_proof` proves for any queue size, header, payloads and modes, over the queue that `Mpsc` implements:

* `PayloadFollows`: `HeaderBelongsToPayload`; `TransferIsAlone`: `TransferIsUndisturbed`;
* `ArrivesWhole`: every text that reaches the output is the complete payload of the header it came with;
* `LogIsAJournal`: the log implements `Journal`: a reservation is an acceptance, a push completes one of the accepted records, an arrival delivers the first.

`IInv`: a committed byte has the rest of its record around it, as far as the flusher has not yet taken the front of it (`Whole`); the flusher stands at the start of
a record or behind the header it has read (`FlusherIsInStep`); `flush_buf` belongs to the flusher or to the transfer (`OneOwnsTheBuffer`).

For the refinement, `JInv` adds where the records of `waiting` lie: there are places, one behind the other, of which record `j` fills the cells, reserved ones until it is
pushed and its bytes from then on, and together they fill the queue (`Laid`). A record the flusher has taken the front of begins at a place before the queue: after the first read at `-Header`,
after the second one all of it lies there (`Stage`). An incomplete record is the one its writer is filling, hence the only one of its writer (`Filling`). The four lemmas `LaidReserve`,
`LaidCommit`, `LaidDrop` and `LaidArrives` say what a step of the queue does to this layout, whatever the records; no sequence is filtered or summed, so nothing has to be known by induction.

### Shm

`Shm_proof` proves for any capacity, number of starts, objects and records:

* `RecordsAreKept`: `RecordsSurvive`, the exception it names included.

`IInv`: what was accepted is what was taken and then the records between the indices (`Carried`); the indices are at most the capacity apart (`IndicesHold`); a process about
to store an index stores the one behind the record that is in its cell, or that it has copied (`StoresHold`), so that it makes no difference whether it dies before; a ring without
a capacity has no records and no calls in it (`CapIsFirst`), so that the late initialisation of an object nobody has used changes nothing. Lemma `CellsDiffer`: indices less than the
capacity apart have different cells.

### Net, Channels, Fft, Foc

`Net_proof` proves for any number of blocks, calls and queue entries, on both systems:

* `EndOnce`: the callback of a call runs once at most, and no block goes back to the pool while it is there;
* `OwnOrLeftover`: a completion whose block belongs to another call comes from one that has had its callback.

Neither is inductive: a leftover completion may arrive at a block in any state. `IInv` (theorem `NetInvariance`) adds what a completion or a stale
submission entry says of its block (`Sound`: it was given to the entry's call or a later one, and in the pool the block is `processed`), that calls
do not share a block number (`CallsDiffer`), that `processed` is set before the callback and the callback runs before the block is free
(`ProcessedOnce`), and that the request under construction keeps its block even if a leftover ends it (`InHand`). On Windows, where a failed post
frees the block itself, the argument is another one: an operation completes once, so no completion names a block that is free, not yet posted or
already processed (`WindowsOnce`). `NextIInv` has one step per action.

`Comm_proof` proves, for any channels, sockets, timeouts and sizes of a word and of its units:

* `SocketsOwned`: every open socket is the one of a listed channel or of the broadcast under way. Inductive once it is known that the sockets of
  the list are real ones and that a broadcast has another (`Apart`): otherwise closing one of them could take a second channel's away;
* `WaitsLongEnough`: `GivesUpInTime`, exceptions included. The invariant carries what the conversion promised (`LimitsHold`, from the lemma
  `YieldLimitsHold`) up to the moment a call gives up (`InTime`). `KiloDiv`, `Scale` and `US2NSExact` are its arithmetic.

It proves `OneWindow` for windows of any size. The property is not inductive: the copy is sound because the ring is full and in order
(`FilledInOrder`, `FullWhenCopied`), and what was copied so far is known cell by cell (`CopiedInOrder`).

`Sequential_proof` proves about `Foc`, for any number of samples, pole pairs, steps and angles, `WindowsAreEqual` (`PolarityWindowsAreEqual`) and `CurrentEnds`
(`NoCurrentIsLeft`). Both rest on one invariant of the structure, `Good(foc)`: the counter of the identification tells how many samples
were taken in either direction (`Counted`), and a current in the d reference is that of a phase under way (`Justified`). It has one lemma per function that `foc_exec` calls.

`CalibrationIsRight` is about the angles: `OffsetIsRight`, for any pole pairs, step, lag, sampling and sensor zero. The rotor is behind the field by some `d`, at most `Lag` either way; a
step of the field adds to `d` and friction cuts it back to `Lag` (`Clamp`). `OffsetIInv` (theorem `OffsetInvariance`) says what `d` can be after each step of a sweep (`Sweep`): it depends on how
far the sweep has come and on whether the lag was reached, and at the end of the sweep it is `Gap`, the same for every turn. So each sample on the way forward is `Gap` short of the offset and each on the way back
`Gap` beyond it (`TurningCw`, `TurningCcw`), the sums cancel, and the mean over as many of one as of the other is the offset. The theorem has one hypothesis on the configuration, `EndsMeet`: `theta_cali_cnt_max`
is above 1, or a turn is a multiple of the step. Without it the property is false, see "What the models show besides".

### Lists

`Sequential_proof` proves for any heads and nodes:

* `ListsAreFollowed`: `LinksFollowChains`, following the links gives each list's sequence, forwards and backwards.

`ListsIInv` (theorem `ListsInvariance`): no node stands at two places, of one list or of two, and in each ring of a head and its nodes neighbours are linked both ways. Four lemmas on the assignments of `list.h` carry it: `PutSound`
(a node between two neighbours), `CutSound` (neighbours linked past a node), `SpliceSound` (a ring between two neighbours of another one) and `TakeOverSound` (a ring under another head). They are stated for neighbours by position, so that the aliases
of short lists (a head that is both neighbours) need no case of their own, and the sequences are never followed.

### Assumptions

The assumptions of the proofs are the named ASSUMEs of `Spsc`, `Mpsc`, `Mp`, `Log`, `Shm`, `Net`, `Channels`, `Fft` and `Foc` (sizes are natural numbers, an alignment and a
capacity are positive, the capacity of `Spsc` divides the index range, a wrap counter has two values or more, sets of sizes are finite, a value outside of the
blocks, the systems are Linux and Windows), which TLC evaluates in the runs. The theorems about `Spsc`
assume `Discipline` besides, and those about the calibration of `Foc` assume `EndsMeet`.

### Only model-checked

* Liveness: `CallsReturn`, `EveryRecordArrives`, `EachTaskGetsItsTurn`, `EveryRequestIsCalledBack`. It is out of the reach of the proof system.
* `RulesHold`, `WalksInOrder`, `AgreesWithMeaning`: what the recursive functions of `RbTree` and `Numeric` compute needs induction over data, which the installed provers
  cannot do, and so do `ReadyTasksAreQueued` and `StartsTheEarliest` of `Sched`, which works on that tree.

## Not modelled

* The log entries of synchronous transfers, and `f_flush` altogether: it is the application's. What a socket does with bytes.
* The moving average: sequential arithmetic over a ring that `Spsc` models.
* The control loops, observers, transformations, filters and waves: floating-point recurrences without control state; TLC has no reals.
* The branches of `bitops.h` on compiler intrinsics, the arithmetic macros, CRC tables, printing and clocks.
* Weak memory: `mpsc_pop` loads `flag` relaxed, and the models are sequentially consistent.
* A log transfer that ends before `busy` is set: the end of a transfer is the application's, and the repository has no example of one.
* Vendored drivers, the FFTW header, test programs and scripts.

## What could come next

The rotations and the repair of `RbTree` as lemmas on one tree, stated by neighbours as those of `Lists` are: each keeps the order and the count of black nodes along
every path. What remains beyond them is the induction over the path to the root.
