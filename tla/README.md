# Verification of the ARC firmware

TLA+ modules, TLC runs and TLAPS proofs for the EDK2 port to Synopsys ARC in
`src/Platform/ARC`. The code boots an ARC HS processor through the SEC and PEI
phases of UEFI up to the point where the DXE core would be started.

## The system

Paths are relative to `src/Platform/ARC`.

| part | source | state it keeps | operations |
|---|---|---|---|
| SEC entry | `Library/Sec/Arc2/SecEntry.S` | cache control registers, stack pointer | straight line; sleeps if `SecMain` returns |
| SEC phase | `Library/Sec/SecMain.c` | locals: a copy of the volume header, the hand-off | validate the boot volume, find the PEI core's entry point, call it |
| PEI core | `Library/PeiCore/PeiCoreMain.c` | `mPeiCoreCtx`: the service table, the PPI database, two volume handles | fix up the service table, `InitPeims`, `DispatchPeims`, dead loop |
| PEI services | `Library/PeiCore/PeiServices.c` | the PPI database; the descriptors, which it changes in place | install, locate, notify (refused), find volume, file, section, file info |
| DXE IPL | `Library/PeiCore/DxeIpl.c` | `mPs`, one PPI descriptor | install its PPI; as that PPI's entry, find and load the DXE core |
| volume walks | `Library/UtilsLib/UtilsLib.c` | none; locals of loops over flash | `GetFileSection`, `FindSection` and their callers |
| spin lock | `Library/CpuLib/CpuSync.c` | a word shared by processors | initialize, acquire with timeout, try, release |
| serial port | `Library/SerialPortLib/Ns16550.c` | none; the registers of the device | initialize, write, read |
| stubs | `Library/CpuLib/Arc2Cache.c`, `CpuLib.c`, `CpuException.c`, `Arc2SetJump.S` | none | empty |

`SecMain` calls `PeiCoreMain` with the boot volume. `PeiCoreMain` calls the
`DxeIplInit` found through the apriori file; that one calls `PeiInstallPpi`.
Then the core runs the installed PPIs; their entries call services again, in the
middle of the dispatcher's loop. Modules execute in place and are not relocated:
every pointer that was built at link time has to be moved by the address of its
module, which the core does for its own table and, in `FixupPpi`, for the
descriptors of others. Everything is found by walking the firmware volume, whose
sizes come from flash. All log output, and so all progress, passes through the
serial port. The spin lock is a library for code that runs on several
processors.

### What is hard, and what correct means

* **PPI database and dispatcher.** There is one processor but nested calls: an
  entry installs PPIs while the dispatcher iterates. A list may be refused in
  the middle, because a descriptor is not a PPI, because the fixup is not
  found, or because the pool is full. Correct: the database is a log of whole
  lists, callers learn whether theirs is in it, each descriptor is run once and
  in order, and what is followed has been relocated exactly once.
* **Volume walks.** The volume may hold anything. Correct: nothing is handed out
  that reaches out of its container, a search stops at the right file and the
  right section, an answer that there is none says whether the walk could see
  everything, and the walk ends.
* **Spin lock.** Processors interleave at every access, their stores take time to
  reach memory, and the timeout is summed from samples of a counter that counts up or
  down and turns over. Correct: mutual exclusion, the next holder sees what the
  last one stored, a timeout neither early nor late, no wait without end for
  all.
* **Serial port.** The driver polls a device that moves on its own: the FIFO
  drains, the modem lines change, the peer sends. Correct: no byte is lost or
  reordered, flow control is honoured both ways, the peer is held off between
  reads, and the driver and its peer do not wait for each other.
* **Boot chain.** A failure at any stage must stop the processor, and a stage
  must not run on what the stage before it did not validate. Correct: the code
  that runs is the code the volumes name, calls reach what they are meant for,
  and the boot always stops.
* **SEC entry.** Caches hold anything after a reset. Correct: nothing of it
  reaches memory, and C code starts with the first-level caches off and empty.

## Modules

| module | models |
|---|---|
| `PpiRegistry` | abstract: a log of descriptors that grows by whole lists, and a dispatcher that runs it |
| `PeiPpi` | `PeiInstallPpi`, `PeiLocatePpi`, `PeiNotifyPpi`, `FixupPpi`, `InitPeims`, `DispatchPeims`; implements `PpiRegistry` |
| `PeiPpiProofs` | theorems about `PeiPpi` |
| `FfsWalk` | `GetFileSection`, `FindSection`, `PeiFfsFindNextFile`, `PeiFfsFindSectionData`, `PeiFfsGetFileInfo` |
| `FfsWalkProofs` | theorems about `FfsWalk` |
| `Chains` | lemmas about chains of addresses, each after the one before, which the theorems about walks use |
| `SpinLock` | `AcquireSpinLock`, `AcquireSpinLockOrFail`, `ReleaseSpinLock`, the memory between processors, the counter |
| `SpinLockProofs` | theorems about `SpinLock` |
| `Uart` | `SerialPortInitialize`, `SerialPortWrite`, `SerialPortRead`, the device, the peer |
| `UartProofs` | theorems about `Uart` |
| `BootStages` | abstract: the stages of a boot, each with the code that the flash names for it, and the reasons for which a boot ends |
| `Boot` | `SecMain`, `PeiCoreMain`, `InitPeims`, the DXE IPL; composes `FfsWalk`, over two volumes, with `PpiRegistry`; implements `BootStages` |
| `BootProofs` | theorems about what code runs |
| `BootPlanProofs` | the refinement of `BootStages`, where calls go astray, why a boot stopped, and that it comes nearer to that |
| `SecEntry` | `_ModuleEntryPoint`: the set-up of caches and DSP |
| `SecEntryProofs` | theorems about `SecEntry` |
| `MC...` | instances for TLC |

Definitions named as mutants in the modules (`InstallRejectRest`, `DivDown`, ...)
are not part of any specification. Each is a plausible error in the definition
that follows it, and is used to confirm that a property notices that error.

### PeiPpi

`pool` and `currentCount` are `PpiList.PpiPtrs` and `CurrentCount`; `ins` and
`loc` are the locals of the service in progress; `idx` is the dispatcher's. A
pointer of a descriptor is the distance it has been moved (`descPpi`,
`descGuid`, `ifcEntry`), and it is right when that equals the distance between
its module's link-time and execution addresses. `stray` records a fixup that
went through a wrong pointer and so wrote to other memory. `calc` is the outcome
of `CalcPeimFixup`, a property of the image and hence chosen once. Each loop
iteration is a step; a PEIM, in its init function or in an entry, may call any
service any number of times, except that list `l` is passed at most
`MaxPasses[l]` times. An entry whose pointers are not where its module executes is
not called: the dispatcher then goes astray (`DispatchAstray`), from where nothing is claimed. The result of the walk in `CalcPeimFixup` is abstracted to its
status and one address; `FfsWalk` models the walk. `CompareGuids` through a GUID
pointer that is not where the GUID is may come out either way.

`Relocated` says when the pointers come out right. `FixupAt(l, k)` is the fixup that
`PeiInstallPpi` applies to the `k`-th descriptor of a list: that of the first PEIM
(`PeiServices.c:39`) from the first descriptor on that needs one, and it is kept for those behind
it that need none (line 87). What one passing of one list has put into the database is right if and only
if that fixup suits its module. What is in the database twice is never right, and
a fixup writes elsewhere (`stray`) only for an unsuited module or for what is passed again.

### FfsWalk

The state is the locals of the loops: `addr`, `eof`, and the call in progress,
`req`. The image is a constant function from addresses to headers, with sizes of
any value; it is chosen at the start. `GetFileSection` and `FindNextFile` share
their loop over files, `GetFileSection` and `FindSectionData` the loop over
sections. Two reads of unassigned locals are choices: the `Addr` that
`PeiFfsFindNextFile` adds to when it is given a handle (`Stale`), and the `File`
whose kind `PeiFfsGetFileInfo` tests. `SizeBound` stands for 2^32.

`ResultContained` has a lower bound, the first file of the volume, for searches
from the start only: where a continued search begins is what `ffs_next` is about. The buffer that
`PeiFfsGetFileInfo` reports is unsigned: it ends with its file if and only if the file is not
shorter than its header, and reaches out of everything if it is.

`SectionExact` compares a search with `SectionsOf`, the chain of sections of a file
up to the first whose size cannot be right. As in the code, a section starts
where the last one ends, with no padding between.

The computation of an entry point from a TE header (`UtilsLib.c:260-264`) and
the GUID strings built for the log are left out.

### SpinLock

Each processor has a program counter; each sample of the performance counter is
one step, and the counter is a process of its own. `Half` is the 2^63 at which a
difference wraps. The value that is read before the exchange only feeds
assertions. `asserts`, which `Init` chooses, distinguishes builds: the platform
links a debug library whose assertions do nothing, so there the timeout has no
effect.

A store waits in the `buffer` of its processor until `Commit` takes it to `lock`,
the word in memory. The compare-and-exchange that `InternalSyncCompareExchange`
stands for acts on memory at once. The release is an ordinary store without a
barrier (`CpuSync.c:223`), behind the stores of the critical section. The
constant `Ordered` says whether the stores of a processor reach memory in the order
in which it made them; the source does not say on which kind of memory it relies, so
there is a run for each.

The ends of the counter are any two 64-bit values. `Signed` and `Unsigned` are
what an `INT64` and a `UINT64` hold. The code measures turns of two kinds of counter right:
one whose cycle fits an `INT64` (`Short`), and one that uses all 64 bits (`Full`), for which
the subtraction wraps around together with the counter. Of a counter between them
the tick on which it turns over is counted as more than one (theorem
`TurnMiscounted`, for ranges above 2^63), so the timeout comes early; at 2^63 - 1 and 2^63 a signed
overflow, which C leaves undefined, comes into the cycle. `TimeoutNeverEarly` and `TimeoutNotLate` are
about the two kinds. That frequency times timeout fits 64 bits is taken for granted.

`waited`, `seen` and `missed` are histories: the ticks of a wait, how many of them
had passed at its last sample, and whether between two samples more passed than they
can tell (`Limit`): a whole turn of a short counter, 2^63 ticks of a full one. The code cannot
notice that.

### Uart

`fifo`, `shift` and `wire` are the device's transmit FIFO, its shift register and
the bytes it has sent. Bytes are numbered in the order of the calls. `depth` is
the depth the FIFO control register gives the FIFO, which is what
`Initialize` writes and not what the PCDs say. A driver's poll of a register is
one step that is enabled when the poll succeeds; polling that fails is
stuttering, except that `SerialPortRead` sets RTS in it (`RxAsk`). The modem
lines move at any moment. `late` counts the bytes written since the lines
last forbade it. The peer sends only while RTS is set if flow control is
configured. A byte that it has begun to send (`sending`) arrives even if RTS falls
meanwhile, and a full FIFO drops it: the driver never reads the overrun bit of LSR.
`Holding` is the time in which the peer has been told to wait, and `lost`
counts the bytes dropped in it. Before the first read, and without flow
control, the driver does nothing to stop a peer, and `lost` counts nothing.

Register stride, access width and the line-control byte are left out: no
property depends on them. The registers `SerialPortInitialize` writes are one
step, since neither the device's line nor the driver's caller uses the device in
between.

### Boot

`pc` is the place in the chain: a name for each call that is pending and each
function that is about to be entered. Where the code calls `GetFileSection` or a
file service, `Boot` takes the corresponding action of `FfsWalk`, lets it walk
(`WalkStep`) and continues when it has an answer; `Bv` and `Dv` are two
instances of it that share the walk's variables, for the boot volume and the DXE
volume. `PeiInstallPpi` and the dispatcher are the actions of `PpiRegistry`,
which `PeiPpi` is shown to implement. The PEIM that the a priori file names is
the DXE IPL, the only one in the repository.

`secData` holds the ranges of memory that `SecMain` hands over; the length of the
volume is cut to a `UINTN` there (`SecMain.c:74`). The two volume handles are the addresses
that the build gives, so they are constants. The pointer that `SetPeiServicesTablePointer` stores
is not modelled: the PEI core is linked with the library of MdePkg (`Arc.dsc.inc:22`), and nothing
here reads it.

`Stage`, `Module` and `Plan` map the chain to `BootStages`: the stage is a function of `pc`, the
module is the code that was entered last, and the plan is what the flash names,
said of the whole volume without a walk: the first file of a kind, if no file
before it fails to fit, and in it the first section of a type. It names the code
(`core`, `peim`, `pe32`), what that code looks for (`fixup`, `dxe`), and whether
the calls between modules come out right (`calls`, `entry`). With these
`BootStages` has a guard on every step but one: the DXE IPL may always be refused
the file of the DXE core, since `PeiFfsGetFileInfo` tests a local that nothing was
assigned to.

A pointer is again the distance it was moved (`services`, `ppiMoved`), and
`Displacement` is the distance by which a module was really displaced, a fact of
the image. A call through a pointer that disagrees ends in `astray`, from where
nothing is claimed. That `PeiFfsGetFileInfo` may refuse any file comes from
`FfsWalk`.

`SecMain` copies as many bytes as the header says into a local structure
(`SecMain.c:54`), and a header with one block map entry and the terminating one
is longer than it. What lies behind the local is not fixed by the source, so
the copy is not modelled.

### SecEntry

`off` and `keep` are bits 0 and 6 of the control registers; `stale` says
which caches hold lines from before the reset, and `reached` remembers of which a
line reached memory or `SecMain`, by an invalidation that writes back or by an
access while the cache is on (`Access`). Registers and lines start with any
value. The units that exist are chosen by `Init`, as by their build registers. The fetches of
the set-up code itself are left out, since they come before it could do anything
about the caches.

`CachesClean` excepts the SLC, and only it: the code turns it on and never
invalidates it, so `SecMain` may read from it what was there before the reset, and such lines may be
evicted to memory.

## Runs

| run | checks | result |
|---|---|---|
| `ppi_database` | `TypeOK`, `Relocated`, `LocateExact`, `ImplementsRegistry`, `StatusTruthful`, `DeadLoopComplete`, `DispatchComplete` | holds |
| `ppi_reject` | `RejectedUntouched` | violated |
| `ffs_walk` | `TypeOK`, `ResultContained`, `SearchExact`, `SectionExact`, `WalkAdvances`, `WalkEnds` | holds |
| `ffs_next` | `NextFileFollows` | violated |
| `spin_lock` | `TypeOK`, `MutualExclusion`, `HandedOver`, `TimeoutNeverEarly`, `TimeoutNotLate`, `SomeoneAcquires` | holds |
| `spin_weak` | `HandedOver` | violated |
| `uart_driver` | `TypeOK`, `NothingLost`, `AtMostOneLate`, `OneOverrun`, `BaudNearest`, `WriteEnds`, `ReadEnds` | holds |
| `uart_fifo64` | `NothingLost` | violated |
| `boot_chain` | `TypeOK`, `RunsSound`, `NeverAstray`, `ImplementsStages`, `StopExplained`, `BootAdvances`, `BootStops` | holds |
| `boot_dxe` | `DxeCoreTakesOver` | violated |
| `sec_entry` | `TypeOK`, `CachesClean` | holds |
| `sec_slc` | `SlcDisabled` | violated |

What `boot_chain` adds to the runs of the parts: the stages come in their order,
each runs the code that the volumes name for it, and a boot ends early only
where they name none or a pointer comes out wrong (`ImplementsStages`); where it
has stopped, with what it left behind, tells what was wrong with the flash
(`StopExplained`); every step takes it nearer to its end (`BootAdvances`); what runs
lies in a container that was checked, with its stack and heap apart (`RunsSound`); two searches made at different times, by
`SecMain` and by `CalcPeiFixup`, agree on the PEI core, so that calls reach
their services unless the image breaks one of the two things the code takes for
granted (`NeverAstray`); and, with a processor that executes and no empty file,
every boot stops (`BootStops`).

### Bounds

* **PPI.** Three slots and six lists of one to three descriptors: lists fill the
  pool exactly, overflow it in their middle, meet a full pool, and are refused at
  their second descriptor. One list is passed twice, and one begins at the second descriptor of
  it, so pointers are moved twice in both ways. One mixes the two kinds of descriptors, with
  one of a module at 0 before and one behind the one that brings the fixup; one has only such a module; and one is of a module that
  does not lie where the fixup says. Two GUIDs, and instances 0 to 2. `CHECK_DEADLOCK FALSE`: the core ends in a
  dead loop.
* **FFS.** A volume of 120 bytes, three files and the sections in them. The first
  file is empty, shorter than its header, aligned, not aligned, or larger than
  fits; the second exactly its header or erased flash; sections are empty,
  shorter than their header, or of a size that leaves the next one unaligned.
* **Spin lock.** `spin_lock` has three processors, a counter of three values that counts
  down, a timeout of three ticks and at most four ticks of waiting, so the
  counter turns over in a wait, seen and unseen, and the timeout can expire in it.
  `Half` is 4, the least for which the counter is `Short`; the full counter is left to the
  proofs. One store besides the release waits in a buffer.
  `spin_weak` has two processors, as many as can hand a lock over, and buffers of two.
* **Serial port.** FIFOs of two bytes, four if extended, and calls of up to three, so a call
  takes two bursts, and four bytes over several calls (five in `uart_fifo64`), so bursts follow one
  another before the line is idle. The three ways of flow control, each with the FIFO
  on and off; no register base; with the platform's clock, baud rates whose divisor needs one byte
  of the latch, both, and more than both.
* **Boot.** Four files in the boot volume, in five orders, two of which put
  another PEIM before the DXE IPL or leave out the PEI core, one the a
  priori file; each of the PEI core and the DXE IPL with and without its fixup and TE
  sections; a third file that is right, empty, or does not fit; a DXE volume with
  and without core and PE32 section; one wrong field of a header at a time: 3240 images. The
  temporary RAM has an odd size, and the pool one slot, which is all that this chain fills. With
  one processor the boot of an image is almost determined, so the images are
  the breadth. `CHECK_DEADLOCK FALSE`: every boot stops.
* **SecEntry.** All of it: there is nothing to bound.

### Fairness

* **PPI.** The processor advances through its loops (weak fairness). A PEIM
  returns: strong fairness, because its return is not enabled during each
  service it calls. An entry may also stop the processor, as `LoadAndRunDxeCore` does.
* **FFS.** The processor executes the loop it is in.
* **Spin lock.** Every processor executes, an owner releases, and stores reach memory; nothing makes the
  exchange fair, so a single processor may starve and no property says otherwise.
* **Boot.** The processor executes (weak fairness of the next step).
* **Serial port.** The driver polls, the device shifts, and the peer sends when it
  may. The modem lines promise nothing: `WriteEnds` has to assume that the peer
  is clear to send from some time on.

### What the violated runs show

* `ppi_reject`: `FixupPpi` moves the pointers of a descriptor when it is stored. If
  a later descriptor of the list is refused, the count goes back and the
  pointers do not ("Reject entire provided list", `PeiServices.c:122`). A caller
  that tries again gets its pointers moved twice.
* `ffs_next`: `PeiFfsFindNextFile` with a handle adds the file's size to a local
  that nothing has been assigned to (`PeiServices.c:240`), so an iteration over
  the files of a volume may stay where it is or go back.
* `spin_weak`: on a processor that may reorder its stores, the release can reach
  memory before a store of the critical section, so the next holder reads old data. The comment
  at `CpuSync.c:73` asks for "MP safe mechanisms" for all transitions of the lock; the release at line
  223 is a plain store, with no barrier before it. With ordered stores
  `spin_lock` and a theorem show that nothing is missing.
* `uart_fifo64`: with PCDs that promise an extended FIFO, a burst is longer than the FIFO
  that `SerialPortInitialize` has set up, whose FCR value is a constant without
  FIFO64 (`Ns16550.c:35`).
* `boot_dxe`: the call of the DXE core's entry point is commented out
  (`DxeIpl.c:141`), so the DXE IPL returns `EFI_LOAD_ERROR` after it has found
  and loaded the core ("Should never return", `DxeIpl.c:185`).
* `sec_slc`: under "Disable System-Level Cache (SLC)" (`SecEntry.S:51`) the code
  clears the bit that turns a cache off (line 56), so the SLC is on.

Things seen while modelling that no property states: `SerialPortInitialize`
returns the register base, not `RETURN_SUCCESS` (`Ns16550.c:209`, `256`), and
`SecMain` expects the base; free space behind the last file
makes a search that finds nothing say `EFI_VOLUME_CORRUPTED`, since erased flash
reads as a file of the largest size; a file of size 0 keeps `GetFileSection` where
it is for ever; sections are not realigned after one of odd size; the
transmitter reset bit is BIT3 in the driver (`Ns16550.c:33`) where a 16550 has it at BIT2;
the rules that build the PEI core and the PEIMs into the volume (`Hs4x.fdf:62-72`) add no
FREEFORM_SUBTYPE_GUID section from which `CalcPeiFixup` and `CalcPeimFixup` could take a distance; `PeiFfsFindNextFile` refuses a handle of 0
(`PeiServices.c:228`), while `Hs4x.fdf:22` puts the boot volume at offset 0 of the flash; the base
and size of the temporary RAM default to 0 (`Arc.dec:21-22`); the stack that
`SecEntry.S` sets up is not the one that `SecMain` hands over; `Int32ToAscii`
leaves out the third character of its buffer and so ends one behind it
(`UtilsLib.c:46-58`), but nothing calls it; and `PeiLoadPe32` follows offsets from the
image's headers that it has not compared with the image's size (`DxeIpl.c:42`).

## Proofs

Every theorem is for all values of the constants under the assumptions of its
module, and is checked to its last leaf by TLAPS. The assumptions of `Boot` and
`FfsWalk` say what types the flash's fields have (`VolumeAssumption`,
`SizeAssumption`, `NameAssumption`), that pool and RAM have a size (`PoolAssumption`,
`RamAssumption`), that `NULL` is nothing else (`NullAssumption`), and that the handle of the
DXE volume is not 0 (`DxeVolumeAssumption`), as `Hs4x.fdf:10` has it.

### PPI database

* `TypeCorrect` (`TypeOK`). The inductive invariant adds to the types that the
  slots below the count are filled (`PoolInv`), that during an installation the
  index is the current count, at most the capacity less one, and that the list
  is at the right position. Without it the step that stores could index outside
  the pool, and the dispatcher follow an empty slot.
* `RegistryImplemented` (`ImplementsRegistry`). From the same invariant: storing
  a descriptor is a stutter until the last of the list, because `Db` counts up to
  the count at the start of the call; the last one is the abstract `Install`; a
  rejection is a stutter; a call of an entry is the abstract `Run`. The invariant
  supplies that the slots between the two counts hold the prefix of the list, and
  that what ran is the prefix of the log up to the dispatcher's index.
* `CallerToldTruth` (`StatusTruthful`), from the same facts about the two counts.
* `NothingLeftToRun` (`DeadLoopComplete`). What ran is what the slots below the
  dispatcher's index hold, which are not written again (`RanInv`), and the loop is left when the index has reached the count, which it
  compares anew each time, so what an entry installed is not passed by. The
  dispatcher's invariant has to say that the index is below the
  count while an entry runs, and also once an entry has stopped the processor.
* `RelocationCorrect` (`Relocated`), for every image and every order of passing
  its lists. The invariant tracks, for each descriptor of each list that is the only way to its
  interface and was passed once, whether the call has passed it, and that it has been moved by
  `FixupAt` if and only if it has; that one
  which every list moves has been moved once if it is in the database, and twice
  if it is there twice; and that only an unsuited or repeated passing moves anything elsewhere.
* `SearchCorrect` (`LocateExact`), wherever the `Guid` pointers of the installed descriptors are right:
  a comparison of GUIDs then looks at the GUID, and the search has counted those in the slots behind it
  (`SearchInv`). The argument is one of cardinalities: a slot adds one to the
  set of the slots before it that have the GUID, or nothing.

### Volume walks

* `FfsWalkProofs!TypeCorrect` (`TypeOK`) and `Contained` (`ResultContained`), for
  every image, whatever sizes it states. The invariant `PlaceInv` says where a walk
  can stand: among the files at an aligned address, among the sections behind the
  header of a file that fits its volume, with the end `eof` of that file; a
  section is handed out only after its end was compared with `eof`, and `eof`
  came from a file whose end was compared with the end of the volume. Every
  handle given to a caller is a file that fits, since the services trust it. That the buffer of
  `PeiFfsGetFileInfo` is right exactly for files that hold their header is arithmetic modulo
  `SizeBound`.
* `SearchesExact` (`SearchExact`). `WalkInv`: the walk stands at a file of the
  volume or behind them all, and every file it has passed fits, does not match,
  and is followed by one it has already reached. `Files` is defined independently of the walk,
  as the smallest set with the first file that is closed under "the next one";
  the lemma `NoFileBetween` uses that it is the smallest: no file lies inside
  another, so a step to the next skips none.
* `SectionsExact` (`SectionExact`). `SectionsOf` is a recursive function, and that such a
  function satisfies its own recursion is a fact that needs induction over data. `Chains` goes
  round it: the numbers of addresses for which no such function exists have
  a least element (`LeastNumber`, from the library's statement that the naturals are
  well-founded), and the function for one address less can be extended
  (`ChainExists`). Then what is
  ahead of the walk is the rest of the chain, and nothing behind it has the type.

* `WalksMoveOn` (`WalkAdvances`), the safe half of `WalkEnds`: a step that does not end
  a walk takes it to a higher address below the end of the volume. A section that
  is passed has at least four bytes, and a file that is passed has any size: a step over
  none changes nothing, and that is the one way to stay. The place of a walk
  bounds the number of its steps by the bytes of the volume.

### Spin lock

* `TypeCorrect` (`TypeOK`) and `Exclusion` (`MutualExclusion`), for any set of
  processors and with or without ordered stores. The invariant `ReleaseLast` says that a release is
  the last store of its buffer, and at most one is there, so that it gives the
  lock back once, whenever it arrives.
* `OrderedHandOver` (`HandedOver`), if stores keep their order: `StoresOwned`,
  whoever has a store on its way owns the lock. `spin_weak` shows that the
  condition is needed.
* `NeverEarly` (`TimeoutNeverEarly`) and `NotLate` (`TimeoutNotLate`), for every `StartVal` and `EndVal` of 64
  bits: the conditions on the counter are in the properties. `Distance` is the number of ticks from
  one value of the counter to another, less whole turns; the invariant `CountsTime` says that the distance of the
  counter from the last sample is the time since then, up to whole turns, and compares the total
  with the time of that sample. The lemmas `ShortDelta` and `FullDelta` say when what the
  code computes is that distance.
* `TurnMiscounted`: for a counter between the two kinds it is not, at the first turn.

### Serial port

* `UartProofs!TypeCorrect` (`TypeOK`), `OneLate` (`AtMostOneLate`) and
  `ReadHoldsPeer` (`OneOverrun`): one inductive invariant, which adds that a byte is
  left whenever a loop runs (`CallInv`), that no byte is late yet when a line
  falls between its check and the store (`LateInv`), that RTS is clear while the
  peer is held (`HeldInv`), and that since then it has overrun the FIFO only with
  the byte it was sending when RTS fell (`LostInv`).
* `NoByteLost` (`NothingLost`), assuming `FifoAsPromised`: if a PCD entry enables the
  64-byte FIFO, the device has it. `SerialPortWrite` never reads the level of the
  FIFO, so the invariant `BurstInv` has to derive it: the FIFO was empty at the flush and
  holds at most as many bytes as came since, fewer than `TxFifoSize`, which is
  at most the depth. The bytes on the line, in the shift register and in the
  FIFO are then always the ones written, in order.
* `NearestBaud` (`BaudNearest`): a lemma about rounded division, `Rounding`. The property is about
  baud rates whose divisor fits the 16 bits of the latch, and `DivReached` says that these are
  cut to themselves.

### SEC entry

* `SecEntryProofs!TypeCorrect` (`TypeOK`) and `CleanStart` (`CachesClean`): the invariant says
  for each place in the code what has been set up before it, in particular that at the
  invalidation of the data cache its mode has been set to discard.

### Boot

* `BootProofs!TypeCorrect` (`TypeOK`) and `OnlyCheckedCodeRuns` (`RunsSound`), for every content
  of the flash. `RunsSound` is about code that was entered, often several searches
  ago, so the invariant has to say for each place what the walk in progress was
  asked for and where it can stand (`BootWalk`, `DxeWalk`), and what has been done on
  the way (`Order`). The two volumes share the walk's variables: a walk of one
  is never continued as a walk of the other, since the answer to each is taken
  before the next is begun.
* `StagesImplemented` (`ImplementsStages`), for every content of the flash. `Plan` speaks of the
  whole volume, and the walks see it one header at a time. `FileWalk` and
  `SectionWalk` say that what is ahead of the walk is the rest of the chain, and that
  nothing behind it would have stopped it; then an answer is the file or the section
  that the plan names (`Answers`, `PlanIs`), whatever is asked at that place (`Asking`).
  `Entered` remembers it: the code that was entered is the plan's. `Linked` says the same of
  pointers: by how much the services and the PPI were moved is what the plan says of
  `calls` and `fixup`. Each step then is one of
  `BootStages` or a stutter (`StepRefines`). It says more than `RunsSound`: that the code that
  runs is the right file of its kind, and that a boot which ends early does so
  because the flash names nothing for the next stage, or because a call it needs there misses.
* `StopsExplained` (`StopExplained`), for every content of the flash. The ends asleep, hung
  and astray are those of `BootStages`, whose guards `StepRefines` yields once more
  (`StopsAreStages`). The dead loop has five causes, and the dispatcher comes
  there from three places; `Cause` says that the reason is known from the moment
  there is nothing left to run, and that before its search the DXE IPL has found nothing.
* `WholeImageBoots`: the same from the other side. If the plan names everything and
  every pointer comes out right, the boot neither sleeps, hangs nor goes astray, and
  a boot that is in the dead loop has loaded the DXE core, or was refused its file.
* `BootsMoveOn` (`BootAdvances`), the safe half of `BootStops`: every step either takes the chain to
  a place nearer to its end, of which there are twenty, or is a step of a walk that
  ends it or moves it on in its volume (`BootWalkMoves`, `DxeWalkMoves`, which need to know which of the
  volumes a walk is in). That the dispatcher does not start over needs `Order`: the DXE IPL
  returns to a dispatcher that has run what there is.
* `AstrayOnlyThere` (`NeverAstray`), assuming `SoundLink`: a file that has a fixup section is
  displaced by what the section's address says. `Moved` says by how much the
  services and the pointers of the PPI have been moved, namely by the sections of the first PEI
  core and the first PEIM; these are the files that were entered, but for the
  two cases that `NeverAstray` names.

### Only model-checked

What needs fairness, which TLAPS does not reach: `DispatchComplete`, `WalkEnds`, `BootStops`,
`SomeoneAcquires`, `WriteEnds`, `ReadEnds`. Of the first three the part that
is about the code is proved: `NothingLeftToRun`, `WalksMoveOn` and `BootsMoveOn` with `StopsExplained`
leave to fairness only that the processor executes, and, for the dispatcher, that entries
return. All other properties that hold in a run are
also proved, those with a condition on the image, the memory or the PCDs
under that condition. That the FIFO promised by the PCDs and ordered stores
are needed is shown by TLC.

## Not modelled

* The stubs (`Arc2Cache.c`, `CpuLib.c`, `CpuException.c`, `Arc2SetJump.S`) have no state.
* Formatting (`GuidToAsciiStr`, `StatusToAsciiStr`, `Int32ToAscii`) affects only the log.
* The build files are declarative.
* `InterlockedIncrement` and its like are single calls of a primitive that is not
  in this repository.
* `SecMain`'s copy of the header (`SecMain.c:54`), and the reads that `PeiLoadPe32` makes at offsets from the
  image's headers: what they find outside the objects they are meant for depends
  on the layout of stack and flash, which the source does not fix. `BootHeader` and `PeHeader`
  stand for what is found.
* The computation of an entry point from a TE header. `Boot` takes it that
  control reaches the code of the file that was found.
* `DxeFvLength` and `DxeHeaderLength` are constants: the walk of any content of the DXE volume is covered,
  a wrong header of it, which nothing checks, is not.

## Plan

1. Done: all components with state, the composition of the boot chain with its
   abstract specification, and the theorems above, which leave only liveness
   to TLC.
2. Left: `PeiPpi` in place of `PpiRegistry` inside `Boot`, for which the single list of
   the single PEIM gives little to find; a DXE volume whose header is wrong.
