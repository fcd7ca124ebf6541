# Verification of CubikOS in TLA+

CubikOS is a monolithic x86-64 kernel in C (`Kernel/`). At this commit it boots
on one processor, sets up memory, interrupts and ACPI, and halts. There is no
scheduler yet, and no user space. The repository also carries libpng
(`Thirdparty/libpng/`), which nothing links yet. The development has two halves: the
kernel, from the boot loader's tags to the structures it keeps, and libpng, from a
picture written to a picture read.

Kernel paths below are relative to `Kernel/`, libpng's to `Thirdparty/libpng/`.

## The system's parts

| Part | Source | Modelled by |
|---|---|---|
| spinlock | `include/utils/spinlock.h` | `Spinlock`, `AbstractLock` |
| linked list | `src/utils/list.c` | `LinkedList` |
| page frames | `src/mm/page.c`, `MemoryInitialize` in `src/mm/memory.c` | `PageFrames`, `PageSizes` |
| virtual pages | `arch/x86_64/paging.c` (bitmap and search) | `VirtualPages` |
| page tables | `arch/x86_64/paging.c` (mapping), `src/mm/malloc.c` | `KernelMap`, `PageSizes` |
| slab allocator | `src/mm/slub.c` | `Slab` |
| processors' structures, processes, threads, activities | `arch/x86_64/smp.c`, `cpu.c`, `src/proc/` | `KernelObjects` |
| boot, memory map | `arch/x86_64/bootx64.[ch]` | `Boot` |
| interrupts, PIC, PIT, APIC | `interrupts.c`, `idt.c`, `pic.c`, `pit.c`, `impl-apic.c` | `Interrupts`, `Boot` |
| ACPI, SMBIOS | `impl-acpi.c`, `smbios.c` | `Acpi`, `Boot` |
| terminal, panic | `src/graphic/terminal.c`, `src/panic.c` | `Terminal`, `Teletype`, `TerminalProofs` |
| strings, memory helpers | `src/string.c`, `src/mm/memory.c` | `Strings` |
| libpng: chunks and colour space | `pngrutil.c`, `png.c`, `pngset.c` | `PngChunks` |
| libpng: rows and interlacing | `pngrutil.c`, `pngwutil.c`, `pngread.c` | `PngRows` |
| libpng: writer | `pngwrite.c`, `pngwutil.c`, `pngset.c` | `PngWrite` |
| libpng: sequential reader | `pngread.c`, `pngrutil.c` | `PngRead` |
| libpng: progressive reader | `pngpread.c` | `PngPush` |
| libpng end to end, zlib as libpng uses it | | `PngCodec`, `PngStream` |
| everything else | | see "Not modelled" |

`PROJECT.json` lists every part with the reason, maps each definition to its
lines, and lists the hazards this code is exposed to.

How they interact: `AllocatePages` takes frames from `PM_AllocatePages`, pages
from `VM_AllocatePages`, and maps one to the other with `MapVirtualAddress`,
which calls `AllocatePages` again when a page table is missing. The slab
allocator takes its pages from `AllocatePages`. Loading the memory map uses all
of them before they are complete, to make room for the frame descriptors.
`KernelObjects` is the slab allocator with its real callers; `Boot` is the
interrupt controllers and the firmware's tables with theirs; `PngCodec` puts the
writer, a file that may be damaged, and the two readers together.

## Facts about the build the models rely on

* `make` compiles with gcc -O2 for x86-64. `1 << bit_index` is an `int` shift
  whose count the processor takes modulo 32, and which is sign-extended when it
  meets a 64-bit word.
* `current` in `PM_MarkPagesUsed` is uninitialised: the model chooses it from the
  set `Garbage`. `int size = blockSize[size]` in `__slab_SetCache` reads index 0
  in this build, so every cache cuts pages into objects of 8 bytes.
* `KM_FindCache` of the largest size returns an uninitialised pointer: the model
  chooses any cache, or a fault.
* RAM reads as zero before it is written (the emulator of `make run`), where a
  model says so: locks and links of new frame descriptors, cache headers. Page
  tables are the exception: `KernelMap` lets their frames hold anything
  (`Leftover`).
* A page fault stops the processor (the handler halts with interrupts off), and so
  does `CallPanic`. The models have stopped states for both. For this reason the
  runs of the memory modules do not check for deadlock.
* Only the boot processor runs: `trampoline.asm` is empty, and `smp.c` starts
  nobody. Interrupt handlers touch no memory-management state, so a call is not
  disturbed by one.
* `CreateThread` has no return statement: the model takes any value for its result.
* `ACPI_FindTable` without a match falls out of its loop and returns the table it
  looked at last.
* libpng is configured as in `scripts/pnglibconf.h.prebuilt`: benign errors of a reader are
  warnings, and every chunk type is supported.

## The models

**`LinkedList`** has the two list operations as functions on the link maps,
`RemoveNext/RemovePrev` and `AppendNext/AppendPrev`. A removed node keeps its own
links, as in the code; several of the properties below are about that.

**`Spinlock`** has one step for each instruction that touches the lock word.
`at` is "out", "exchange", "spin" or "inside". `AbstractLock` is what a lock
promises: a request, a grant to one CPU while nobody holds it, a release.
`ImplementsLock` states the refinement. `SomeWaiterEnters` is its liveness: no
particular waiter is promised entry, only some waiter, because a test-and-set lock
is not fair. The fairness assumed is weak fairness of each CPU's steps inside the
lock, that is, a processor keeps executing.

**`PageFrames`** has a frame's number for its address, and descriptor fields as
functions on frames. `pc`, `req`, `mord`, `page` are the locals of
`PM_AllocatePages`; one step is one critical section or the code between two.
`LoadBlock` to `TableReady` are `PM_LoadZoneRange`, with the calls of
`PM_AllocatePages` it makes (`caller` says where to return to), and
`EnterMark`/`PM_MarkPagesUsed` the treatment of the kernel's own entry. After boot
clients allocate any order, and free (which faults in `PM_CombinePage`, since a
physical address is used as a pointer). `given`, `asked` and `desc` are history.
Fairness: the CPU keeps executing the function it is in; nobody has to call one.
`BootEnds` says when boot comes through. The loops at lines 120 and 334 stay for ever at an
entry below 1 MiB, and at an address without a descriptor; a processor in them counts
as running, and the property names both conditions.

**`VirtualPages`** has the bitmap as a function from words to sets of bits.
`Mask` is the 32-bit shift. `Finds(s, n)` says, without a loop, which address the
search returns: it passes over full words, a used page restarts the row, and
virtual address 0 cannot start one. `MarkedWord` is the word that
`VM_MarkPagesUsed` really writes to. One thing is abstracted: the sixteen chunk
pointers are stored in the first sixteen words of the bitmap itself. Marking pages
0 and up during boot sets bits in pointer 0, at address A, until it has become
A + 1 + 2^k and leads past the pointers; marks made from then on are read through
the same moved pointer, so the first chunk is consistent again, and since bits
alias modulo 32 the marks of pages 32, 33 and so on replace the ones lost on the
way. The model keeps the pointers apart from the words.

**`KernelMap`** composes `AllocatePages` and `MapVirtualAddress` with the two
allocators in their abstract form: any frames and any pages that nobody has, in the
first chunk of marks (128 MiB). A row of pages that is not there any more is not
asked for: what `VM_AllocatePages` finds behind that chunk is `VirtualPages`.
`mem` is memory as page-table entries; `Translate` is the hardware's walk and
`ConvertVirtToPhys` the kernel's, and the two find a table by different ways
(directory entry and `kernelPageTablePointers`). A call in progress is a record
in `call`, one step per page. When a table is missing, `MakePresent` makes its
directory entry present and leaves the call in `outer`, a nested `AllocatePages` runs
step by step, and `TakeTable` gives the entry its address (`paging.c:162-175`).
Scale: 2 entries per table for 512.

**`PageSizes`** has `page_size_align`, `page_size_order` and `PM_Allocate` on
integers of `SizeBits` bits. `KernelMap` uses them for the amounts it is asked
for, 0 among them; the largest is the largest block (`AmountsAssumption`).

**`Slab`** has objects as <<page, index>>, and the first word of each object as
state, because that is where the free list lives. Callers may write into what they
hold (`HolderWrites`, `WriteLimit` times): as every object has 8 bytes, whoever
asked for more writes over the objects behind it. `dirty` is the pages somebody has
written into, `again` the objects that were given out twice; both are history.

**`KernelObjects`** is `Slab` with the callers the kernel has: `SMP_Initialize`
first, then processes, their activities and threads in any order. A structure is a
row of words written over objects; the words kept are the first ones, through
which the free list runs, and the numbers the property is about. A name comes from
the cache of its length (`proc.c:22`), which may be that of any structure or none,
and `strcpy` writes whole words of it and the low bytes of one more: a final 0 may
leave a pointer as it was, round it down, or make another of it (`Ended`). What is
written past a page or through a word that is no address ends the model ("fault",
or "astray" where memory that is not followed has changed). The model shows what
this comes to: entries of `cpus[]` are one object, a name of the processors' size
class overwrites the boot processor's structure, a process may be its own name, and
threads lie over each other in pairs. Little is left to promise, so the one property
is a statement of the code's own, and it is refuted.

**`Interrupts`** has the two PICs (requests `irr`, service `isr`, mask, bases), the
local and I/O APIC as far as the kernel programs them, the processor's interrupt
flag and descriptor table, and `DispatchInterrupts` with `RestoreInterrupts`.
What devices and controllers do by themselves is marked external.

**`Acpi`** has the search for a table and the walk over the MADT, one entry per
step, with the fall-through at `impl-acpi.c:130` and counters of their width.

**`Boot`** is `ParseStivale2Info`, one step per tag and per entry of the memory map,
and `ArchitectureInitialize`, one step per call, with interrupts between any two of
them. A machine (`MCBoot`) is what the boot loader and the firmware left in memory. Fairness: the processor keeps executing
(`BootStep`), and it takes an interrupt that stays deliverable (`Interrupt`).
`BootEnds` is stated for machines that have a MADT or whose last table is too
short to be read as one; on others the walk at `impl-acpi.c:152` may meet an entry
of length 0 and stay there.

**`Terminal`** has the cells, the cursor and the writers; a call is one step, since
nothing that writes can come in between. `Written` is the loop over a text, a
recursive function of how many characters have been added.
`Teletype` is what a terminal promises: text goes to an endless roll of paper, and
the screen is its end. `ShowsTheEnd` is the refinement.

**`Strings`** has memory as a function from addresses to bytes and every function
of `string.c` and `memory.c` as an operator on it, written after its loop. The
properties compare them with definitions without loops, where the code does what
its comments say; `FirstToken` is about a tokenizer's first call, the later ones go on
from wherever `saveptr` points. Known departures are listed below.

**`PngChunks`** has one operator per `png_handle_XXX`, from a record that stands for
`png_struct` and `png_info` to the next. A chunk is its name, whether its CRC is
right, whether its contents pass the handler's own tests, and the one number other
chunks are compared with (entries of a palette, a gamma, a profile).

**`PngStream`** has the file as chunks, and its bytes as <<chunk, index>>, so that a
byte that is lost or out of order is seen. zlib is external: the writer's k-th code
stands for the k-th `ZRatio` bytes of the rows wherever it comes to lie in the file, and
`Inflate` gives them out as room permits, with the end of the stream and its checksum
as bytes of their own. Damage is a byte that no code looks like (`Broken`), which
inflate rejects at once, or one that passes for a code (`Zeros`, `Noise`), which only the
checksum at the end tells.

**`PngRows`** has interlacing: which rows and columns a pass has, by the tables and
switches of the three files that decide it, and how rows are taken apart and put
together. Every pixel has its own value.

**`PngWrite`**, **`PngRead`** and **`PngPush`** are the writer and the readers, with
the locals of a call in progress in `wr`, `rd` and `ps`. A step of the progressive
reader is one call of `png_process_some_data`. A loop is a recursive function of the
number of turns made; the one over zlib's input (`png_process_IDAT_data`) has no
count of its own, so `IDATRounds` bounds its turns and a turn behind the last changes
nothing. The callbacks are those of the manual; both may pause, with the rest saved or handed
over again. After a pause in `info_callback` the reader goes on; after one in `row_callback`
`buffer_size` has wrapped, and the model ends there (mode "astray").
**`PngCodec`** writes a picture, lets the file suffer at most one fault (any chunk, IDAT
included, lost, repeated, swapped with the next, or with a wrong CRC; contents its
handler refuses, but for eXIf; a byte of the image data replaced, behind a right or a wrong CRC; a palette or
what depends on it of another size; a foreign chunk; the file cut off anywhere), and
reads it twice.

## The runs

`tlc -config <cfg> <module>`; states are distinct states, times those of two
workers.

| Run | cfg, module | Checks | States |
|---|---|---|---|
| spinlock | `MCSpinlock` | `MutualExclusion`, `SomeWaiterEnters`, and the refinement of `AbstractLock`, `ImplementsLock`; 4 CPUs, deadlock checked | 188 |
| page_frames | `MCPageFrames` | `NoOverlap`, `BlockFits`, `DescriptorsKept`, `ListsSound`, `CallEnds`, `BootEnds` | 33132, 14 s |
| page_frames_small | `MCPageFramesSmall`, `MCPageFrames` | `DescriptorsKept` with frames running out during boot | 1745 |
| page_frames_null | `MCPageFramesNull`, `MCPageFrames` | refutes `SuitableOrNull`, see below | |
| virtual_pages | `MCVirtualPages` | `NoDoubleAlloc`, `FirstFit` | 692 |
| kernel_map | `MCKernelMap` | `TranslatesAsAsked`, `DataIsPrivate`, `BlocksFit` | 240452, 60 s |
| slab | `MCSlab` | `ListMatchesCount`, `OnlyFirstRepeats` | 110789 |
| kernel_objects | `MCKernelObjects` | refutes `ThreadIdsDistinct`, see below | |
| boot | `MCBoot` | `IrqIsNoException`, `ServiceEnds`, `ProcessorsListed`, `OverridesInForce`, `BootInfoKept`, `BootEnds`, `PicServes` | 35637, 25 s |
| terminal | `MCTerminal` | `ShowsTheEnd`, the refinement of `Teletype` | 468 |
| strings | `MCStrings` | `ReadersAgree`, `WritesAsAsked`, `FirstToken` | 84343, 6 s |
| png | `MCPng` | `BytesInOrder`, `RowsInOrder`, `PictureComplete`, `PushMatchesRead`, `InfoSound`, `RoundTrip`, `PieceEnds` | 301912, 135 s |

The type invariants (`TypeOK`, `ObjTypeOK`) say what values the variables take; they
hold in the same instances, and the proofs establish those of the lock, the page
frames, the virtual pages and the slab. Only `spinlock` checks for
deadlock: the others stop where the system does, in a panic or a fault, at the end
of boot, or at the end of a file.

What `png` shows, in words. However a file is cut into pieces, and whenever
`info_callback` pauses, no byte is lost or reordered, every piece is used up, rows
are reported in order, every row of every pass once, and on files whose compressed data
is whole the progressive reader ends as the sequential one does. A file that was not
damaged gives back the picture and what was set with it. Of a damaged one:

* if either reader accepts it, the CRCs of its image data are right;
* if the sequential reader accepts it, the picture is whole, unless damage behind a
  right CRC passes for compressed data. Then pixels are wrong, and the only sign is the
  checksum of zlib, which is a warning behind the last row (`pngrutil.c:4256`);
* the progressive reader may also accept it with rows missing, since it takes any
  damage for that checksum (`pngpread.c:689`), but rows it has reported are right, again unless
  damage passes for data. It reports rows before it comes to the CRC of their chunk.

### Known disagreements

Two runs check a statement of a comment that TLC refutes.

`page_frames_null`: `page.c:245` says "If
there is no suitable page, return [NULL] instead". But the second removal at
`page.c:374` follows old links and unlinks a free block without lowering the count,
and `page.c:340` does not lower it either. A list with a nonzero count then has no
first page, and line 280 dereferences it.

`kernel_objects`: `proc.h:116` says "Thread ID, not duplicated in same progress". The first
object of a page is returned twice (`slub.c:249`), so the second thread of a process
is written over the first, and both have the number that was taken last.

Seven more are kept as definitions. Adding the definition as an INVARIANT of the
cfg shows the behaviour.

| Definition | Statement | What the code does |
|---|---|---|
| `VirtualPages!ReturnedIsMarked`, `MCVirtualPages.cfg` | `paging.c:274` "mark the virtual memory pages used and return the address" | Behind the first 128 MiB the mark goes to another word (`paging.c:322`). |
| `Slab!ObjectsDistinct`, `MCSlab.cfg` | `slub.c:159` "Find a free object" | The first object of every page is returned twice. |
| `Slab!NeverSpins`, `MCSlab.cfg` | `slub.c:174` "Allocate from buddy allocator ... No -> PANIC!" | The call that uses up a page waits on a lock word that is part of a pointer (`slub.c:111`). |
| `KernelMap!PresentWasMapped`, `MCKernelMap.cfg` | `paging.h:131` "false If the page does not exist" | A page table is used without clearing its frame. |
| `PageSizes!SmallSizesFit`, `MCKernelMap.cfg` | `page.c:214-220` "allows you to allocate pages while the argument is not 2^order ... in bytes. If there is no suitable page, return [NULL]" | For sizes up to half a page the order wraps to 255 (`page.c:61`, `:232`), and NULL is returned whatever is free. |
| `Strings!SearchesAsSaid`, `MCStrings.cfg` | `string.c:58` "first occurance of c in string s, searching at most n characters", `:71` "last occurance of c in string s" | `strnchr` misses the n-th character, and points behind the n characters when it met neither c nor the end; `strrchr` points behind the last occurrence. |
| `PngCodec!PausesAnywhere`, `MCPng.cfg` | `libpng-manual.txt:2708`, of `row_callback`: "You can also call png_process_data_pause in this callback" | The pause sets `buffer_size` to 0, and the subtractions at `pngpread.c:585` and `:611` make it wrap. |

Others are part of what a property says, or of what it leaves out:

* `page.h:60` says "Each free area contains pages who have same size", and
  `page.c:88` puts blocks of order 10 on list 9; `BlockFits` therefore allows a
  caller twice the frames it asked for.
* `memcpy` (`memory.c:28`) does not write to its destination, and `strncpy` and `strncat`
  write one byte more than their length; `WritesAsAsked` says so.
* `proc.h:180` says that `CreateThread` returns a "Pointer to new thread", but it has no
  return statement (`proc.c:81`); `MainThread` takes any value.
* `KM_FindCache` of the largest size (`slub.c:90`) returns nothing defined; the
  structure of the boot processor (`smp.c:18`) is overwritten by a name of its size
  class; an I/O APIC entry is taken for an override as well (`impl-acpi.c:130`), and a memory map
  of more than 64 entries runs into the framebuffer's description (`bootx64.h:820`). The models
  have all four. No statement of the repository is about them, and the properties
  around them except them by name.
* `pngrutil.c:1404` says "Only one sRGB or iCCP chunk is allowed, use the HAVE_INTENT
  flag to detect this", and `png.c:1940` sets the flag for sRGB only: of two
  profiles that are not sRGB both are accepted.
* The two PNG readers treat damage in the compressed data differently. The
  progressive one takes it for a wrong checksum (`pngpread.c:689`) and accepts the
  file without the rows that follow. It rejects a second run of IDAT chunks and a missing
  checksum, which the sequential one accepts. `PushMatchesRead` is stated for files
  whose compressed data is as it was written and in one run. eXIf is handled by the sequential reader only.

### Bounds

* `page_frames`: `MaxOrder` 4 for 10, 100 frames, descriptors of a block in one
  frame (16 of 1024 in the code; what matters is that a block has room for several).
  Two blocks per page table, so that both a new and an existing table occur. Three
  maps: two blocks in a row; a gap with the kernel in it; an entry below 1 MiB.
  `Garbage` holds values before, inside and behind the loaded memory. `CountMax` 100
  is never reached by a correct count and is where a count that went below zero
  would wrap to.
* `page_frames_small`: `MaxOrder` 3 and `DescOrder` 1, so that frames run out.
* `virtual_pages`: words of 8 bits with shifts of 4, 5 words in a chunk, 2 chunks.
  Rows of 4 cross a word boundary and a chunk boundary. The kernel's 11 pages end
  inside a word.
* `kernel_map`: tables of 2 entries, 3 static and 3 other tables, 6 frames and 5
  pages in the first chunk, so that frames run out also within a nested call;
  frames hold zeros or a leftover entry. Amounts 0 to 3, so that 0 and rounding up occur; sizes of 10 bits, and blocks up to order 4.
* `slab`: 3 caches (two sizes and the struct cache), 4 objects in a page, 2 pages;
  sizes below, at and above the largest block. One write is enough to
  run a free list through any pointer a caller holds, or a wild one.
* `kernel_objects`: no, one or two other processors; names of every length in words,
  from the empty one to one above the caches of all structures; 2 processes and 3 threads, more than the
  counterexample needs.
* `boot`: lines 0 (highest), 1 and 8 (the slave's), each raised twice. Nine machines:
  the emulator's; one with every APIC id in use and the local APIC off; one with as
  many overrides as the counter has values (`IsoLimit` 4 for 256) and a map of more
  entries than fit (`MapLimit` 2 for 64); unusable processors; no I/O APIC at 0; no
  APIC, with and without a MADT; no RSDP. Tags come in several orders.
* `terminal`: a screen of 3 by 3 and texts of every length up to two lines and one
  character, so that a text wraps twice and scrolls.
* `strings`: every memory of 6 bytes over a terminator, an upper-case and a lower-case
  letter; every pair of addresses, and every length up to the memory's.
* `png`: pictures from 1 x 1 to 9 x 9, chosen so that every pass is empty in some
  of them and present in others, plain and interlaced, gray, RGB and palette.
  Output buffers of 2 codes and input of 3 bytes make several IDAT chunks and several
  reads of one, also in pictures whose files suffer faults. Pieces of 1, 3 and 12 bytes, in any order, end everywhere in a chunk.
  `CacheMax` 4 for 1000, so that the limit is reached.

## The proofs

TLAPS checks these for every value of the constants that the named assumptions
allow (`tlapm <module>.tla`).

* `PageFramesProofs!LockIsExclusive` (`LockSpec => []MutualExclusion`) and
  `!LockIsAbstract` (`LockSpec => ImplementsLock`), of the lock under the page frames'
  critical sections, for any set of CPUs. The invariant is the types, `MutualExclusion` and `WordMatchesHolder` (the word is 1 exactly while
  somebody is inside): the lock word is needed because the
  `xchg` decides by it alone.
* `PageFramesProofs!OneCPUNoOverlap`, `!OneCPUBlockFits` and `!OneCPUDescriptorsKept`:
  for one CPU, `Spec => []NoOverlap`, `[]BlockFits` and `[]DescriptorsKept`, from
  `SizeAssumption` (block sizes double), `BootAssumption` (types) and
  `MemMapsAssumption` (the memory map is sorted and its entries are disjoint).
  `NoOverlap` is not inductive, since it says nothing of the lists. The invariant
  (`IInv`) says that every link leads to the head of a block,
  whatever stale removals did to the links; that heads do not overlap; that what
  was handed out is a head and not free; and that the block being loaded lies
  above everything loaded before. It does not need the lists to be well formed,
  which is why the proof goes through although counts and links may disagree.
  The other two need more (`FitInv`). Each descriptor has a level, the one list that it is
  put on in its life, and all that a removal ever joins has the same level
  (`LinksLevel`); a block that may still be selected has the order of its level or one more,
  and so has what a call returns (`OrdersFit`). For `DescriptorsKept`, a block whose own first
  frames hold its descriptors is alone on the lists when line 155 calls, so that the call
  returns that block (`CallFits`).
  One CPU is a hypothesis (`OneCPU`), not a convenience: with a second element in `CPUs`
  TLC finds two callers with the same block, since `free` is cleared behind the
  critical section (`page.c:298`).
* `VirtualPagesProofs!FirstChunkSafe`: `Spec => [](TypeOK /\ NoDoubleAlloc)` from
  `BitmapAssumption`. The difficulty is that the search passes over full words in
  the middle of a row. `PackedOK` excludes it: below any word in use every word
  has its sign bit set, so a row that reaches a full word has been ended by a used
  page before it. That in turn needs `SignsOK`, what the sign-extended mask does.
* `VirtualPagesProofs!SearchIsFirstFit`: `Spec => []FirstFit`, from the same
  assumption and invariant. The search passes over full words without ending its row, so
  the proof first shows that no full word lies within a row it counts in the first
  chunk (`NoFullWordInRow`). A row of n free pages at s then gives a run the search
  would stop at, beginning no later (`SomeRun`), and the search stops at
  the run with the least end, which exists by `HasLeast`.
* `KernelMapProofs!MappedAsAsked` and `!FramesArePrivate`: `Spec =>
  []TranslatesAsAsked` and `Spec => []DataIsPrivate`, from `MapAssumption` (the
  kernel image lies in RAM and in its static tables, boot code maps ranges outside
  the one that `VM_AllocatePages` gives out) and the two assumptions below. Neither is
  inductive. `TablesOK` says why the two ways to a table agree: a table in a frame has its pointer at a page that is itself mapped
  to that frame, which no caller has, and no frame is two tables. So an entry that
  is written changes one page only. `FreeOK` and `CallOK` say that free pages were never
  mapped and that the frames a call has yet to map are nobody's, and that
  nothing is mapped behind a directory entry that is present while its table is being made. What a new table's
  frame held does not matter, because no page of its range had been mapped.
* `KernelMapProofs!BlocksAlwaysFit`: `Spec => []BlocksFit`, from `SizeAssumption` (a page is
  a power of two, and the largest block has at most 2^32 bytes and less than `size_t` can
  count) and `AmountsAssumption` (nobody asks for more than the largest block). The part about
  sizes is `AllSizesFit`: `TopBit` finds the highest bit of size - 1, `ShiftsFill` shows that
  five shifts set every bit below one that is not above bit 31, `FullValue` that the
  sum of these bits is a power of two less one (`AlignIs`), and `OrderIs` that halving the largest
  block leads from a power of two to its exponent. `BlockHolds`, that the block has the frames
  which are then mapped, is what the two theorems above need of it.
* `SlabProofs!ListsMatchCounts` and `!OnlyFirstTwice`: `Spec => []ListMatchesCount` and
  `[]OnlyFirstRepeats`, from `SlabAssumption` (a page has at least two objects, there are
  at least two caches). The invariant adds that the objects of a page nobody has written
  into lead from one to the next, and that, before anybody writes at all, what callers hold
  lies before the head of its page's list (`Untouched`); that the page of a CPU slab was
  requested for its cache (`PageServesOneCache`), so that no other cache's list runs
  through it; and that counts stay below the size of a page while the processor runs (`Bounds`).
* `BootProofs!NoDeviceIsAnException`, `!EveryServiceEnds`, `!EveryProcessorIsListed` and
  `!EveryOverrideIsInForce`: `Spec => []IrqIsNoException`, `[]ServiceEnds`,
  `[]ProcessorsListed` and `[]OverridesInForce`, for every machine of
  `MachinesAssumption`, any number of interrupts, processors and tables, and from
  `AcpiAssumption` and `LinesAssumption` (16 lines, 24 inputs of an I/O APIC).
  `MachinesAssumption` is about firmware: a machine with an APIC has a MADT, whose
  entries have a length and name each processor once, and whose overrides replace
  interrupts of the ISA bus (`ProperMadt`); tables that are no MADT hold anything. The first two
  rest on which steps can run with interrupts on: the bases of the PICs are remapped
  and every gate is set by then, and what is in service is what the handler
  that runs was entered for. The others follow the walk over the MADT: what is
  recorded is what the entries passed so far give (`ProcsUpTo`, `IsosUpTo`), and
  of two overrides for one input the later one stands (`InForce`).
* `BootProofs!BootInfoIsKept`: `Spec => []BootInfoKept`, from `MachinesAssumption` (a
  boot loader gives at most one memory map and one framebuffer). The invariant (`ParseInv`)
  says what the cells hold after `idx` entries of tag number `tag`. The sum of usable memory is a
  recursive function, which `SumsExist` shows to be defined for every map.
* `TerminalProofs!ScreenIsTeletype`: `Spec => ShowsTheEnd`, the refinement of `Teletype`, for
  every screen and texts of every length, from `ScreenAssumption` (the screen has cells,
  texts are sequences of character codes, and a cell nobody wrote to is told from a cleared one).
  What has been written is a roll of paper, and `OnRoll` says that after n characters
  the screen shows the roll from some line k on, with the cursor behind character n.
  `CharGoesOn` and `NewLineGoesOn` keep that over `add_char` and `new_line`, `LoopOnRoll`
  goes over the characters by a least counterexample, and `AllIs` and `PageAfter`
  read the same screen as lines. The invariant between calls (`IInv`) is that the cursor is at
  the start of a row and that everything behind it is as boot left it, or blank.
* `PngPartsProofs!InfoAlwaysFits`: `HandlerSpec => []InfoFits(png)` from
  `LimitAssumption`, for any number of chunks in any order, any of them damaged, and
  for both readers' lists of names. `HandlerSpec` calls the handlers alone. `InfoFits` is not inductive: that a background or a
  histogram still fits rests on the palette not changing any more. `Order` adds that
  they are kept only behind PLTE, a second of which is an error, and that nothing is
  kept before IHDR, which sets the colour type.
* `PngProofs!InfoStaysSound`, `!BytesStayInOrder` and `!PiecesEnd`: `Spec =>
  []InfoSound`, `[]BytesInOrder` and `[]PieceEnds` of `PngCodec`, for every set of
  pictures, sizes of buffers and pieces, and a fault of any chunk, from `LimitAssumption`,
  `RatioAssumption` (a code stands for a byte at least) and `PictureAssumption` (types, and
  buffers and pieces of a byte at least). `BytesInOrder` is about the reader up to a first
  pause from `row_callback`, as `PausesAnywhere` is not true. The invariant (`CodecInv`) joins three parts.
  Of the writer (`WrOK`) it says that what it leaves behind is a sequence of chunks, which a
  fault keeps (`DamageKeeps`) whatever it hits. Of the sequential reader (`RdOK`),
  that its position lies in the file and that its record is sound. Of the progressive
  reader (`PsOK`), that it has failed, is done, was paused in `row_callback` (`Lost`), or is going on (`Going`), and then the
  saved bytes and the rest of the piece are a stretch of the file (`Piece`) that begins
  where the last call stopped. In between two calls the reader has either just been handed
  a piece (`Live`) or has put away what it could not use (`Settled`); `ProcessKeeps` goes
  from one to the other for each `png_process_some_data`, and shows on the way that the
  call used a byte, saved the rest, or failed, which is `PieceEnds`. The loops inside a call
  (over rows, over zlib's input) are recursive functions: `TurnsExist` shows that they
  are what their definitions say, and `Upwards` goes over their turns. `InfoSound` follows
  from the same lemmas on the handlers as `InfoAlwaysFits`, whichever reader calls them.

Only model-checked are:

* liveness (`SomeWaiterEnters`, `CallEnds`, both `BootEnds`, `PicServes`), since
  fairness and ENABLED are outside this prover's reach;
* `ListsSound`: it holds only as long as frames suffice for every table that
  is asked for, because `PM_MarkPagesUsed` leaves stale links behind, so its invariant
  would count how many blocks each list still has;
* `RowsInOrder`, `PictureComplete`, `PushMatchesRead` and `RoundTrip`: they say what whole
  computations give (every row of every pass, the picture put together again) or
  compare two complete runs of different readers, which would take an induction over the
  data of the picture and the codes of its stream together;
* `KernelObjects`, whose one property is refuted;
* `Strings`, which is built from RECURSIVE operators, with which the prover cannot work.

Induction over data is possible only where a least counterexample does:
the library's induction theorems take an operator as a parameter, which this prover
cannot instantiate. `HasLeast` (in `VirtualPagesProofs`, `BootProofs`,
`KernelMapProofs`, `TerminalProofs` and `PngPartsProofs`) gives that counterexample, from the library's theorem that
inclusion of finite sets is well founded; `SumsExist`, `StepsExist` and `PowsExist` show with
it that a recursive function is what its definition says.

`PieceEnds` says that `png_process_data` returns. It is an invariant about a variant:
every call of `png_process_some_data` lowers `buffer_size`. It assumes no fairness, and so
it is proved as the other invariants are.

## Not modelled

* Kernel: the GDT (constant tables and one `lgdt`), PCI and ports (pure I/O, PCI has
  no caller), the framebuffer (no caller), assembly that sets up the stack, and
  headers without code (devices, file system, LibC, LibOptik, applications).
* After `PIC_Disable` interrupts come through the local APIC, whose end-of-interrupt
  register nothing writes. A first interrupt is modelled, and that it blocks later
  ones of its priority is not: no statement of the code is about it.
* The bitmap's pointers inside the bitmap (see `VirtualPages`); the slab's second
  removal of a frame's descriptor (`slub.c:150`) over `PageFrames`; `VM_MarkPagesFree`,
  which no caller reaches; RAM that is not zero before `write_pages` (`page.c:80`),
  which would leave locks taken.
* `SMBIOS_Initialize` is modelled with its inverted test (`smbios.c:26`), but its
  result is not used and no property is about it.
* libpng: transformations (`pngrtran.c`, `pngwtran.c`, `pngtrans.c`) and filters, which
  are arithmetic on one row; getters; allocation and error plumbing; the simplified
  API, which calls what is modelled; the bytes of ancillary chunks; handling of
  unknown chunks set by the application; the vector code and `contrib/`. What
  follows a pause from a row callback, when `buffer_size` has wrapped (`pngpread.c:585`,
  `:611`), is left out, and so is an eXIf chunk with a bad byte-order mark, whose handler
  leaves the reader out of step with the file.
* libfmt: templates that turn values into text at compile time, with their tests. It
  has no state and nothing calls it.

Of the repository's lines most are libpng's remaining files and libfmt.
