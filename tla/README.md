# A TLA+ model of the XLD kernel

XLD is a small x86_64 kernel (`src/kernel/src`, about 5000 lines of C). It
boots through Limine, sets up a physical memory manager and a heap, loads its
descriptor tables, enables the keyboard interrupt, mounts a FAT32 disk under
`/mnt`, lists it and reads `/root/hello.txt`. These modules model the parts of
it that keep state and can get it wrong: memory management, the file system from
paths down to the registers of the disk, and the keyboard interrupt with the
console that it shares with the kernel.

## 1. Inventory

| Part | State | Operations | Uses |
| --- | --- | --- | --- |
| Physical memory manager, `pmm.c` | bitmap, frame cache, free counter | `pmm_init`, `pmalloc`, `pmalloc_aligned`, `pfree`, `pmm_set_region` | Limine memory map |
| Kernel heap, `kmalloc.c` | headers in memory, `free_list`, lock | `kmalloc_init`, `kmalloc`, `kcalloc`, `krealloc`, `kfree` | `pmalloc(4)` |
| Spinlock, `spinlock.h` | one bit | lock, unlock, trylock | |
| FAT32 driver, `fat32.c` | FAT and directories on disk, table of 64 open files | mount, open, read, write, close, mkdir | block device, heap |
| VFS adapter, `fat32_vfs.c` | handles on the heap | the driver table of the VFS | FAT32, heap |
| VFS, `vfs.c` | list of mounts, bind of `/`, open files | mount, umount, open, close, read, write, seek, opendir, ... | adapter, heap |
| FAT32 listing, `fat32_ls.c` | none | recursive listing | FAT32 |
| ATA PIO, `ata_pio.c` | the drive found | init, read, write, flush | ports |
| PS/2, `ps2.c` | shift and prefix flags | init, handler of IRQ 1 | console |
| PIC, IDT, GDT, stubs | masks, tables | remap, enable, disable, end of interrupt | ports |
| Console, `klog.c`, `graphics.c`, `framebuffer.c`, `serial.c` | cursor | `printk`, `klog` | framebuffer |
| String library, `string.h` | none | `memcpy`, `strncpy`, ... | |
| Boot, `kernel.c` | none | `kmain`, `panic` | all |

How they interact: `kmain` calls everything once, in one thread. The heap is
the only client of the page allocator and never gives a page back. The file
system uses the heap for mounts and open files, and the disk one sector at a
time. Only the keyboard handler runs concurrently; it prints and touches
neither memory nor files, so the console is the one thing that two flows of
control share. The locks of page allocator, heap and FAT32 announce more
threads than there are. Beside the kernel there are actors of their own: the
drive, with its write cache; the keyboard, its controller and the interrupt
controller; the serial port.

What makes each part correct, and what is hard about it:

* *Page allocator*: a page has one owner; reserved pages have none; the counter
  counts. Hard: bitmap and frame cache are two records of the same fact; the
  scan jumps over words and runs; metadata does not end on a page boundary.
* *Heap*: blocks do not overlap, nothing is lost, the free list is exactly the
  free blocks, calls return. Hard: splitting and merging by address arithmetic,
  a list that is sorted except for new pools, growth outside of the lock.
* *FAT32*: no cluster in two chains, nothing refers to a free cluster, names
  are unique, the cursor of a file agrees with its position. Hard: a call is
  several sector writes, each of which may fail or be the last before power is
  lost; read errors look like ends of chains and like missing names.
* *VFS*: a path goes to the longest mount, error paths release what they took,
  positions agree with the driver's, buffers hold. Hard: every way to write a
  path, failures after each allocation, mounts in any order, files that outlive
  their mount.
* *ATA*: a call moves the sectors it names, what was flushed survives, every wait
  ends. Hard: a timeout does not mean that nothing happened, and the command that
  timed out is still at work when the next one comes.
* *Keyboard and console*: no byte is left in the controller, interrupts have a
  gate, the cursor stays on the screen. Hard: keys come at any moment of the
  boot, interrupts are edges that can be forgotten, and the handler interrupts
  the printing of the kernel between any two instructions.

`PROJECT.json` lists the hazards line by line.

## 2. Modules

| Module | Models | Extends |
| --- | --- | --- |
| `PageRuns` | runs of pages, first fit: the reference for the scans | |
| `Pmm` | the page allocator after `pmm_init`, an action per call and outcome | `PageRuns` |
| `PmmScan` | the loops of `find_free_run` | `PageRuns` |
| `PmmAlignedScan` | the loops of `pmalloc_aligned`, beside those of `PmmScan` | `PmmScan` |
| `PmmInit` | `pmm_init`, an action per numbered part | |
| `Kmalloc` | the heap, loops step by step, any number of threads | |
| `Heap` | what an allocator promises: the abstract specification of `Kmalloc` | |
| `Fat32` | open, read, write, seek, close, mkdir, a step per sector write | |
| `Fat32Ls` | `fat32_ls.c`, an entry per step, beside the actions of `Fat32` | `Fat32` |
| `Fat32Mount` | `fat32_mount` | |
| `Strings` | the functions of `string.h` that write, on buffers | |
| `Fat32Names` | splitting of paths, 8.3 names and back | `Strings` |
| `Vfs` | `vfs.c` over its adapter, a step per thing that can fail | `Fat32Names` |
| `BlockDevice` | what a `blockdev_t` promises: the abstract specification of `AtaPio` | |
| `AtaPio` | `ata_pio.c` and, external, the drive | |
| `Console` | `klog.c`, the cursor of `graphics.c`, `serial.c` | |
| `Keyboard` | `ps2.c`, `pic.c`, the gates of `idt.c`, `interrupts.asm`, the boot order of `kmain`; external: the hardware | `Console` |
| `PmmProofs`, `PmmScanProofs`, `KmallocProofs`, `VfsProofs` | theorems | the module they are about |
| `MC...` | instances for TLC | |

Definitions that begin with "Wrong on purpose" are variants of the definition
below them with a plausible mistake. No specification uses them; each shows, put
in place of the right one, that some property notices the mistake.

**`Pmm`.** `used` is the set of pages whose bit is 1. An operation holds
`pmm_lock` from beginning to end, so it is one action. `find_free_run` is its
result, `FirstFit`; `PmmScan` has the loops and shows that they compute it.
`live[o]` is the run of pages that pointer `o` stands for; page 0 has the
address 0, which its caller reads as NULL, and is lost. `free_pages` wraps as a
`uint64_t`. Callers free only what they hold, perhaps in parts.

**`PmmInit`.** Addresses are bytes, with small pages. `map0` is the memory map,
`mmap` the map whose chosen entry loses its first `needed_bytes`. `Panic` is the
call of `panic`.

**`Kmalloc`.** `blocks` are the addresses of headers in force, `size`, `next`
and `used` their fields. `Lock`, `ScanOn`, `TakeSplit`, `TakeWhole` and
`ScanFails` are `kmalloc`; `Grow`, `Publish` and `GrowFails` are `add_pool`,
which runs outside of the lock, the read of `free_list` and its write apart;
`FreeLock`, `FreeScanOn` and `Insert` are `kfree`. `krealloc` is a `kmalloc`
with `old` set, then a `kfree`. Requests are rounded in `size_t` arithmetic.

**`Fat32`.** `fat` and `dirent` are on the disk, `open_files` and the call in
progress (`pc`, `call`) are lost by `Restart`. A sector of file data is one
unit, `B` of them a cluster. `Allocate`, `Link` and `Undo` are the writes of
`allocate_cluster` and of the error paths. A step that uses the disk may fail;
a write may be reported as failed and yet be applied, as `ata_pio_write` does
when it times out after the transfer. `faults` is how often the disk will yet
fail, and `mishaps` records the events after which a property cannot be expected:

* `fault`: a sector could not be read or written;
* `torn`: a write that was applied and reported as failed;
* `full`: the disk has been full, so a file may stand at the end of a cluster;
* `overrun`: a write went to the cluster that follows on the disk;
* `lost`: a restart within a call, or a file closed whose cluster no directory
  entry names;
* `loop`: from the beginning, a directory of the disk leads back to one above.

**`Fat32Ls`.** A listing is one more call of `Fat32`: `call.stack` are the frames
of the recursion, `call.listed` the entries shown. `Restart`, and disks that any
sequence of calls, faults and restarts has left, come from `Fat32`.

**`Strings`, `Fat32Names`.** A buffer is a sequence that grows when something is
written behind its end, so that overrunning it is visible; `strncpy` writes one
byte more than its limit, as the code does. Names have 2 + 2 characters in the
run instead of 8 + 3.

**`Vfs`.** Paths are sequences of characters, with `mnt` for the three letters
and `ctl` for one that cannot be printed; `normalize_path`, `translate_path`,
`find_mount_for_real_path` and `to_8_3` are operators named after the functions.
The driver's answers are choices: which files exist, and how far a read gets.
`heap` holds the blocks of this layer. `vfs_umount` leaves the files open that
are on the mount: `stale` are the freed mounts that still hold what they held,
and `Allocate` may take them away.

**`AtaPio`.** `dev` is the drive: its phase (busy, offering data, failed, idle),
command and registers; `media` is what it reads back, `platter` what survives
without power. Each wait of the driver is a value of `pc`, `polls` counts its
turns; the limits 10000 and 30000 become `POLLS` and `LONG_POLLS`. While it is
busy or offers data the drive takes neither registers nor commands. `held` are
the values of a sector since the last flush that succeeded.

**`Console`, `Keyboard`.** The kernel's `graphics_putchar` is a step per access of
the cursor; `x += w` is a load and a store, which covers a compiler that makes
one instruction of it. The handler is not interrupted, so each of its characters
is one step. `out` are the bytes that the controller has yet to show, `latch`,
`mask` and `isr` the registers of the interrupt controller; an edge is latched
when a byte is shown and forgotten by `pic_remap`. `boot` is the place in
`BootOrder`, the order of the calls of `kmain`. The busy waits of `ps2_init` for
room in the input buffer always end and are left out; the wait for its answer is
the guard of `ReadConfig`.

## 3. Runs

Passing runs (sizes are distinct states):

* `pmm` (141122). Six pages, two of them reserved, a cache of two frames, three
  interchangeable callers, sizes 1 and 2, alignments 2 and 3. Enough for the
  cache to be filled and overflow, for a cached page to be shared, for partial
  frees, and for counters to wrap (the counter has one value more than pages).
  Once a frame has been cached, exclusive ownership and exact counting cannot
  hold (section 5); they are stated up to then. That reserved pages stay reserved
  holds always.
* `pmm_scans` (82970). Every bitmap of seven pages in words of three bits, both
  values of the two stray bits, requests 0 to 4, alignments 0 to 3: runs that
  cross words, runs at the end, full words and partly used last words all occur.
* `pmm_init` (472). Every typing of up to five entries; the bitmap fills a page
  exactly in one case and not in the others, and the kernel range overlaps
  usable entries and the metadata.
* `kmalloc` (15348). One thread, two adjacent pools of 80 bytes, one taken at
  boot and one on demand, with the code's header size and alignment; requests
  of 0, 1, 40 and 100 bytes and two arrays. Blocks are split, merged on both
  sides and across pools, reallocated in place and by copying; a request may be
  larger than any block. `ImplementsHeap` is the refinement of `Heap`.
* `fat32` (426896). Four clusters and one entry beyond the volume, clusters of
  two sectors, two open files, writes of three sectors, nested directories. Six
  disks to begin with: empty; a directory; a file of two clusters behind a deleted
  entry; no free cluster; a full root with an empty file; directories in a loop.
  The disk fails up to twice, depending on the disk, restarts come at any point.
  Listings go two directories deep, so that the limit is met on the disk with the
  loop. The properties say which mishaps they exclude.
* `vfs` (178635). Mounts at `/`, `/mnt`, `/mnt/x` and a path with superfluous
  slashes, two at a time; all paths of up to three characters and some longer
  ones, with dots, blanks and unprintable characters, with a buffer of seven and
  names of 2 + 2, so that some do not fit; three files, a driver table of two.
* `ata_pio` (367635). Nine sectors, addresses of four one-bit registers, so that
  each register matters; the last two sectors with counts 0 to 3, among them one
  behind the end and the one that is written as 0; two writes of two sectors; two
  places for a drive. Waits of one and two turns suffice, because what counts is
  whether the drive is done before the last turn or after. Between those turns
  the drive may do anything, or lose power.
* `keyboard` (329985). A screen of two by two characters, the last row cut, so
  that both edges are met; one `klog` of three characters; two key events of any
  of three kinds at any moment of the boot; IRQ1 enabled by the firmware, or not.
  Two events make a press and its release, or two bytes that wait at once.

Deadlock is checked in all of them: an operation that returns stutters at its
end in the modules that model one call, `kmain` ends in its `hlt` loop, and the
others always offer a call.

*Symmetry* is used for callers in `pmm`, and for the addresses of mounts and
files in `vfs`; those runs check safety only.

*Fairness.* `PmmScan` and `PmmAlignedScan`: the loop that runs goes on. `Kmalloc`
(`FairSpec`): a thread inside a call goes on executing; there is no fairness
between threads competing for a lock, and the run has one thread, as the
kernel has. `Fat32`: the call in progress goes on; whether the disk fails, the
machine restarts or another call comes is left open. `Fat32Ls`: the same, the
listing included. `AtaPio`: the driver goes on, nothing is asked of the drive. The
code of these runs to the end of a call without waiting for anybody, or waits a
limited time, so nothing stronger is assumed. `Keyboard`: the processor goes on
and takes interrupts, the serial port sends, the controller answers the command
0x20 and the keyboard the command 0xF4; that is what hardware owes, and
`ps2_init` and `serial_write_char` wait for it without limit. Nobody has to type.

Runs that end in a violation show what the code does where a comment or a
caller says something else:

* `pmm_frame_cache`: `pfree` of a page puts it on the cache of free frames and
  frees it in the bitmap, so it is handed out twice.
* `pmm_init_metadata`: the end of the frame cache is rounded down; the page with
  its last entries is free.
* `kmalloc_no_memory`: without memory, `kmalloc` never returns.
* `fat32_mount`: on a partitioned disk the FAT is looked for at the beginning of
  the disk. The raw image of `scripts/disk.sh` is not affected.

## 4. Proofs

For every value of the constants that the named assumptions admit:

* `PmmProofs`. `PmmTypeCorrect` and `ReservedPagesStayReserved` follow from
  `SafeInv`, the two together: reserved pages are never free, so no scan finds
  them, hence no owner holds them, hence no `pfree` pushes or frees them.
  `PagesAreExclusive` and `PagesAreCounted` need that held pages are marked and
  that the counter is exact (`WholeInv`), which hold until a frame is cached:
  the inductive invariant is `PmmInv`, `SafeInv` and, while `pushed` is 0,
  `WholeInv`. Assumed: `PmmAssumption` (the counter can hold the number of
  pages, sizes are not 0), `NullIsNoRun`.
* `PmmScanProofs`. `FindFreeRunIsFirstFit`: `ScanInv` says at each point of the
  loops that no free run of the size asked for starts below the bit that is
  looked at. The step that skips a short run uses that such a run ends at a
  used bit or at the last page. Assumed: a word has a bit, `ScanAssumption`.
* `KmallocProofs`. `KmallocTypeCorrect`, `BlocksNeverOverlap`,
  `FreeListIsSound` and `FreeListIsComplete` follow from one invariant, `Inv`:
  types, who is inside the lock (`LockInv`), pools not yet taken lie behind all
  blocks (`BelowNewPools`), blocks are disjoint, the free list is a chain
  through exactly the free blocks (`LinkInv`), and the cursors of the loops
  point into it (`CursorInv`). `Chain` describes a linked list without
  recursion: no smaller set contains the head and is closed under links. The
  theorems take the hypothesis `Guarded`: there is one thread, or all pools are
  taken by `kmalloc_init`. The kernel of today has one thread. With two, `add_pool`
  reads the head of the free list outside of the lock and overwrites it later, and
  a block that was handed out in between is on the list again. Assumed:
  `KmallocAssumption` (`pmalloc` returns pools at rising, disjoint addresses).
* `VfsProofs`. `ResourcesAreOwned`, `PositionsAgree` and `RootIsBoundToMnt`, for
  any number of mounts, files, paths and sizes. `ResourcesOwned` is about the
  states between calls; the inductive invariant `IInv` says what holds within
  them too: the heap is what mounts, files and the call in progress own
  (`BlocksInv`), the same of the driver's table (`SlotsInv`), no mount is listed
  twice (`MountsInv`), the call in progress owns what its step implies
  (`CallInv`), and `root_bind` is the mount whose path is `/mnt` (`BoundToMnt`).
  Paths are uninterpreted: what `normalize_path` computes does not matter here.
  Assumed: `VfsAssumption` (`NULL` is no address, among others).

Only model-checked: everything about `PmmInit`, `PmmAlignedScan`, `Fat32`,
`Fat32Ls`, `AtaPio`, `Keyboard` and `Console`; of `Vfs` what happens to paths,
which are folds over sequences and would need induction over data; of `Kmalloc`
that no byte is lost, the sizes with the copy of `krealloc`, and the refinement of
`Heap`; all liveness, which is beyond the prover.

## 5. Limits

* After a frame has been cached the page allocator really shares pages; the
  model goes on, but only `TypeOK` and `ReservedNeverHandedOut` are claimed.
* `Kmalloc` sizes stay far below the size of `size_t`: no product or rounding
  wraps in the run. Callers write inside their blocks.
* `Fat32`: data is left out, so that a file's size on the disk, which
  `fat32_close` never updates, matters only as a bound; the search for a free
  cluster ends with the FAT (the code reads on), the second FAT is never written
  by the code and left out, no directory is opened for writing, no call that
  writes begins after a torn or overrunning write, and a FAT with a cycle is not
  among the initial disks. The volume label and the names that begin with a dot,
  which the listing hides, are `UNNAMED`.
* `Vfs`: a file whose mount is gone is used only while the freed block holds what
  it held or a new mount; paths that are cut off are not claimed to reach the
  mount they name.
* `AtaPio`: a status is valid as soon as the command is written (drives are given
  400 ns); a drive reads and writes whole sectors. A call that begins while the
  drive is still at work on an earlier one may read junk or write into the
  earlier command's sectors; the model has this behaviour, and
  `ImplementsBlockDevice` does not claim the contrary.
* `Keyboard`: a key that is taken for the controller's configuration really puts a
  wrong one in force; `TranslationKept` excludes it. `INT_MIN` is printed wrongly;
  `NumbersShown` excludes it.

*Not modelled.*

* GDT, exception handlers, `panic`: written or entered once, no state.
* Pixels and font, the wording of messages: pure output.
* `memset`, `memcpy`, `memmove`, `memcmp`: loops over words without state; callers
  see their plain meaning.
* `vfs_stat` and what is built on it, `vfs_sync`, `vfs_sync_all`, `statfs`: they
  keep no state. `rmdir`, `unlink`, `rename`, `truncate` and `readdir` of the
  adapter return `VFS_ERR_NOTSUPP`.
* `kmain` behind the mount: calls of modelled operations in one fixed order, where
  the modules allow every order. That it tests the result of `ata_pio_init`, which
  `ata_pio.h` declares as `int` and `ata_pio.c` defines as `void`, only chooses a
  log line.
* Code without a caller: `spinlock_trylock`, `serial_init`, `serial_write`,
  `disable_irq`, `pic_disable`, `strstr`, `strrchr`, `memchr`, `bzero`.

## 6. Plan

What is left, in this order:

1. A composition of `Vfs` and `Fat32` over one table of open files, and of `Fat32`
   over `BlockDevice`, with the contents of sectors.
2. Proofs: `NoByteLost` and the refinement of `Heap`; `NoCrossLink` and
   `NoDangling` of `Fat32`; `FlushedSurvives` of `AtaPio`; `FreePagesExact` of
   `PmmInit`; first fit of `PmmAlignedScan`.
3. An abstract page allocator that `Pmm` implements until a frame is cached.
