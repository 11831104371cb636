# A TLA+ verification project for FerrisFileSystem

FerrisFileSystem (FFS) is a small Unix-like file system in Rust: a block device,
an LRU write-back cache over it, an on-disk format (V1: superblock, two bitmaps,
inode table, data blocks with directory records) and a FUSE front end. This
directory models its core in TLA+, checks small instances with TLC and proves
the central results about the cache, the allocator, the format's bookkeeping and
name space, directories and their listings, file contents, path resolution and the
region layout with TLAPS for every size.

Source paths below are relative to the repository root (`src/...`, `docs/...`).

## 1. Inventory

| Part | State | Operations | Interacts with |
|---|---|---|---|
| Block cache, `src/device/cached_device.rs` | map address -> block (data, dirty, two links), count, lru, mru | `read_block`, `write_block`, `flush`, `save`, `resize`, drop | calls the backing device; called for every block access |
| Backing devices, `src/device/{memory,file}_device.rs` | the blocks, their number | `read_block`, `write_block`, `resize`, `flush`, save/load | called by the cache or directly |
| Bitmap allocator, `src/formats/v1/bitmap_allocator.rs` | last allocation; bits on the device | `find_free`, `allocate`, `deallocate`, `count_allocated`, `is_allocated` | one for inodes, one for data blocks |
| Format V1, `src/formats/v1/format.rs` | superblock with cached free counts, open files | `format`, `mount`, `create*`, `create_hardlink`, `delete*`, `open_file`, `close_file`, `read`, `write`, `seek`, `truncate`, `edit_symlink` | uses allocators, inode table, directories |
| Directories, `src/formats/v1/directory{,_handler}.rs` | variable-length records in the blocks of an inode | `find_entry`, `can_fit`, `add_entry_here`, `add_entry_grow`, `free_region`, path resolution | called by the format |
| Inode table, `src/formats/v1/inode{,_handler}.rs` | inodes; direct, indirect, double indirect block pointers | `read_inode`, `write_inode`, `add_block(s)`, `get_block` | called by format and directories |
| Integrity checker, `format.rs`, `integrity_checker_errors.rs` | bitmaps of visited inodes and blocks, for one call | `check_integrity` | reads the whole image |
| FUSE handlers, `src/fuse/formats/fuse_format_v1.rs` | none of their own | `link`, `rename`, `unlink`, `rmdir`, `mknod`, `mkdir`, `read`, `write`, `setattr`, `opendir`, `readdir`, ... | compose format operations |
| FUSE dispatcher, `src/fuse/fuse_ffs.rs` | one mutex | one call per request | serialises the handlers |
| FFS handle, `src/ffs.rs` | device + format | forwards | flushes on drop |

**What is hard here.** Calls never overlap (`&mut self`, and one mutex in the
FUSE dispatcher), so there is no concurrency inside the format: each model
action is a whole call. The difficulties are of other kinds:

* *long histories*: the recency list, the tiling of directory blocks, link
  counters and bitmaps are each maintained incrementally, and an error shows up
  many legal calls after the step that made it;
* *partial failure*: almost every call updates several structures and returns
  early with `?` in the middle; `rename` is a link followed by an unlink;
* *boundaries*: a split that leaves exactly the minimal free region, a bitmap
  search that wraps, a cached counter that was "corrected", a directory at its
  maximal size;
* *stale state*: cached blocks after `resize`, inode indices in open handles,
  allocator positions and counts after a remount;
* *two levels of indirection*: block addresses behind pointer blocks whose number
  is computed in one place and used up in another; links that lead to links;
* *process death*: dirty blocks are written back by eviction, flush and drop only,
  and a call is several block writes without a journal;
* *state kept by the caller*: the offset of a directory listing, used after the
  directory has changed.

**What makes each part correct.** Cache: a read returns the last write, an
acknowledged write is lost by a restart only, the capacity is respected, the
victim is the oldest, nothing panics. Directory blocks: they can be read to the
end after any history, free regions are merged, other records stay where they
are. Format: no block has two owners, every entry names a live inode of its
type, link counters equal the number of entries, nothing is unreachable, the
cached counts are exact, and the name space behaves as a set of links. Files: each
is an array of bytes, whatever blocks it is made of. Path resolution: it goes where
putting the target in the place of the link goes, and it ends. The integrity
checker: what it passes is sound, and what it reports is known.

## 2. Modules

| Module | Models |
|---|---|
| `WriteBackStore` | abstract: what a write-back cache promises its callers |
| `CachedDevice` | the cache and the device below it; implements `WriteBackStore` |
| `CachedDeviceProofs` | theorems and proofs about `CachedDevice`: its data, the refinement, the recency list |
| `BitmapAllocator` | the allocator as operators on (bits, last allocation) |
| `BitmapAllocatorProofs` | what `find_free` returns |
| `DirectoryBlock` | the records of one directory, byte layout included |
| `Namespace` | abstract: names, nodes and links |
| `FormatV1` | the operations on names and allocation, composed of two `BitmapAllocator` instances, inodes and directories; implements `Namespace` |
| `FormatV1Proofs` | theorems and proofs about `FormatV1`: ownership, links, counters |
| `FormatV1Namespace` | theorems and proofs about `FormatV1`: entries, the refinement of `Namespace`, and what the integrity checker passes |
| `IntegrityChecker` | `check_integrity` as the set of errors it reports in a state of `FormatV1` |
| `MCDevices` | three devices for `IntegrityChecker`, one of which a behaviour of the run `format_devices` is about |
| `FormatCrash` | the calls of `FormatV1` as sequences of block writes, and the death of the process between them |
| `DirectoryListing` | `opendir` and `readdir` over a `DirectoryBlock` that changes meanwhile |
| `DirectoryProofs` | theorems and proofs about `DirectoryBlock` and `DirectoryListing` |
| `INodeBlocks` | direct, indirect and double indirect addressing, as operators; used by `FormatV1` and `FileIO` |
| `FlatFile` | abstract: files as arrays of bytes |
| `FileIO` | the calls on open files with bytes, sizes, pointer blocks and allocation; implements `FlatFile` |
| `FileIOProofs` | theorems and proofs about `FileIO`: pointers, storage, and the refinement of `FlatFile` |
| `PathWalk` | abstract: resolving a path by textual substitution |
| `Resolve`, `MCResolve` | the recursion of `_resolve`, and `edit_symlink`; implements `PathWalk`. The second is its instance for TLC |
| `ResolveProofs` | theorems and proofs about `Resolve`: positions, and the refinement of `PathWalk` |
| `FormatLayout` | the regions `format()` lays out, and theorems about them |

**CachedDevice.** `cache` is the HashMap, `lru`/`mru`/`cached_count` the fields
of the same names; the list is threaded through the entries by `more_recent` and
`less_recent` as in the code. Each `unwrap` is an explicit condition
(`HitLinksValid`, `MissLinksValid`, the two in `InsertEvict`), whose failure is
the action `HitPanics` or `InsertPanics`; after it only drop runs (unwinding).
A panicked cache keeps its old links, because drop never follows them. `insert`
has four outcomes: room, eviction, failed write-back (early return after
`miss_update` has already moved the mru), panic. `flush` walks the HashMap in
any order and stops at the first failure. The device refuses accesses past its
end; with `MayFail` it can also fail on an in-range block, and a failed write
may leave anything in that block (`write_all` of `FileDevice`). `Restart` is the
death of the process at any point between calls followed by reopening the
device, whose size is then counted from the file (`FileCounts`). It also follows
a drop whose write-back failed, and then forgives the blocks that were lost: the
code swallows that error (`cached_device.rs:243`), and no document promises more. Block contents are abstract values; `older` is a history variable, the
true order of last accesses, that no action reads.

**DirectoryBlock.** A block maps offsets (in 4-byte units, the alignment of every
record) to the header written there; offsets without a header are zeros, which
parse as a record of length 0. `Visited` follows `record_len` as `iterate` does
and stops where the code fails: length 0, a record past the end, or a header
that `deserialize` cannot read because it needs 9 bytes. `add` is
`can_fit` followed by `add_entry_here` or `add_entry_grow`, `remove` is
`find_entry` followed by `free_region` with its merging on both sides.

**FormatV1.** `ibits`/`dbits` are the bitmaps, `ilast`/`dlast` the allocators'
positions, `sb` and `saved` the superblock in memory and on the device, `inode`
the table (stale contents of free slots included: deletion only clears the bit),
`content` the records of directory blocks, `open` the handle table. Records have
one length here: a block is `EntriesPerBlock` slots. Every error path that has
already changed something is a disjunct (`InodesFull`, `DataFull`, the failing
`add_block` of a directory at its maximal size, the data-full path of `write`,
the half-done `rename`); an error that changes nothing is a stuttering step.
The actions are the calls of the path interface (`create`, `create_hardlink`,
`delete`, `open_file`, `close_file`, `write`, `mount`) and the FUSE handlers
(`mknod`, `mkdir`, `symlink`, `create_open` for `create`, `link`, `unlink`, `rmdir`,
`rename`), which are whole handlers over `create_child`, `create_child_hardlink`
and `delete_child`. Names in `PaddedNames` are exactly 64 bytes long: only for those does the code's
collision test (`Collides`) find an existing entry.

**IntegrityChecker.** The checker only reads, so it is an operator: `DirVisits`
are the directories its recursion is called for, found by the types in the
*entries* as in the code, `Visits` the sequence of blocks it marks, `Twice` the
ones it meets again, `Unreached` the search that is skipped when the numbers of
allocated and visited blocks agree. It reports some things that are no damage
(`FalseAlarms`): symbolic links (it expects a regular file), the data of files with
two names (visited twice), pointer blocks (visited for nobody). No document asks for
these reports: a checker without them satisfies `CheckerQuiet` as well, and that the
code gives them is a disagreement, shown by the run `checker_reports`. `Undamaged` is what an empty report stands for.

**FormatCrash.** A step of `FormatV1` is taken as a whole and its block writes are
remembered in the order of the code (`CreateWrites`, `HardlinkWrites`,
`DeleteWrites`, `WriteWrites`) until the call returns. `Crash` keeps a prefix of
them, as on a plain device; `CrashCached` keeps any subset, as below a write-back
cache that was flushed between calls. `mount` reads what is left. A slot of the
inode table whose bit is set but whose inode was not written holds what its last
owner left there.

**FileIO** keeps, per data block, its bytes and its contents read as a table of
addresses. `WriteAt` is the whole of `write`: the pointer blocks, the data blocks
(fewer are accepted), zeroing, `add_blocks`, the copying loop, the new size, each
failure after the changes that precede it. `setattr` changes the size alone, as the
handler does. `FlatFile`, which it implements, says what a caller may rely on: a call
reads and changes the bytes it names, in the file it names. It leaves open what becomes
of bytes past the end of a file, and whether a size may exceed the storage, so that it
holds of the code and would hold of code that does there what the documents say. The
documents promise zeros and a size within the storage, and the code keeps neither
promise: the first is `HolesZero`, for the second see section 5. `short` is a history variable: some write came up short.

**Resolve.** An activation of `_resolve` is a record of its local variables, and the
stack of them is a variable; `component` is a round of its loop, `return_symlink`
what the caller takes over from the activation that followed a link, `return_call`
the end of the outermost one, where `edit_symlink` changes the link it found. Paths
are sequences of components as `Path::components` yields them.

**DirectoryListing.** `offset` is what the next `readdir` gets; `seen`, `twice`,
`kept` and `churn` are history variables about the listing under way.

**FormatLayout** has the sizes `format()` computes, with the `u32` product that
overflows at 4 GiB, the starts `Superblock::new` derives, and the blocks the two
zeroing loops write.

`Risky` lists calls the code accepts, and that lead to states the documents
exclude; a run states which of them it allows. They are: creating a name that
exists (`reuse_name`), creating below a path that is a regular file
(`file_parent`), deleting an open file (`delete_open`), FUSE links to symbolic
links (`link_symlink`), FUSE renames of directories and of symbolic links
(`rename_directory`, `rename_symlink`). `format_devices` allows all but
`file_parent` and `delete_open`, and no run allows those two. With `file_parent`,
`LinksExact` and `NoOrphans` fail (section 5). After `delete_open` a handle can come to
write into a directory that took over the inode, and the bytes of a block are not
part of `FormatV1`, so a run would say nothing about that.

## 3. Runs

| Run | Question | Outcome |
|---|---|---|
| `cache_lru` | capacity 2, device that does not fail and may grow: is the list the true recency order (`RecencyList`), does eviction take the oldest (`EvictsOldest`), does no unwrap fail (`NoPanic`)? | holds |
| `cache_write_back` | failing device, writes past its end, growth that brings them into range, panics, restarts: does the cache stay `Coherent` and implement `WriteBackStore` (`ImplementsStore`), and does an acknowledged write never leave it but for the device (`DirtyNotLost`)? | holds |
| `cache_larger_panic` | `NoPanic` with capacity 3 | violated |
| `directory_records` | insertions and removals in any order: `Tiles`, `NoAdjacentFree`, `OthersKept`; and a listing meanwhile: does it return every name that stays unless something is removed (`ListingComplete`), and none twice unless something is inserted (`ListingOnce`)? | holds |
| `directory_hole` | `Tiles` with 256-byte blocks and names of 44 bytes | violated |
| `format_ops` | all operations, pointer blocks, an open file, remounts: `BlockOwnership`, `EntriesValid`, `LinksExact`, `NoOrphans`, `CountersExact`, `ImplementsNamespace`; does the checker report nothing beyond its known false alarms (`CheckerQuiet`), and is a state it passes sound (`CheckerSound`)? | holds |
| `format_devices` | a *tight* device: full regions, directories and files at their maximal size, one-bit bitmap bytes (so that the search misses free bits), wrapping counters. A *roomy* one with FUSE links and renames of every type, half-done renames included, which leave entries of the wrong type. A *short* one where names are created twice as well. On each: `TypeOK`, `BlockOwnership`, `LinksExact`, and is a state the checker passes sound (`CheckerSound`)? | holds |
| `file_io` | two files on one device that fills up: `PointersExact`, `StorageAccounted`, `ImplementsFlatFile` | holds |
| `resolve` | links to links, loops, relative targets in other directories, `edit_symlink` between calls: `LocationNamesTarget`, `ImplementsWalk`, `Terminates` | holds |
| `crash` | death inside `create` and `write` on a plain device: is everything that can be reached still sound, whatever is done afterwards (`LeaksOnly`)? After any death, cached or not, is an image that passes the checker undamaged (`PassedUndamaged`)? | holds |
| `checker_reports` | is what the checker reports as mismatched, as unreachable and as referenced twice really so (`ReportsTrue`)? | violated |
| `file_holes` | do holes read as zeros (`HolesZero`)? | violated |

What the halves of the checker results say together: in a sound file system the
checker reports nothing but its false alarms, and a report without errors can be
trusted, link counters and the targets of `.` and `..` excepted, which it does not
look at. After a crash there is one more exception: the type of an entry that is not
a directory (section 5). `LeaksOnly` leaves out `delete`
and `create_hardlink` on purpose: a death between their writes does leave a name
that leads to a free inode, or a counter that is too small. There the checker is
what the caller has, and `PassedUndamaged` covers those states.

### Bounds, and why they are enough

* Cache: 3 or 4 addresses against a capacity of 2, so that every access pattern
  of hit on the mru, hit on the lru, miss with and without eviction occurs, and
  two values per block. In `cache_write_back` one address is past the end of the
  device until it grows. No run shrinks the device: that breaks `Coherent`, and what
  still holds then is the theorem `DirtyNeverLost`, for every resizing.
  Capacity 2 is the smallest `new()` allows, and the largest for which the list
  is right: see `cache_larger_panic`. The theorems cover all other sizes.
* Directory: blocks of 64 bytes, two short and two long names (records of 3 and 6
  units), at most two blocks. `.` and `..` leave 10 units, so regions are split with
  and without remainder, merged with either side and with both, and a second block
  is opened. With these lengths no remainder is exactly two units, which is the
  case `directory_hole` is about, in the real geometry of 256 bytes. A reply holds
  one or two entries (`MaxReply`), so a listing takes several calls with changes
  before, at and behind its place.
* Format: two inodes besides the root, 1 to 3 data blocks besides the root's, two
  names, one handle (none on the roomy and the short device, which are about names
  only). Two names and two inodes are enough for a directory with a child, two links
  to a file, and a rename between two directories; inodes and blocks run out within
  a few calls, so all of the full paths are taken. A file that gets less than it
  asked for occurs in `format_ops` (`MaxGrow = 2`), directories that cannot grow on
  the tight device (`MaxBlocks = 1`, and room for one name: there the name space is
  small and the regions are what matters; elsewhere directories hold both names).
  The two names of `format_devices` are interchangeable (symmetry). In `format_ops`
  `Direct = 1` and `Indirect = 1` make a file of three blocks need two
  levels of pointers. `ByteBits = 8` makes the whole bitmap one byte, where the
  search is complete; `ByteBits = 1` shows what happens when it is not. The bitmaps
  are one block (`IMapBlocks`, `DMapBlocks`, and `MapBlocks` for files). `U32` is
  the wrap-around of the counters, as small as the regions allow.
* Files: one direct address, two per pointer block, at most 6 blocks of 2 bytes per
  file and 11 blocks for both, so a file reaches the second child of its double
  indirect block, the device is full before both are at their limit, and a write of
  4 bytes crosses blocks and levels. Offsets 0 and 9 overwrite from the start and
  leave a hole. Files are interchangeable (symmetry). One handle is enough: a call
  uses one, and what a second one could see is the file itself.
* Resolution: one subdirectory, a link beside it and one in it, 38 targets, and a
  limit of 3 in place of 40, so that chains reach it, and loops of one and of two
  links occur.
* Crash: one crash per behaviour (`MaxCrashes`), in any call, at any write; calls
  go on after it. Bitmaps of one byte and no pointer blocks: those are the matter of
  the other runs.
* The runs that end in a violation: `checker_reports` has the bounds of `format_ops`
  and `file_holes` those of `file_io`; `cache_larger_panic` has the least capacity and
  `directory_hole` the geometry in which the violation occurs.
* `MaxGrow`, `Handles` and `MaxBlocks` of `DirectoryBlock` cap the size of one
  write, the number of open files and the growth of a directory.

No run turns the deadlock check off. After a crash other than in `create` or `write`
only remounts follow in `crash`: the state is the last one looked at.

### Fairness

`Resolve` assumes weak fairness of the steps of a running call: a call holds the
file system (`&mut self`, the mutex of the FUSE dispatcher) and runs until it
returns, so its next step is never put off. No fairness is assumed of the callers.
`Terminates` is the only liveness claimed. The other modules take a call in one
step, and nothing in the code is scheduled to happen later. The write-back of dirty
blocks is promised on flush and drop only, which is part of `WriteBackStore` as a
safety property (`Sync`).

## 4. Proofs

### The cache

`CachedDeviceProofs` proves, for every finite set of addresses, every capacity of at
least 2, every device size and whether or not the device fails (`DeviceAssumption`):

| Theorem | States | Assumes besides |
|---|---|---|
| `TypeCorrect` | `Spec => []TypeOK` | - |
| `CoherentAlways` | `Spec => []Coherent` | `NothingCut` |
| `DirtyNeverLost` | `Spec => DirtyNotLost` | - |
| `CacheImplementsStore` | `Spec => ImplementsStore` | `NothingCut` |

`NothingCut` says that no resize cuts off an address in use: the device may grow, and
shrink behind what is used. It is needed: shrinking further makes the device forget a
block of which the cache keeps a clean copy, so `Coherent` fails and a read returns
the old contents until the block is evicted. `DirtyNeverLost` holds with any resizing.

*The argument.* The inductive invariant is `TypeOK /\ Coherent`. The recency list
is deliberately not part of it: for capacities above 2 it really breaks, and the
point of these theorems is that data is safe all the same. So the proofs hide the
links. `Relinked(c, e)` says that two caches differ in links only; the hit half
and `miss_update` are shown to relink (`TouchedRelinks`, `MissRelinks`), and
`InsertFreeCache`, `InsertEvictCache` and `CleanedBlocks` say what an insertion
and a write-back do to keys, data and dirty bits. `TypeStep`, `CoherentStep` and
`DirtyStep` then go through the actions one by one. `Coherent` is what makes the
refinement work: when a clean block is forgotten, the device must hold the value
the callers saw. `StepRefines` maps a hit to a read or write that writes nothing
back, an eviction to one that writes back at most the victim, failures and panics
to `Fail`, drop and flush to `Sync` or `Fail`.

Of the recency list it proves, for every set of addresses:

| Theorem | States | Assumes besides |
|---|---|---|
| `RecencyKept` | `Spec => []RecencyList` | `Reliable` |
| `NeverPanics` | `Spec => []NoPanic` | `Reliable` |
| `OldestEvicted` | `Spec => EvictsOldest` | `Reliable` |

`Reliable` is the setting of the run `cache_lru`: capacity 2, a device that does not
fail and loses no address to a resize (`NothingCut`), and no access past its end. Each part is needed: with capacity 3
the list breaks (`cache_larger_panic`), and a failed write-back leaves an mru that is
not cached. The invariant that carries the proof, `RInv`, says less than one would
expect of a list: `less_recent` may point to either entry, even to its own, because
the hit half leaves it so, and only `more_recent`, `lru` and `mru` are exact. With
two entries that is enough, since the code follows `more_recent` alone when it
moves the lru. `NeverPanics` also shows that `DirtyNeverLost` and
`CacheImplementsStore` are not about a cache that soon stops working.

### The bitmap allocator

`FindFree` (`BitmapAllocatorProofs`): for every bitmap, every position of the last
allocation, every size of a byte, a block and the region, `find_free(bits, last, num)`
returns clear bits of the region, none of them twice, at most `num`, and fewer only
if they are all that the search meets. (The search may meet fewer than there are: see
section 5.) The model picks the bits in the order of the search, by their rank: the
k-th bit found is the one with k bits up to it. The lemma `Rank` shows that in a
finite ordered set every rank from 1 to the cardinality is taken exactly once. It is
proved from a finite set's cardinality (an injection of a set into one of the same
size is onto), without induction.

### The operations of the format

`FormatV1Proofs` proves, for every number of inodes and blocks, every number of
direct and indirect pointers, every size of directory and every set of names
(`FormatAssumption`):

| Theorem | States | Assumes besides |
|---|---|---|
| `TypeCorrect` | `Spec => []TypeOK` | (a) |
| `BlocksOwned` | `Spec => []BlockOwnership` | (a) |
| `LinksCounted` | `Spec => []LinksExact` | (a) |
| `NothingOrphaned` | `Spec => []NoOrphans` | (a), (b) |
| `CountersFollow` | `Spec /\ []AllSearched => []CountersExact` | (a), (b) |

(a) `Risky \cap {"delete_open", "file_parent"} = {}`: nobody deletes an open file and
nobody creates below a regular file, the two calls of section 5 after which a write
goes through a freed inode, or file data is read as directory records. The FUSE links and renames
of any type, and names used twice, are allowed, so the theorems without (b) cover
`format_ops` and all of `format_devices`.
(b) `ND <= MaxBlocks`: no directory can reach its maximal size because the device
is full before. With the sizes of the code that is a device of a little more than one megabyte.
It is needed: `create` on a larger device allocates the inode, fails to add the block
to its parent, and returns without freeing the inode.

*The argument.* The inductive invariant `IInv` is the conjunction of `TypeOK`,
`BlockOwnership`, `NamesCounted` and `OpenFiles`. None of the parts is inductive
alone. `delete` frees the blocks of the inode its entry names if the link counter
is 1: unless the inode is allocated, and the counter exact, it frees blocks that
belong to somebody else. So ownership needs `NamesCounted`, which is `LinksExact`
together with *what is named is allocated*. Adding an entry writes into the blocks of
the parent: unless those are the parent's alone, names change in another directory.
So the count of names needs ownership. `write` grows the inode of a handle, which
must be an allocated regular file for either to survive.

A call changes tables and bitmaps several times in one step (a rename is up to two
allocations, a new record, two counters and a freed record), so the parts are restated for
arbitrary tables (`Ownership`, `Naming`, `Counted`), each elementary change has a lemma
(a fresh inode, blocks appended to an inode, a record written, a record cleared, an
inode freed), and the proof of an action composes them. `FindFree` supplies
that what is allocated was free and is not handed out twice, for data and pointer
blocks together. `NextInv` goes through the actions. It shows as well that a
step leaves orphans only if a create was refused by a full parent (`EntryRefused`);
`NeverRefused` excludes that under (b) by counting blocks.

*The free counts.* `allocate` subtracts what it takes from the cached count. When
`find_free` returns less than was asked for, it fails and sets the count to the number
found (`format.rs:1200`), taking it for the number of free bits. That is right only
if `find_free` meets every free bit, which its wrapped search does not do in general
(section 5). `AllSearched` states it of the two bitmaps as they are, and
`CountersFollow` says that nothing else can make a count wrong: not the early returns, not a
write that comes up short, not a remount. Where it is not so, as on the tight device of
`format_devices`, `CountersExact` fails.

`FormatV1Namespace` goes on from `IInv`:

| Theorem | States | Assumes besides |
|---|---|---|
| `EntriesStayValid` | `Spec /\ [][~Refusal]_vars => []EntriesValid` | `Risky \subseteq {"reuse_name"}` |
| `EntriesAlwaysValid` | `Spec => []EntriesValid` | the same, and (b) |
| `NamespaceImplemented` | `Spec /\ [][~Refusal]_vars => ImplementsNamespace` | `Risky \subseteq {"rename_symlink"}` |
| `NamespaceAlways` | `Spec => ImplementsNamespace` | the same, and (b) |

`Refusal` is a create refused by a parent that cannot grow. It leaves an inode
without a name, and if that is a directory its `..` keeps naming the parent, which
can be removed afterwards: the one way an entry comes to name a free inode. The calls
excluded are those of section 5 that record a wrong type or give one name to two
nodes. *The argument.* Of `..` the invariant says that the directory it names has an
entry for this one; a directory with entries is not removed, so the target of
`..` lives as long. For the refinement, the links of `Namespace` are the
directory records; each elementary change of tables (the lemmas of `FormatV1Proofs`)
is shown to add, remove or keep exactly one link, and a call composes them as before.

### The integrity checker

`CheckerCorrect` (`FormatV1Namespace`) is `Spec => []CheckerSound` under (a): in every
reachable state, for every geometry, a file system that `check_integrity` finds nothing
wrong with is undamaged, and every named entry has the type of its inode. Refused
creates, bitmaps searched in part, names used twice and renames that leave entries of
the wrong type are allowed, so it covers `format_ops` and all of `format_devices`.

*The argument.* `CheckerVerdict` is about a single state, whatever led to it. It asks
for four things: `TypeOK`; that every directory has a block, and records called `.` or
`..` only in its head (`DotsInHead`), since the checker passes over whatever stands there;
that pointer blocks are allocated and hold nobody's contents (`PointersApart`), since
it never visits one; and that an entry typed as a symbolic link leads to one
(`SymlinksLead`), since it compares such an entry's inode with *file* and would take a
file there for right. From an empty report it then follows that no block was visited twice. A directory has a block, so no directory was
visited twice either (`VisitedOnce`), and the levels of the recursion are pairwise
disjoint. There are more levels than inodes, so one of them is empty, and so are all
behind it: the recursion has come to its end (`RecursionEnds`), and every entry of
type directory was followed. With no inode and no block reported as lost, the numbers of
used and visited ones agree, and since what was visited is allocated (or would have been
reported) the sets agree as well: this is why the shortcut by numbers hides nothing. What
the visits collect (`Flattened`, `PassingHas`, `Gathered`) is proved of
flattened sequences by a least counterexample. `DInv`, which is `IInv` with `Heads`, is
the inductive invariant that supplies the four in every reachable state.

A crash can leave a directory without its head, so in the states of `FormatCrash`
`DotsInHead` fails, and so does `SymlinksLead`, and the theorem says nothing. There
`PassedUndamaged` is model-checked, and `CheckerSound` is false (section 5).

### Directories and listings

`DirectoryProofs` proves, for every length of blocks and records, every set of names
and every size of a reply, from `Roomy` (a block holds 9 units and the longest
record with three units besides; 256-byte blocks do):

| Theorem | States |
|---|---|
| `RecordsTile`, `FreeMerged` | `Spec /\ [][NoHole]_blocks` implies `[]Tiles`, `[]NoAdjacentFree` |
| `NamesKept` | the same implies `OthersKept` |
| `ListedOnce`, `ListedCompletely` | `LSpec /\ [][NoHole]_lvars` implies `[]ListingOnce`, `ListingComplete` |

`NoHole` says that no insertion leaves exactly the smallest free region, which is the
case in which the code destroys the block (`directory_hole`): the theorems show it to be
the only one. *The argument.* `Visited` is what a walk along
`record_len` meets. Two things about such walks are needed: that a walk which ends at the
end of the block meets every record of the tiling and nothing else (`VisitedIs`), and what
an insertion or removal does to a tiling. The first would be an induction over the
records; it is proved from a least counterexample, which exists because the
natural numbers are well founded, at the first offset where walk and tiling disagree.
The second is local: a split or a merge replaces one or up to three neighbouring
records by others that cover the same units, and the rest of the tiling is mapped to
itself. For listings the invariant relates the offset of the caller to the names it has
seen: the entries before the offset are among them unless something was removed, and none of them is
behind it unless something was inserted.

### Files

`FileIOProofs` proves, for every geometry of inodes, blocks and bitmaps, every number
of files and handles and every set of lengths and offsets (`FileAssumption`,
`PointerAssumption`):

| Theorem | States | Assumes besides |
|---|---|---|
| `PointersAlwaysExact` | `Spec => []PointersExact` | - |
| `StorageAlwaysAccounted` | `Spec => []StorageAccounted` | - |
| `FlatFileImplemented` | `Spec => ImplementsFlatFile` | `Addressable` |

`Addressable`: callers give offsets and sizes below 2^32 blocks, an inode holds fewer
blocks than that (it holds 4172), and there is an offset to seek to. Past it the code
cuts the block index and a write goes to the start of the file, so it is needed.

*The argument.* The inductive invariant is `IInv`: types, `StorageAccounted`, and
`Separate`, which says that the bitmap covers the blocks of every file, that no two
files share one, and of each inode that it `Owns` its blocks: data and pointer
blocks are pairwise different, read through the tables as they are now. `PointersExact`
alone counts blocks, and a count does not say which address leads where; `Owns`
does, and `OwnedCounted` gets the count back from it. One round of `add_blocks` is treated
in three lemmas (`DirectAdded`, `IndirectAdded`, `DoubleAdded`): it takes as many
pointer blocks from the pool as `MetadataToGrow` says for one more data block, and leaves
all the addresses before it. All rounds together (`BlocksAdded`) again go by least
counterexample, the first round after which this fails. `FileGrown` and
`SeparateGrown` lift that to one file and to all of them, with `FindFree` for the
blocks that were free. For the refinement, `BytesGrown` shows that growth by zeroed
blocks changes no byte, and `BytesPainted` that the loop of `write` reaches the bytes
of its range and no other, because no block is reached twice. The invariant besides is
that sizes and offsets stay below the cut (`Reached`).

### Path resolution

`LocationCorrect` (`ResolveProofs`) is `Spec => []LocationNamesTarget`, for every
tree, every set of links and targets, and every limit on nesting, from
`ResolveAssumption`. The inductive invariant `LInv` says of the innermost
activation only that the position it holds is that of its current node. Of the others
it would be false: an activation that follows a link already holds the link's position, and
gets the node that belongs to the final one when the inner activation returns.

`WalkImplemented` is `Spec => ImplementsWalk` under the same assumption, loops of links
included. The path left to walk is `Pending`, the components of all activations from the
innermost outwards. Its facts (what it is for a pushed, a popped and a shortened stack)
are proved by a least counterexample in place of an induction. The invariant `WInv` has
besides `LInv` that the recursion is never deeper than the number of links followed, so
the limit on depth refuses nothing the abstract limit on links would accept; that every
activation but the first was told to follow its last link; and that the first, when told
not to, has an activation above it only while components of its own are left. With it
each step of the recursion is a step of the walk, and the return of an activation is a
stuttering step or the failed end.

### The region layout

`FormatLayout` proves for every number of blocks, from the definitions alone:

| Theorem | States | For |
|---|---|---|
| `LayoutFits` | a data block is left, and the data bitmap covers the data region | 5 blocks to 4 GiB |
| `InodeBitmapCovers` | the inode bitmap has a bit for every inode | up to 8192 blocks |
| `InodeBitmapShort` | it has not | more than 8192 blocks, below 4 GiB |
| `BitmapsWritten` | `format()` writes every bitmap block, and besides them the first of the inode table | below 4 GiB |

They rest on one lemma, `Sizes`, which removes the `u32` product and the nested
roundings.

### Only model-checked

* `CheckerQuiet`: that the checker reports nothing beyond its false alarms. Unlike
  `CheckerSound` it needs that every directory is reached from the root, which is no
  consequence of an empty report but an invariant about paths in a tree that the
  calls reshape (a rename moves a whole subtree), and what can be reached (`Below`) is a
  recursive function.
* `LeaksOnly` and `PassedUndamaged`: their states are those between the block
  writes of a call, for which none of the invariants above holds as it stands.
* `Terminates`: liveness under fairness.

Liveness and `ENABLED` are out of the prover's reach, and so is induction over data in
the form of the library's theorems, whose parameter is an operator. Where a proof about
a recursive function was worth it, a least counterexample takes the place of the
induction (`DirectoryProofs`, `FileIOProofs`, `ResolveProofs`, `FormatV1Namespace`).

## 5. Disagreements between the code and its documents

Shown by a run:

1. `src/device/cached_device.rs:80`: a hit on the mru links it to itself; with
   capacity 3, eight plain reads end in a failed unwrap (`cache_larger_panic`).
2. `src/formats/v1/directory_handler.rs:291`: a remainder of exactly 8 bytes gets
   no header and the directory cannot be read any more (`directory_hole`).
3. `src/formats/v1/format.rs:606`: bytes cut off by `truncate` come back when a later
   write extends the file (`file_holes`), where `docs/format-v1.md:214` says of
   holes that they "contain zero bytes until written".
4. `src/formats/v1/format.rs:1527`: the checker compares the inode of an entry that is
   not a directory with *file*, not with the type of the entry, so every symbolic link
   is reported (`checker_reports`), though its comment lists "file type matching the
   inode". `ReportsTrue` fails in its other parts alike: the blocks of a file with two
   names are reported as referenced twice (`format.rs:1703`), against `format.rs:680`
   and `docs/errors.md:27`, and pointer blocks in use as unreachable, against
   `format.rs:678`.

Proved:

5. `src/formats/v1/format.rs:1319`: on devices of more than 8192 blocks (2 MiB) the
   inode bitmap has fewer bits than there are inodes (`InodeBitmapShort`). The rest of
   the table is never allocated while `free_inodes` counts it, and `is_allocated` of
   such a slot, which the checker asks for, looks into the data bitmap.
   `docs/format-v1.md:60` has the same formula and line 64 calls the whole table usable.

Seen while modelling, and present in the modules without a run of their own:

* `cached_device.rs:91`: after a failed write-back the mru names a block that is
  not cached, and the next access panics (the runs with `MayFail` take these steps).
* `cached_device.rs:143`: a write past the end of the device is acknowledged.
* `format.rs:522`: `write` subtracts from a count that `allocate` may have lowered,
  and wraps (the tight device of `format_devices` takes this step).
* `format.rs:558`: a write that starts past the storage it gets stores nothing and
  still raises the size to its offset, against `size <= blocks x 256`
  (`docs/format-v1.md:152`), and every read of the file fails. `setattr` does the same
  (`fuse_format_v1.rs:105`), where the comment says that the allocation "will happen on
  the first write"; a write before the end allocates only as far as it reaches.
* `format.rs:1527` again: after a crash below a write-back cache a symlink entry can be
  left on the stale inode of a deleted file, and the checker takes it for right. With
  the constants of `crash`, `CheckerSound` fails.
* `format.rs:776`: the collision test of `create` compares the padded 64-byte buffer
  with stored names cut to their length, so it never finds a shorter name and the name
  can be created twice (the short device of `format_devices` takes these steps),
  although the comment at `format.rs:915` lists "AlreadyExists".
* `format.rs:243` and `:411`: deleting an open file releases its inode while the handle
  still names it, and a `write` through the handle changes the free slot, or whatever
  took it, against `docs/format-v1.md:128`.
* `bitmap_allocator.rs:97`: the wrapped search leaves out the bytes before the start
  byte of the block it began in, and `allocate` then overwrites the cached count with
  what was found (`format.rs:1201`), although `docs/format-v1.md:106` says that the
  search "wraps to the beginning if required". With the constants of the tight
  device, `CountersExact` fails.
* `directory_handler.rs:136`: the limit of 40 is one of nesting, where
  `docs/format-v1.md:216` says "Resolution follows at most 40 symbolic links"; a path
  can follow more of them one after the other. `PathWalk` allows that, and forbids
  giving up earlier.
* `format.rs:505`: a write that comes up short keeps the pointer blocks for all it
  asked for, and one that exceeds the size limit of an inode keeps its data blocks as
  well (`StorageAccounted` says that nothing else leaks).
* `format.rs:769`: `create` accepts a regular file as parent; with
  `Risky = {"file_parent"}`, `LinksExact` and `NoOrphans` fail.
* `format.rs:1127`: a FUSE link or rename records the type *file* whatever it links;
  with the constants of the roomy device, `EntriesValid` fails.
* `fuse_format_v1.rs:504`: renaming a directory that is not empty leaves it with
  two names, and renaming an empty one leaves its `..` unchanged.
* `format.rs:1430`: `read_symlink` reads the block `direct[0]` without adding
  `data_start`, so the FUSE `readlink` returns bytes of another block; `_resolve`
  adds it. Not modelled: `Resolve` models the path calls.
* `fuse_format_v1.rs:179`: `readdir` hands the whole 64-byte name buffer to the reply,
  zeros included, and a removal or insertion shifts the offsets of the entries
  behind it (`ListingComplete`, `ListingOnce` state what is left).

## 6. Not modelled, and the plan

Not modelled because there is nothing to check in them: error formatting
(`fs_error.rs`), command line tools, FUSE reply encoding and the handlers that only
read and encode (`getattr`, `lookup`, `readlink`, `access`, `statfs`), the forwarding
layers (`ffs.rs`, `fuse_ffs.rs`: one mutex, which is why an action is a whole call),
fixed-offset (de)serialisation of superblock and inodes, timestamps and permissions.

Left out of a modelled part:

* errors of the device inside a call of the format (`?` after a block access): space
  runs out, the process dies, but the device under `FormatV1` and `FileIO` does not
  fail. A failing device is the matter of the cache modules;
* what the checker says of record lengths and of addresses out of range, since records
  have one length in `FormatV1` and no call produces such an address;
* offsets past 2^40 bytes, where the block index is cut to 32 bits: `FileIO` has the
  cut (`IndexMod`), its run does not reach it, and `FlatFileImplemented` assumes them
  away;
* the order of the block writes inside one bitmap update, and calls that need pointer
  blocks, in `FormatCrash`;
* the `u16` link counter at 65536 links.

Of the safety properties the passing runs check, three have no theorem: section 4 names
them.
The next step would be `LeaksOnly`, whose first part (what is named is allocated and
owned) is close to `IInv` of `FormatV1Proofs`.
