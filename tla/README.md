# Verification of ListTalkEmbedded

ListTalkEmbedded is a C library: a mark-and-sweep memory manager on a buffer
the program provides, classes described in C and materialized at run time, a
registry of constructors, and utilities (hash tables, string builder, atomic
file replacement, UTF-8, hex, base64, SHA-256, Ascon). The library starts no
threads. What is hard in it is not parallelism but *state read after something
else changed it*: a collection inside any allocation, a sweep that reads sizes
from classes it is reclaiming, constructors that register constructors, classes
that initialize each other, a table that grows under an insertion, and files
that other processes replace.

This directory holds TLA+ models of that state, TLC configurations that check
them on small instances, and TLAPS proofs of what matters most. Paths and line
numbers refer to the repository (`gc.c` is `src/gc.c`, and so on).

## 1. Inventory

| component | state | operations | interacts with |
|---|---|---|---|
| **Memory manager** `gc.c`, `gc.h`, `value.h` | the heap buffer (a header word per block with a mark bit, sizes of free records), `free_list_head`, `root_list`, `allocated_since_last_gc`, `stack_start` | `LTE__gc_init`, `LTE_gc_alloc`, `LTE_gc_collect`, `LTE_gc_mark_object`, `LTE_gc_register_root`, `LTE_gc_unregister_root` | calls `mark` and `finalize` of classes; reads `instance_size` of classes that may be heap objects; scans the program's stack |
| **Native classes** `Class.c`, `Class.h` | per class `native_descriptor`, inherited functions and slots; `core_class_cycle_finalized` | `LTE_init_native_class` (recursive), slot accessors, `LTE_Class_alloc` | run by constructors; allocates with `LTE_gc_alloc` |
| **Constructor registry** `utils.c:442-482`, `init.c` | array, two counts, two flags | `LTE_register_constructor`, `LTE_run_registered_constructors`, `LTE_init` | calls user functions, which call back |
| **Inline hash tables** `utils.c:213-440` | `vector`, `mask`, `count`, chains, copies of keys | init, destroy, count, at_put, at, remove, for string and pointer keys | C heap |
| **Atomic file replacement** `utils.c:81-142` | a temporary file, `offset` | `LTE_write_file_bytes_atomically` | file system, other processes |
| **String builder** `utils.c:144-211` | buffer, capacity, length | append, value, length | C heap |
| **SHA-256, Ascon** `utils/crypto/` | block buffer and length; sponge state | init, update, finish | - |
| **UTF-8, hex, base64** `utils/` | none (decoders over caller buffers) | encode, decode, length, index | - |
| **String helpers, C heap wrappers, errors** | none | fail by aborting | - |
| **Primitives, tail calls** | none: headers only | - | an interpreter that is not in the repository |

What makes each one correct, and what is hard about it:

* **Memory manager.** The blocks tile the heap; the free list is exactly the free
  records; nothing reachable is reclaimed or changed; garbage is reclaimed; a
  collection ends. Hard: a collection starts inside any allocation; a class
  may die in the same sweep as its instances; the size of an object is read
  through its class; roots are registered several times; marks must be clear
  when the next collection starts.
* **Native classes.** A class has what it inherits whatever the order of
  initialization; initializing again changes nothing; recursion ends. Hard:
  recursion along two edges, with the "done" mark set before the work.
* **Constructor registry.** Each constructor runs once, in order, and `LTE_init`
  leaves none out. Hard: reentrancy.
* **Hash tables.** A table is a finite map; entries stay findable over growth;
  it owns one copy per string key. Hard: growth in the middle of an
  insertion, shared buckets, `NULL` as a value.
* **Atomic replacement.** Readers see one complete content, and no temporary file
  is left but by a kill. Hard: short writes, failures and kills at every
  step, several writers.
* **String builder.** It holds what was appended, in order. Hard: sizes that wrap in
  `size_t`, and an argument that lies in the buffer `realloc` moves.
* **Digests.** The result depends on the bytes, not on the pieces they come in. Hard:
  a piece that ends at the end of a block, padding that needs a block of its own.
* **Codecs.** Decoding is the inverse of encoding, and refuses everything else; walking
  over malformed text loses nothing. Hard: the last, partial group; the
  borders of the ranges of bytes; the end of a text that is not followed by `NUL`.
* **Program start** (registry and classes together). A class is ready for the code that
  comes after its constructor, whatever the order of modules and whenever
  `LTE_init` is called.

`PROJECT.json` lists the hazards line by line, with the property that would
catch each one, or the reason why no property does yet.

## 2. Modules

| module | what it is | composed with |
|---|---|---|
| `ManagedHeap` | abstract: objects, references, variables, and whether the program runs or waits in a call | refined by `Gc` |
| `Gc` | `gc.c` with the program that uses it | |
| `GcInvariant` | the inductive invariant of `Gc` | extends `Gc` |
| `GcProof` | proofs about `Gc`, what it promises and what it leaves | extends `GcInvariant` |
| `MCGc` | constants for TLC | extends `GcInvariant` |
| `NativeClass`, `MCNativeClass`, `NativeClassProof` | `LTE_init_native_class` | |
| `Constructors` | registry and `LTE_init` | |
| `Runtime`, `MCRuntime` | program start: the constructors that `LTE_DEFINE_CLASS` makes | extends `Constructors`, instantiates `NativeClass` |
| `ConstructorsProof` | proofs about the registry and about program start | extends `Runtime`, instantiates `NativeClassProof` |
| `Dictionary` | abstract finite map and the call in progress on it | refined by `InlineHash` |
| `InlineHash`, `MCInlineHash`, `InlineHashProof` | `LTE_InlineHash` | |
| `AtomicFile` | abstract file replaced in one step | refined by `AtomicWrite` |
| `AtomicWrite`, `MCAtomicWrite`, `AtomicWriteProof` | `LTE_write_file_bytes_atomically` | |
| `ByteString` | abstract byte string that is appended to | refined by `StringBuilder` |
| `StringBuilder` | `LTE_StringBuilder` | |
| `Utf8`, `Codec` | operators: `utf8.c`; `hex.c` and `base64.c` | |
| `Text`, `MCText` | a program that collects a text and reads it with all of these | extends `StringBuilder`, `Utf8`, `Codec` |
| `TextProof` | proofs about the builder, the readers of UTF-8 and the codecs | extends `Text`, `SequenceLemmas` |
| `Sha256`, `MCSha256` | `LTE_SHA256` | |
| `AsconXof`, `MCAsconXof` | `LTE_AsconXOF128` | |
| `DigestsProof` | proofs about both | extends `Sha256`, `AsconXof`, `SequenceLemmas` |
| `SequenceLemmas` | lemmas about natural numbers, sequences and `FlattenSeq` | |

Definitions whose comment begins with `mutant:` are not part of the model. Each
is a plausible bug; put in place of the definition that follows it, it breaks
the property `PROJECT.json` names, which shows that the property depends
on the code.

### Gc

Memory is counted in words. `blocks` holds the addresses where a block starts;
`hdr[a]` is its header without the mark bit (`Free` is zero), `marked` the
mark bits, `fsize` word 1 of free records, `iwords` word 3 of classes that live
on the heap (their `instance_size`), `slot` the references an instance holds,
`free_list` the list from `free_list_head`. `val` and `root_list` are the
program's variables and the registered ones. The program (`Mutator`) does what
`tests/smoke_test.c:140-167` does, in any order and with any of its values: it
assigns variables, stores fields, completes classes, allocates, registers,
unregisters and collects. A call of `LTE_gc_alloc` or `LTE_gc_collect` is a
sequence of steps (`MemoryManager`): one per call of `mark_object`, one per way
through the body of the sweep's loops; `pc`, `ret` and `request` say where
it is. A call of `LTE_error` is the final value `"error"` (bad class) or
`"corrupt"` (bad block) of `pc`.

Assumptions of the model:

* The stack is scanned conservatively: besides the program's variables, every collection
  marks from any set of the blocks in `StaleWords`, which stands for words of
  the stack that are no longer in use. They may name free records and objects that were
  allocated where a dead one was. Words that refer to the inside of a block are left out:
  a scanned word is the address of a block or nothing.
* A global that is not registered is not used and holds nothing.
* A program completes a class it allocates (size and mark function) once, before
  it makes instances of it; instances get zero fields.
* The order of marking (roots, recursion) is left open: `gray` is a set. The
  depth of the recursion is not modelled.
* Finalizers do not call the allocator and are left out.
* `Unscanned` lists locals that the scan does not see: the compiler keeps them in
  callee-saved registers (`gc.c:188` scans from the frame of `LTE_gc_collect`, which saves none),
  or they are in frames above that of the caller of `LTE_gc_init`, where `stack_start` is.
  It is empty in every run, and the theorems assume that it is: what only such a local holds is
  reclaimed, and no text of the repository says that it is kept.

`ManagedHeap` shows who acts: `running` says whether the program runs or waits in
`LTE_gc_alloc` or `LTE_gc_collect`. Variables and the references of objects are written
(`Assign`, `Write`) only while it runs. While it waits, objects it cannot reach disappear one by one
(`Reclaim`), and the step that returns from an allocation brings the new object, which refers to
the class asked for and to nothing else, into the variable that waits (`New`, `Fail`). So each step of the
allocator, of marking and of the sweep changes nothing that the program can reach. `running` is `pc = "run"`,
and `cls` and `dst` are the arguments in `request`; an aborted call never returns.

### NativeClass

Every class is a descriptor and two structures, class and metaclass. Of what a
class inherits the model keeps `hash` (which class's function it uses;
`equal_p` is resolved by the same code) and `slots` (a function from names to
the class that described the slot: the array's order and offsets are left out).
Each recursive call of `LTE_init_native_class` is a frame of `stack`; between
two calls of the program the stack is empty. The family of descriptors is chosen in
`Init` from `Hierarchies`.

### Constructors

`stack` is the call stack of constructors and loops. A constructor may, while it
runs, register others or call `LTE_init`; it may do so several times and then
returns. Registering the same function twice makes two constructors, as in the code.

### Runtime

A module of a program registers the constructor of its class (`RegisterClass`) or one
that may run any code (`RegisterOther`): registrations, `LTE_init`, a call of
`LTE_init_native_class`. `initializes` says which class a constructor is for. The
constructor of a class makes one call and returns; `init_stack` is the `stack` of `NativeClass`.

### InlineHash

A chain is a sequence. The loops of `grow_table` and `LTE_InlineHash_destroy`
are one step per entry (`MoveEntry`, `FreeEntry`), so that the refinement says
the map is the same while entries are in two vectors. `hash & mask` is
`hash % (mask + 1)`: sizes are powers of two. `copies[k]` counts allocated
copies of a string key, which may go below zero if one were freed twice.
A call begins with `Call`, which puts its operation, key and value into `request`; they stay there
until it returns with its answer in `out`. `Dictionary` sees both, so that a call has to
change the map for the key it was given and to answer for that key, in one of its steps.

### AtomicWrite

One step per system call, for several processes on one path. A file is who
wrote it and how many bytes. POSIX semantics: `mkstemp` creates a name that did
not exist, `write` takes some of the bytes or fails (a zero result is a
failure in the code), `rename` is atomic. `unlink` always succeeds; the machine
keeps its power (the code does not `fsync`).

### StringBuilder and Text

`buf` is the memory of the buffer, `Junk` what nothing was written to. Appending
is computing the sizes modulo `WordValues`, doubling them, `realloc`, which moves the
buffer or does not, and the copy; `"aborted"` is a failed `realloc`. The
argument is one of the program's strings or the builder's own value. In the
second case a buffer that moved is read after it was freed: `pc` is then `"undefined"`
and nothing is claimed any more. An append of no bytes does nothing.

The functions of `utf8.c`, `hex.c` and `base64.c` keep no state; they are operators on
the buffer of the builder (a cursor is an index into it) or on its value. A function that may fail is
the set of its results, empty or of one element. `Text` calls them whenever no
append is in progress, so that their properties are invariants of every text
the builder can hold, with whatever bytes follow its end in the buffer.

### Sha256 and AsconXof

The compression function and the permutation are not interpreted. The state of a
digest is the sequence of the blocks compressed; the state of a sponge is the blocks absorbed and
the number of permutations since, and a byte of the output is named by its
place in the output stream. An update is the steps `Fill`, `WholeBlock` and `Rest`,
which share the fields of the context as the code does. `LTE_SHA256_digest` is
`init`, `update` and `finish` in a row. `update` or `finish` after `finish`
without `init` is a use the API does not have and is not modelled.

## 3. What the runs check

| run | bounds | checks |
|---|---|---|
| `gc_heap` | 4 blocks, 2 locals, classes on the heap | `BlocksTileHeap`, `FreeListExact`, `NeverCorrupt`, `CounterBounded` |
| `gc_promise` | 3 blocks, 2 locals, stale words naming one of them | `GarbageReclaimed`, `IInv` (which contains `TypeOK` and `NoDangling`), refinement `PromiseKept`, `GcReturns` |
| `gc_roots` | 3 blocks, a local, a global, 2 nodes, stale words naming any block | `NoDangling` with registration |
| `class_init` | 3 classes, 11268 families of descriptors | `Inherits`, `InitializedOnce`, `InitReturns` |
| `ctor_order` | capacity 3, 5 registrations, 3 classes in 3 families | `TypeOK`, `OnceInOrder`, `NoneBeforeInit`, `InitComplete`, `ClassesReady`, `InitReturns` |
| `hash_map` | 5 keys, initial size 1 | `Findable`, `CountExact`, `KeysOwned`, refinement `MapKept`, `Returns` |
| `file_two` | 2 processes, 3 bytes and 1 byte, 3 names | `TargetWhole`, `TempsOwned`, refinement `ReplacedAtomically`, `CallEnds` |
| `text_read` | buffers up to 31 bytes, a `size_t` of 64 values; texts of up to 3, 4, 5 or 8 bytes, 3 code points, or as many strings as fit | `CopyFits`, refinement `HoldsAppended`, `AppendEnds`; `BoundedAgrees`, `DecodesWellFormed`, `StartsVisited`, `TypedReadBack`; `DecodingInverts` (`HexInverse` and `Base64Inverse`), `EncodesBits` |
| `sha_stream` | blocks of 5 bytes with a length of 2, a message of up to 13 | `NothingLost`, `DigestOfMessage` |
| `xof_stream` | rate 3, an input and an output of up to 7 bytes | `AbsorbsPadded`, `SqueezesInOrder` |

The type invariants of the other modules are proved (section 4) and not checked again.

Why the bounds are enough to meet the interesting cases:

* **Gc.** With `HeapWords` 18 the buffer is not a multiple of the alignment, and
  holds four blocks; the class of classes takes two of them and plain
  instances one, so records split, are used whole, are too small, and merge with
  a neighbour. A class on the heap, its instance and cyclic references fit at
  the same time, also in three blocks. Two locals distinguish what one keeps
  from what the other keeps; `Symmetry` permutes them. The counter exceeds half
  of the heap, so collections start both on demand and in retries. The bound
  `MaxRoots` is 2: the same variable twice, or two variables.
  A stale word that may name one block, used, free or inside of a larger block by then, is enough to
  tell what the program keeps from what only the scan keeps; in `gc_roots` all
  may be named.
* **NativeClass.** `Hierarchies` holds every family of the usual scheme (superclasses
  without cycles; the metaclass inherits from that of the superclass or from
  `Class`), and every way in which two classes and their metaclasses can be
  superclasses of each other, with a third that inherits from both. Three classes give chains of length
  three, two subclasses of one class and overriding over two levels.
* **Constructors and Runtime.** The capacity is reached before, during and after the loop, and
  registrations nest, within five of them (`MaxRegistrations`, the only bound). The three
  families of classes are a chain that overrides on the way, two subclasses of one
  class, and a cycle; all other families are left to `class_init`.
* **InlineHash.** The initial size is 1 instead of 8, so that five keys cause three
  growths (1, 2, 4, 8 chains). Two keys have equal hashes, one shares their
  chain until there are four chains, one until there are eight. Values are one
  pointer and `NULL`.
* **AtomicWrite.** Three bytes are written in one to three pieces, one byte in one; three names allow an
  orphan beside the files of both processes, and `mkstemp` has to fail when no
  name is free.
* **Text.** `STRING_BUILDER_INIT_SIZE` is 1 instead of 64, so that a few bytes cause several
  doublings: the sizes are 1, 4, 10 and 22. Sizes wrap at 64 and no object is larger than 31 (half of the
  values of `size_t` less one, as `PTRDIFF_MAX`). A string of 31 bytes appended to 15 or more
  needs 47 to 53 bytes: the loop goes from 22 to 46, wraps to 30, which is less than is required, and ends
  at 62, which `realloc` refuses. The texts of up to three bytes (`borders`) are made of bytes on both sides of every border between
  the ranges of first and second bytes in `utf8.c`; those of four bytes (`utf8`) of a choice of them with which
  a sequence of each length can be complete, cut off or interrupted. The code points lie on both sides of the borders of `LTE_utf8_encode`. That the
  readers are right for all bytes, at every place of a text of any length, is proved (section 4). For hex and base64 four characters are a whole group
  of each; eight of a small alphabet (`groups`) give two groups and padding between them.
  Strings of three and of 31 bytes, one with a NUL in it, and the builder's own
  value exercise the growth (`strings`).
* **Digests.** A message of 13 bytes is two and a half blocks. Every way to cut it
  into pieces is taken, and every length of it is finished: with room for
  the length in the last block, with just enough, and without. An input of the sponge takes up to two and a third blocks, whole blocks
  included, and so does its output.

`CHECK_DEADLOCK FALSE` is set where the system really may stop: `Gc` after
`LTE_error`, `Runtime` when it has aborted or no registrations are left, `Text`
after a failed `realloc` or a read of freed memory.

### Fairness

The library is single threaded and runs to completion: once it is called, nothing
else runs until it returns. So a step it can take is eventually taken:
`WF(MemoryManager)`, `WF(Operation \/ Loop)` for a hash table, `WF(Initialization)` for classes,
`WF(Appending)` for a string builder, and for program start `WF(Proceed)`: loops go on,
the constructor of a class makes its call, and, beyond what the library can
promise, any other constructor returns in the end. In `AtomicWrite` each process
has `WF` of its next system call: the scheduler does not starve it, and system
calls return. No fairness is assumed of the program, of `mkstemp`, of kills or restarts.

## 4. What is proved

TLAPS checks every theorem for all values of the constants that meet the named
assumptions of the modules. Each proof contains the type invariant of its module; `DigestsProof` has the
types of the contexts in its invariant. Beyond types:

* **`GcProof`** (`Unscanned = {}`). `IInv` is inductive:
  the layout of the heap (`Aligned`, `BlocksTileHeap`, `Sized`), the free list
  (`FreeListExact`), the cursor of the sweep, the marks (`Marking`), the
  references (`NoDangling`, `Untraced`) and the call in progress (`Requested`).
  None of them can be proved alone: the walk of the sweep needs sizes,
  sizes are words of classes, classes must not have been reclaimed before their
  instances are passed, and that depends on marking, which
  depends on the roots being seen. The delicate step is a class that
  dies with its instances: its size word survives its becoming a free record.
  Stale words only add blocks to `gray`; they may be free records, which `mark_object` skips.
  Theorems `TypeCorrect`, `HeapTiled`, `FreeListCorrect`, `SweepNeverCorrupt`,
  `CollectorSafe` follow.
  `CounterCorrect` bounds the counter by the set of words that objects occupy: an allocation adds
  the words of one block, disjoint from the others, and the sweep sets the counter to zero.
  Also in `GcProof`: every step of `Gc` is a step of `ManagedHeap` or none of it
  (`Refinement`): the steps of a call leave what the program can reach as it is until the call
  returns. The core is that what `SweepUnmarked` reclaims is not in
  the least set closed under references that contains the roots: the
  survivors are such a set. Conversely `NoGarbageLeft`: what a collection keeps can be traced to
  a variable or a stale word. `AllTraced` says so of the marked and gray objects, then
  of the survivors; only what is kept counts as a start, since a stale word may
  name an object that this collection did not see it name.
* **`InlineHashProof`**: `EveryEntryFound`, `CountIsExact`, `CopiesOwned` and `MapImplemented`, the
  refinement of `Dictionary`. The invariant looks at the table as a set of
  entries in one vector or, while it grows, two: each is in the chain of its hash, and
  no key is there twice, so that a change of one chain changes that set by one entry, the one for the key in `request`. Growth
  needs that the chains before the index are empty and that the requested key is still new.
* **`NativeClassProof`**: `InheritsAlways`, `NeverAgain`. A class on the stack of calls is an
  ancestor of every class below it; a class whose ancestors come before it therefore finds each of them
  initialized, and not in progress, when its own fields are filled.
* **`ConstructorsProof`**: `CalledOnceInOrder`, `NoneEarly`, `InitLeavesNoneOut`. The
  invariant relates the registered constructors, the count of those that run and the
  stack: while a loop is on the stack `running` is set unless `ran` is, so what is registered then waits
  behind all that was registered before. `StartInOrder` says the same of
  program start, which implements the registry (`RegistryImplemented`), and `ReadyInAnyOrder` that
  a class is ready when its constructor has returned: a constructor on the stack below
  others cannot be that of a class, and one that has made its call has the class initialized.
* **`AtomicWriteProof`**: `NeverTorn`, `NoneLeftBehind`, `AtomicReplacement`. The invariant
  says that a temporary file belongs to one call, holds the bytes of that call
  up to `offset`, and is complete when it is renamed.
* **`TextProof`**, the builder: `CopyInBounds`, and `PromiseKept`, the refinement of `ByteString`. The
  value and the argument are objects, each less than half of the values of `size_t`
  (`SizeAssumption`), so the required size never wraps; the doubled one may, and
  the loop then ends with a size that `realloc` refuses or that is large enough. `TextHeld` says
  the same of a program that appends code points besides.
* **`TextProof`**, UTF-8, for every text and cursor. `Sequence(m, c, n)` describes a sequence of bytes
  by numbers; the tests of the code, the table of the Unicode Standard and the bits of an encoded
  code point are each shown to say the same (`WellFormedDecoded`, `BoundedReaders`). The recursive
  function `Walk` is followed backwards: what holds of the walks from all cursors holds unless there is a
  last cursor where it fails (`WalkVisitsStarts`). `ReadsBackTyped` needs an invariant of its own,
  `TypedHeld`: while code points are appended there are places in what is held and what is yet to be copied
  where the encoding of each begins and the last of which is the end, and those of a walk are these.
* **`TextProof`**, codecs, for every text, both alphabets, padded or not. `HexDigits` and `Chars` give the
  character at each place; `HexEncoded` and `Base64Encoded` show that the encoders, which join groups, produce
  them. From this follow `BitsEncoded` (the recursive reference `BitGroups` is unrolled for the
  four or six bits of a group) and `CodecsInvert`: the digits and sextets of bytes give the bytes
  back (`Base64Decoded`), and conversely what `RefusedLength` and `StrayBits` let pass determines the length
  and the padding that the encoder would have made (`Base64Recovered`). `TextFits`: every text
  is short enough for both encoders, because it is an object.
* **`DigestsProof`**: `EveryByteOnce` (what is buffered follows the last block compressed, what is
  left of the call follows that); `DigestIsOfMessage` (the padded message is described place by
  place, and so are the one or two blocks that the last call makes of it, as the one bit leaves
  room for the length or not); `PaddedAbsorbed` (what is absorbed is the message in parts of one
  rate, then the rest with the one bit and zeros up to the rate: every block is whole, and together they are the
  whole input and its padding); `OneStream` (the output ends at `buffer_offset` in the
  current block). The two kinds of contexts share no state, so each theorem is about a context of one kind.
* **`SequenceLemmas`**. The library's theorems about induction take an operator, which no installed
  prover can instantiate. Where a proof needs induction it is stated of a set instead: a set of naturals
  that is not empty has a least element (`LeastNat`), and a greatest if it is bounded, so there is no first
  number for which a statement fails. This gives what `FlattenSeq` has at each place when the parts are of one
  length, or all but the last are, and the recursive functions above.

Assumptions beyond those on sizes: the bytes of a message are bytes (`InputAssumption`, `MessageAssumption`),
and in `TextAssumption` a byte is a number below 256, `size_t` is one type for the builder and the
codecs (`SizeValues = WordValues`), and an object has room for the four bytes of a code point.
`MaxBlock` is the size of the largest object, not a bound of the model.

Only model-checked: liveness (`GcReturns`, `InitReturns`, `Returns`, `CallEnds`, `AppendEnds`),
which is out of the prover's reach: it has neither fairness nor `ENABLED`. Every other property of the passing runs has a theorem. Those of
`Gc` assume that the collector sees all locals (`Unscanned = {}`).

## 5. Findings

1. **`gc_coalesce`.** Neighbouring objects that die in the same sweep stay two free
   records: the sweep merges a following block only if its header is zero
   already (`gc.c:152`). `design/gcd-heap.txt:10-12` says the same scan merges
   adjacent free space. An allocation may fail for it although the next collection would merge them.
2. **`class_entangled`.** Initialization does not always follow inheritance
   (`Class.c:283-290`), although `design/classes.txt:7-8` says so. A metaclass has no
   descriptor, so that a call for a `metaclass_superclass` that is one does not
   initialize its class, and the metaclass copies `NULL` functions for good. And a class in progress
   counts as initialized: if `q` inherits from `p` and the metaclass of `p`
   from `q` - no cycle of inheritance, but one of initialization - then
   starting with `p` leaves `q.hash` NULL and `q` without the slots of `p`,
   while starting with `q` does not. `Inherits`, which passes, is therefore stated of
   classes whose ancestors come before them (`Ordered`).

The two runs named here expect a violation: `gc_coalesce`
with one local and three blocks, `class_entangled` with two classes.

## 6. Not modelled, and why

* Words of the stack that refer to the inside of a block: nothing in the repository says which
  words a program may keep there, so there is no promise to compare with.
* Finalizers that allocate, collect or store references: no text says what one may do, and the only one
  in the repository counts its calls (`tests/smoke_test.c:48-51`). The model has finalizers that leave the heap alone.
* The depth of the mark recursion: the order of marking is open, and there is no stack.
* Sizes in `Gc` do not wrap: `align_size` of an `instance_size` near `SIZE_MAX` is left out.
* `LTE_gc_alloc` before `LTE__gc_init`, which allocates from an empty list.
* Loss of power (`LTE_write_file_bytes_atomically` does not `fsync`): what a file system keeps
  is outside of the code.
* Fields of a class that are copied from its descriptor alone, order, offsets and accessors
  of slots: assignments. `LTE_Class_alloc` is `LTE_gc_alloc`.
* `LTE_fnv_hash`, `LTE_pointer_hash`, the SHA-256 compression and the Ascon permutation:
  arithmetic without state; constants or uninterpreted operators.
* `LTE_strdup`, `LTE_sprintf`, `LTE_strerror`: conversions without state.
* `alloc.c`, `error.c`: succeed or abort. An abort of a failed `malloc` is a stop at any step, which no
  safety property here can tell from a program that stops; `LTE_realloc`, which moves a block, is a step of `StringBuilder`.
* `Primitive.h`, `tail_call.h`: declarations; their interpreter is not in the repository.

## 7. Plan

Done: `ManagedHeap`, `Gc` with stale words; `Dictionary`, `InlineHash`; `Constructors`, `NativeClass`
and their composition `Runtime`; `AtomicFile`, `AtomicWrite`; `ByteString`, `StringBuilder`, `Utf8`, `Codec` and their
composition `Text`; `Sha256`, `AsconXof`; proofs about all of these.

Next:

1. Proofs of more than the runs check: that no two messages are padded to the same blocks, that the
   collector keeps what the stack leads to also while the program's variables are only partly seen, and
   the size of a table in terms of what was inserted.
2. `GcFinalizer`: `Gc` with finalizers that store their object, allocate or collect, once the library says
   what they may do.
3. Words that refer to the inside of a block, once it says what a program may keep on its stack.
