# A TLA+ verification of m3sec

m3sec collects the programs written around a security engine for Smart-M3
smart spaces: a remote file system over OpenAFS's Rx (`src/fuse/examples/l-fuse`),
programs that map the triples of a smart space to a file system
(`src/sib_fs_mapping`), and experiments with FUSE, Berkeley DB and HIP. This
directory holds TLA+ models of the programs that keep state, the TLC runs that
check them on small instances, and proofs checked by TLAPS. Line numbers refer
to the sources beside this directory; `PROJECT.json` maps every definition to
its lines.

## 1. Inventory

| Component | State | Operations | Interacts with | What is hard | What makes it correct |
|---|---|---|---|---|---|
| Remote FS client (`afsfuse_client.c`) | `semlock`, `conn`, the Rx calls in progress | 21 `xmp_*` callbacks on FUSE's threads | FUSE (callbacks), Rx (calls) | hand-written locking and call clean-up on every error path; a limited number of call channels | one callback at a time on the connection; a call is ended exactly once; a callback returns |
| Remote FS server (`afsfuse_server.c`) | names, files, descriptor table of its host | 21 `rxc_rxc_*` handlers | Rx (one worker), the host's file system | the write handler sleeps while it holds the only worker; partial data; descriptors never given back | an error means nothing was done; calls are answered |
| Protocol (`afsfuse.xg`) | the calls under way | 21 procedures, three of them split | client stubs, server handlers | a call that fails at one end is still running at the other; requests, data and answers late or lost | a request is carried out at most once; what is reported as done was done |
| Bulk transfer (`bulk_io.c`) | – | send, receive | Rx streams | ends of file and errors share a code path | what is received is what was sent |
| `bdb_vfs` (`bdb_vfs.cpp`) | three tables, three vectors, the mounted tree | create, load, print, close, mount, from a menu | Berkeley DB, fusekit | menu choices in any order; each step fails part-way; no transactions; crash | a mounted predicate has its object; rows are loaded triples |
| `testfs` (`testfs/test.cpp`) | its own vectors | create or read, then mount | the same three files | reads or rewrites the files while `bdb_vfs` writes them, without locks | rows are loaded triples |
| `sibfs` (`sqlite/db.cpp`, `main.cpp`) | vectors S, P, O, the mounted tree | two queries, a join, the tree | the SIB's SQLite file | two statements without a transaction; silently cut results | one row per triple, of that triple |
| Smart space scripts | – | publish, delete | the SIB | what a running `sibfs` sees of them | – |
| Inventory example (`triple_db`) | item, index and vendor databases | load from two text files; show items | Berkeley DB, one program after the other | items and index are separate files; errors are reported and passed over; a second load after a crash; names of the field's full length | what a load put is found again, under its name, with its vendor |
| Local FUSE examples, Berkeley DB examples, `bdb_read`, HIP experiments | little or none | straight-line | libraries | little | – |

The hazards this code is exposed to, each at its line and with the properties
that watch it, are listed in `PROJECT.json` under `hazards`.

## 2. Modules

| Module | Models | How |
|---|---|---|
| `ConnectionLock` | what the client's lock promises | threads ask, take, drop, or die with their process; one holder per mount |
| `AfsClient` | `afsfuse_client.c` | `pc` follows each callback through `getconnection`, `rx_NewCall`, the call and `relconnection` |
| `AfsServer` | `afsfuse_server.c` | `dirent`, `data`, `fdUse` are the host's names, inodes and descriptors; `call` the requests |
| `RemoteCalls` | what a mount promises its programs | a request is asked, carried out or refused at most once, given up, answered; calls given up may be carried out later |
| `AfsMount` | client and server over Rx | instances of `AfsClient` and `AfsServer`, a `line` per channel between them; refines `RemoteCalls` |
| `DirListing` | `getdir` from end to end | `pass` is a directory stream; `list` the array the server fills, `handed` what FUSE gets; `dir` changes meanwhile |
| `PathRules` | `IsAllowedPath` of the server | the scan, a character per step, beside a reference definition |
| `TripleTables` | `bdb_vfs.cpp` | `table` (the process's cache), `disk` (the files), `vec`, `tree` |
| `TripleReader` | `testfs -r` and `-c` beside `bdb_vfs` | extends `TripleTables` with a second process (`flags`, `snap`) on `disk` |
| `SqliteMapping` | `sibfs` and the scripts' effect on the store | `triples`, `nodes` are the SIB's tables; `got`, `names`, `S`, `P`, `O` those of a run |
| `Inventory` | `triple_db`: load and read | `disk` the database files, `cache` what the running program sees, `at` where it is; `frame` is `show_vendor`'s stack |
| `MC*` | – | values of the constants for TLC |
| `*Proofs` | – | theorems and their proofs |

Operators marked "fault" or "A fault" are not part of any specification: each is a version
of the action defined after it with a plausible slip in it, used to try out
whether a property notices (`mutants` in `PROJECT.json`).

### Client

The seventeen callbacks that make their one call through a generated stub
differ only in the procedure they call, so `op = "rpc"` stands for all of them;
`getdir` differs by the loop over its entries, made with the semaphore held,
which reads through a null pointer when the answer held none (`FillerCrashes`:
the process dies with every callback in it and is mounted again);
`getattr`, `read` and `write` make the call by hand and have an action per
step: `Start` (`Startrxc_*`), `XdrLength` (`xdr_long`), `Transfer` (`rx_Read`,
`rx_Write`), `EndCall`, `Throw` (the `throwerror` labels). What Rx and the
server do to a call is the parameter of the action. Rx itself is external: a
connection has a fixed set of channels, `rx_NewCall` waits for a free one,
`rx_EndCall` frees it. A channel whose thread has returned without `rx_EndCall`
is `Lost`. At `throwerror` the answer is `rx_Error(call)`, which may be 0 when
Rx has nothing against the call, as for a request that did not fit into the
stub's encoding: `Throw` takes either as its parameter. A signal in `sem_wait`
only repeats it; its other error, a semaphore that is not valid, cannot come
back after `main`'s `sem_init` (`afsfuse_client.c:450`), so `getconnection`'s
null return is left out. `ret` tells a positive result, zero and an error apart
where FUSE does.

### Server

OpenAFS's user-level Rx is built on cooperative threads, and
`rx_StartServer(1)` donates the one process, so a handler is one action,
except `write`, which sleeps in `rx_Read`: `AwaitData`, then `DataIn` (the
network), then `Write` or `WriteFails`. The number of workers is a constant.
A file is one block at offset 0; its content is what wrote it, "empty", or
"torn" after a write in part. Directories are flat. `Fails` is any system call
that returns an error. `release` gets whatever the client's uninitialised
structure holds, so every value is tried, the socket's descriptor included; a
`close` that gives the descriptor up may still report an error. `Asked` bounds
the requests that clients make. `RequestsInParallel` reads
`afsfuse.xg:16-18` with `ENABLED`: a request that has arrived could be handled
now.

### Client and server together

`AfsMount` gives every channel a `line`: the request that has not reached the
server (`req`), whether the client still waits for the call (`live`), and
whether it has given Rx all of a write's data (`full`). `Deliver`, `Lose` and
`DeliverData` are the network, `Issue` puts a request on the line unless the
server is not done with an earlier call there (Rx's BUSY), `Serve` runs the
server's handler, `TimeOut` is the end of the client's dead time, at any step
of the call, and `Forget` the server's end of a call. The dead time is as long
as one likes: no step waits for it. `served` is what the server made of the
call its thread waits for; the refinement mapping reads `RemoteCalls`' state
from it, from `pc` and from who still holds a channel. That Rx gives an answer
only to the call that asked, and a request to the handler at most once, is Rx's
part (external) and the module's assumption; what the callbacks make of it -
when they report success, and which calls they leave behind - is the code's.

### Directory listing

`readdir` is modelled by what POSIX says of a directory that changes: entries
that are there throughout are returned once, any other may be or not, and one
that is removed and created again may be returned twice. `opendir` fails when
the directory is gone or, at any time, for want of a descriptor. `readdir` gives
NULL at the end and for an error alike, and either ends a pass (`NoMore`); the
history variable `cut` remembers which passes ended before the directory did,
and the properties name it where the code fails on account of it. Past the end
of the allocation the server may live on or die. Behind the client's array lies
`Junk`; without an array (Rx hands a null pointer for no entries) the client
crashes. A directory that is removed is not created again.

### Tables

A table is the sequence of rows put into it; a row is the number of the loaded
triple its value comes from. `CreateDb(n)`, `InsertDbData(n)`, `PrintDbData(k, j)`
and `CloseDb(n)` carry where the operation threw; a walk of `printDbData` may
end after whole rows (a `get` that throws) or within one, when `j` of its three
values were handed over (a `push_back` that throws), which leaves the vectors
uneven. `createDbVfs` then throws out of `main` at `obj_vector.at(i)`, which is
`Crash`. Berkeley DB's cache reaches
a file when it is evicted or closed. `retried` and, in the reader, `taint`
remember that rows were added to tables an earlier load had left uneven.

`TripleReader` adds one `testfs` at a time. `-r` takes each table's content when
its cursor first reads it. `-c` truncates the files one by one, puts its rows
into its own cache and writes them out; `bdb_vfs` goes on from its own, so each
overwrites the other's files, a whole table at a time.

### Inventory

A line of `inventory.txt` is a sequence of fields; `Field` gives what the
parser takes for a field that is missing (`pos + 1` is 0 there). A record is
what the properties tell apart of it, its name and its vendor. A vendor is put
under `VendorKey`, which says what `sscanf` and `strlen` make of a name that is
short, of exactly twenty characters, or longer. `associate` (Berkeley DB,
external) keeps the index: a put adds the new entry and removes that of the
record it replaces, which must be there, and a put that throws may stop between
these. `CloseNext` is a destructor, and may fail silently. A database is
written out as a whole. The two programs run one at a time.

### SQLite

`DB::query` returns the rows it got when the loop ends for whatever reason, so
`SelectTriples` and `SelectNodes` return any prefix; `lossy` remembers that one
was cut short, or that the nodes were removed between the two. The join is the
code's nested loop: `JoinNode` compares one node (`row`) with the triple at hand
and gives it to the first of `S`, `P`, `O` whose node it is, and `NextTriple`
takes the outer loop on. A node's text is identified with its id.

## 3. Runs

| Run | Instance | Shows |
|---|---|---|
| `client` | 2 mounts, 2 threads and 2 channels on one, 1 channel on the other | mutual exclusion, accounting of calls, no wait in `rx_NewCall` but on a wedged connection, refinement of `ConnectionLock`; a holder returns or its process crashes, or every channel is lost |
| `client_wedge` | the same | **violated**: callbacks that reached `rx_NewCall` wait for good |
| `server` | 2 calls, 2 names, 2 inodes, 2 descriptors, 1 worker; `MCAsked` | errors change nothing but a torn write and a descriptor given up; every call is answered or given up |
| `server_parallel` | as `server` | **violated**: two requests are not executed in parallel |
| `server_eof` | as `server` | **violated**: a successful read of a file with data sends none |
| `mount` | 1 mount, 1 thread, 2 channels; six kinds of request on one name | calls match their callbacks; client and server refine `RemoteCalls` |
| `dir_listing` | 2 files beside the two dots, 4 changes | unless an error cut a pass short: the spare entry covers one creation, no null pointer unless the directory is removed, steady entries are listed |
| `path_rules` | all paths up to 6 characters | the scan agrees with the reference definition |
| `tables` | 2 rows per load, tables and vectors up to 3, one `testfs` | a mounted predicate has its object, even tables agree, genuine triples in both programs |
| `sqlite` | 3 nodes, 4 facts, 2 triples in the store | a complete load maps every plain triple to its row |
| `sqlite_all` | the same | **violated**: a triple that uses a node twice loses a row |
| `inventory` | 2 SKUs, one under two names and vendors, one on a short line; 2 vendors | loads that end well are found again; without failures a lookup finds exactly the items of a name; vendors are shown |

Why the bounds are enough. *Client*: two threads of one mount contend for the
semaphore, two channels allow a channel to be lost while the mount goes on and
then the last one to be lost; a second mount shows that neither the semaphore
nor the channels leak between processes; its own thread would only repeat the
first mount's, so it stays idle. *Server*: two calls are one that waits
for data and one that waits for the worker; `MCAsked` has every operation, on a
name that may exist or not, and those of two names in the direction in which a
rename, a link and a symbolic link meet an existing name; one descriptor beside
the socket's is used up by one open. *Mount*: the semaphore lets one call of a mount wait at a time, so
one thread suffices; the second channel lets a call that was given up be
carried out beside, or after, the next one, and each channel is used again;
`Matched` and `ImplementsRemote` hold for any number of mounts, threads and
channels.
*Listing*: two creations overrun the array, and four changes also empty and
remove a directory of two files. *Paths*: the scan's outcome is decided by the third slash;
six characters allow three slashes with a listed and an unlisted character
between and after them. *Tables*: two rows are the least that can be out of
order, and tables of three rows hold a load that failed and most of another, or
the other way round; vectors of three hold a walk that ended within a row and
most of another; larger tables (six rows, vectors of four, without `testfs`) were checked
and showed nothing else, and the theorems hold for any.
*SQLite*: two triples are the least whose rows can shift, three nodes the least
for a plain triple. *Inventory*: two names under one SKU make a
replacement, two vendors a name that is found and one that is not.

Deadlock is checked except in the client and mount runs, where a mount whose
channels are all lost really stops, and in `path_rules`, where the scan ends.

### Fairness

* Client: weak fairness of each thread's steps. A runnable thread is run by the
  kernel, and Rx ends a call with an error after its dead time, so a stub or a
  transfer returns. `sem_wait` is not first come, first served, so a thread
  that waits for the semaphore has no strong fairness and nothing is claimed
  for it; `HolderReturns` and `RequestsHandled` speak of threads past it.
* Server: strong fairness of handling each call, for Rx queues its calls and a
  worker takes the next one; weak fairness of `DataIn`, for the wait ends with
  the data or with the connection's dead time. Both are needed only for
  `CallsAnswered`, which makes no claim once the socket is closed.

### Findings

1. `xmp_read` and `xmp_write` leave their `throwerror` without `rx_EndCall`
   (`afsfuse_client.c:203`, `:252`). Each failure costs a channel; after the
   last one the mount hangs with the semaphore taken (`client_wedge`).
   `NewCallNeverWaits` and the theorem `HolderFindsChannel` show that nothing
   else makes `rx_NewCall` wait.
2. `nbytes = pread(...)==-1` (`afsfuse_server.c:451`): successful reads send
   nothing, and the client reads that as an end of file (`server_eof`).
3. The `else if` chain of the join (`db.cpp:86`) drops the second use of a node
   in a triple; rows shift and `O.at(i)` may end the program (`sqlite_all`).

4. `afsfuse.xg:16-18` guarantees that `SAMPLE_MAX`, 2, requests execute in
   parallel; the constant is used nowhere, and `rx_StartServer(1)`
   (`afsfuse_server.c:44`) gives the service one worker (`server_parallel`).
   With `Workers = 2` the property holds.

Not findings of a run, but met on the way:

* `createDbVfs` puts no files into the directories under `objects`, where the
  comment at `bdb_vfs.cpp:298` has a file per subject.
* `getdir` gives FUSE one entry from behind its array on every call, and reads
  through a null pointer when the directory was removed between the server's
  second `opendir` and its first `readdir`, or when that `readdir` fails
  (`Crash` in `DirListing`). An error of `readdir` in the first pass makes the
  array too small for the second, with nothing created; one in the second gives
  a short listing that is reported as whole.
* A write whose data the server takes in is made to whatever file has the name
  by then: `afsfuse_server.c:206` waits before it opens the path.
* `load` reports success when a database could not be closed, and a vendor
  whose name has twenty characters is stored where no item finds it;
  `show_vendor` then prints whatever its stack frame holds (`ShowItem`). After
  a crash the index may keep an entry of a record that was never written, so
  that asking for one name can show an item of another.

## 4. Proofs

Every theorem holds for all values of the constants that satisfy the named
assumptions of the modules (`ClientAssumption`, `ServerAssumption`,
`MountAssumption`, `PathAssumption`, `TablesAssumption`,
`DirListingAssumption`, `StoreAssumption`, `InventoryAssumption`), which TLC
evaluates in the runs. They fix types, keep model values apart and, where
something is counted (calls in `ServerAssumption`, channels in
`MountAssumption`, files in `DirListingAssumption`), say that it is finite.

* **`AfsClientProofs`**. The inductive invariant `Inv` joins `TypeOK`,
  `MutualExclusion` and `ChannelsAccounted`: the type of the semaphore (0 or 1)
  needs mutual exclusion, since `relconnection` adds one; mutual exclusion
  needs the equivalence "down exactly when held"; the accounting of channels
  needs both that a thread in its call has a channel and that it has only one.
  The lemmas `Steps` to `StepAnswers` reduce each action to what it does to the
  position of one thread and to its channel, so that preservation is one case
  per kind of step; a crash (`CrashStep`) resets all of one process. From
  `Inv`: `TypeCorrect`, `Exclusive`, `CallsAccounted`; `HolderFindsChannel`, the
  safety half of `HolderReturns`: `rx_NewCall` waits for nobody of the same
  process, only for channels that are lost for good; `ImplementsLock`, the
  refinement of `ConnectionLock` (initial states map to its initial state, every
  step to `Ask`, `Take`, `Drop`, `Die` or a stutter).
* **`AfsServerProofs`**. `Inv` is the type invariant with `Asking`: a call that
  is under way has the names its request had, and only writes wait for data.
  `ErrorsHarmless` holds for any number of workers: of the handlers that answer
  with an error only `Write` changes a file, and it answers so when its data
  came in short, and only `Release` the descriptors.
* **`AfsMountProofs`**. `INSTANCE` does not bring the parts' theorems along, so
  the module makes instances of their proof modules (`CP`, `SP`);
  `SameClient` and `SameServer` show that the actions of the parts as composed
  are those the lemmas are about, and `MountAssumption` restates the
  assumptions of the parts. `Inv` joins the parts' invariants and three facts
  about what lies between them: `Lines` (a live line belongs to a thread with
  that channel, and carries that thread's request), `Unserved` (a thread's
  request is carried out only on a channel the thread has) and `Told` (what a
  callback knows of the answer where it has got to, and what it will report).
  The steps within a callback differ only in what they do to one thread, its
  channel and its line; `Advances` says what they have in common, and four
  lemmas show that each kind of step is one. `ImplementsRemote` maps every step
  to one of `RemoteCalls` or a stutter: `Stage` gives the abstract state of a
  request, a callback that leaves its call behind moves it to the calls that
  may be carried out later (`AdvanceRefines`), and a handler carries out the
  live request or one of those (`ServeRefines`). `RunsItsParts`: every
  behaviour of the mount satisfies `Spec` of `AfsClient` and of `AfsServer`, so
  that `HolderFindsChannel`, `ImplementsLock`, `ErrorsHarmless` and the others
  hold of it as well.
* **`PathRulesProofs`**. `TypeCorrect` and `AnswersRight`, by an invariant that says what the
  scan has seen: `backCount` is the number of slashes before `p`, below three,
  and no character before `p` was an unlisted one. Counting slashes is done
  with the finite-set theorems.
* **`TripleTablesProofs`**. `TypeCorrect`, `VectorsStayParallel`, and
  `EvenTablesStayInStep`. The vectors need not be equally long, but a walk never
  takes more of a later table than of an earlier one (`Takes`), so their lengths
  keep the code's order, and the bound that `at(i)` looks at then says that
  there are as many objects as predicates. That tables of equal length agree is not inductive:
  a table that is shorter may catch up. `Ordered` says that while `db_s` is
  open `s` is never shorter than `p` nor `p` than `o`, and that all agree when
  the first and the last are of one length; `Shut` says that a table whose
  handle is not open is empty. `PrintedTriplesGenuine` needs the tables to agree
  as far as their shortest goes until a load that threw is tried again
  (`Genuine`), that vectors which become equally long by a walk were so before
  (`PrintSame`), and that nothing is printed while a handle is new (`Unprinted`):
  the `createDb` that makes the tables even again finds the vectors empty. With
  `testfs` beside it, the reader takes the three tables at three moments, and
  that they agree with each other at one is not enough. `Cyclic` says of a
  table by itself that it is the loaded rows over and over; it holds of the
  caches and the files (`Straight`) and of what the reader has taken
  (`ReadStraight`) until a load that threw is tried again, because a load starts
  where the last one ended whole. So any two of them agree as far as both go
  (`ReadGenuine`). `BesideTestfs` gives `bdb_vfs` its own invariants back.
* **`DirListingProofs`**. `Counted` relates the two passes of `getdir`: the
  entries the current pass has yet to return and those it has listed are
  together no more than were counted, but for the ones created since, unless
  the count was cut short. So `OverrunAccounted`: the one spare entry is used up
  by the first creation, and it takes a second to write past the array. `Dotted` says that, unless the
  directory is gone, the dot entries are among those the second pass must
  return, and that a pass that has listed nothing has returned nothing; so its
  array is not empty unless it was cut (`EmptyAccounted`). `ListsSteady` follows an entry that is
  there throughout: `Listed` says that such an entry is one the second pass is
  sure to return, that all it has returned are in the list, each once as long
  as nothing was created, and that FUSE was handed the list from its start. `Shape` is the type invariant with
  the stages of the call. Cardinalities need the directory to be finite, which
  `DirListingAssumption` states.
* **`InventoryProofs`**. The databases are spread over caches and files that
  Berkeley DB writes out at any time. `Will` is what each will hold once the
  open ones are closed, and `WillKept` shows that opening, writing out, closing
  without an error and all of the reader's steps leave it alone. About it the
  invariant says three things: `Exact` (the index is that of the items while
  nothing failed), `Loaded` (what this load has put has its entry, however wrong
  the index was before) and `Listed` (its vendors are there), beside `Stages`,
  which fixes what is open at each stage. With no program running `Will` is the
  disk, so `LookupsExact` and `LoadsFindable`; `VendorsShown` follows from
  `Listed`, since the reader's cache is the disk.

* **`SqliteMappingProofs`**. The store changes between the two queries, so
  `LoadsMap` needs more than the loop's invariant. `Stored` says that the store
  has no node twice and has the nodes of every triple (`Covers`); `Loading`
  carries both over to what a run has read, unless the run is `lossy`;
  `Joining` says of each vector that it holds the column of the triples joined
  so far, and one entry more once the inner loop has passed the node it looks
  for (`Passed`). When the inner loop is through, every node was passed, and
  the vectors advance together.

Only model-checked: what needs fairness (`HolderReturns`, `CallsAnswered`),
which is out of the prover's reach. Every other property of a passing run is a
theorem. The four runs that find a violation are counterexamples and have
nothing to prove.

## 5. Not modelled

* Rx, FUSE, fusekit, Berkeley DB and SQLite are modelled only by what the
  programs see of them. Marshalling by rxgen is generated code.
* File attributes, offsets within a file, and directories within directories.
* Other programs on the server's host, in `AfsServer` and `AfsMount`: there only
  handlers change files. `DirListing` has them.
* In `AfsMount`, a crash of the client (`FillerCrashes` of `AfsClient`), and a
  path too long for the stub's encoding, after which `rx_Error` is 0 for a call
  that was never sent (`AfsClient` has both).
* Memory that is exhausted, except in `printDbData`: `getdir`'s `malloc`, and
  `bad_alloc` in the other programs.
* The handle that `open` returns is not kept by the client: `release`, `fsync`
  and `flush` send an uninitialised one. Every value is explored by `server`;
  there is no property, since `afsfuse.xg:36-37` promises one ("May be filled
  in by filesystem in open(). Available in all other file operations") that the
  code never keeps.
* The terminal of `bdb_vfs` (`cin` that fails), text files whose reading fails,
  records of more than 500 bytes, the cursor of the reader that was never
  opened (`excxx_example_database_read.cpp:145`).
* `bulk_io.c` (nothing calls it), `test_fs`, `helloworld_opt.c`, `bdb_read`,
  the other Berkeley DB examples and the HIP experiments (see `components`):
  straight-line programs without state, except the echo client of
  `hip_example.c`, whose blocking `send` and `recv` in turn can wait on full
  buffers for good.

## 6. Plan

1. *(done)* `ConnectionLock`, `AfsClient`, `AfsServer`, `PathRules`,
   `TripleTables`, `TripleReader`, `SqliteMapping`, with their runs; proofs of
   the client, the path rules and the tables.
2. *(done)* `AfsMount` and `RemoteCalls`, `DirListing`, `Inventory`,
   `testfs -c`.
   Proofs of the directory listing, the inventory and `TriplesGenuine`.
3. *(done)* Proofs of the server, the composition and its refinement of
   `RemoteCalls`, `testfs`, the SQLite mapping and `ListingComplete`.
4. Theorems: the client's and the server's restated for `AfsMount`, by
   `RunsItsParts`; which rows of `S`, `P` and `O` the join loses when a triple
   uses a node twice.
5. The echo client of `hip_example.c`.
