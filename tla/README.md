# netCDF-C 4.6.2 with the ESDM backend: specifications

TLA+ models of the library in `src/`, the TLC configurations that check them on
small instances, and theorems that TLAPS proves about them for every value of
the constants. Line numbers refer to `src/` at the commit these modules were
translated from.

- [The system](#the-system): what the parts are, which are modelled
- [The modules](#the-modules): state and actions against the code
- [The runs](#the-runs): what TLC checks, with which bounds
- [Disagreements between code and documentation](#disagreements-between-code-and-documentation)
- [The proofs](#the-proofs)
- [What is assumed, what is only model-checked, what is left out](#limits)
- [Plan](#plan)

## The system

netCDF is a library that one program calls. It starts no threads and takes no
locks: calls run to their end one after the other. What makes it hard is not
scheduling. It is that several representations of one dataset have to agree over
long sequences of calls (a header in memory, one in the file, a copy from before
define mode, a buffer over part of the file, ids in tables); that data is moved
in place when definitions change; that calls of one part re-enter another
(a DAP2 open creates a classic dataset); that any step can fail with the
steps before it already done; and that a remote dataset changes between calls.

A client calls the functions of `netcdf.h` (libdispatch). They look up the
dataset's id in the file table and call the dispatcher that the dataset was
opened with: the classic format (libsrc), netCDF-4 over HDF5 (libsrc4, libhdf5),
ESDM (libsrcesdm), OPeNDAP 2 and 4 (libdap2 with oc2, libdap4), PnetCDF
(libsrcp) or HDF4 (libhdf4). The classic format reads and writes its file through
`ncio`, an interface with several implementations.

| Component | State | Operations | Correct when | Modelled |
|---|---|---|---|---|
| File table and NC objects (`nclistmgr.c`, `nc.c`, `dfile.c`) | slots, their count, an id and dispatcher data per object | create, open, close, abort; nested opens of DAP2 | an id finds its dataset as long as it is open and nothing else; nothing freed stays listed; failures release what they made | `NCFileTable` |
| Choice of the dispatcher (`dinternal.c`, `dfile.c`, `ncuri.c`) | none | path, mode and magic number decide | the same file is opened by the same dispatcher that can read it | planned |
| ncio over POSIX files (`posixio.c`) | one buffer of two blocks, a slave buffer during moves, the descriptor's position | get, rel, move, sync, pad, close | the file is a memory of bytes | `PosixIO`, `ByteFile` |
| ncio in memory (`memio.c`) | memory, its allocated and used size, a lock count | the same, and taking and handing over a client's memory | the same; pointers stay valid while locked; one owner frees | `MemIO`, `ByteFile` |
| mmap, ffio, stdio variants of ncio | | | | no, not built by default |
| Classic format (`nc3internal.c`, `var.c`, `attr.m4`, `putget.m4`, `v1hpg.c`) | header in memory, `old` header, flags; header, data and record count in the file | create, open, redef, enddef, sync, abort, close, define, put | what was written is read whatever is redefined; the file can be opened at any time outside nc_enddef; abort restores | `NC3`, `NCRecords` |
| Header codec and XDR conversions (`v1hpg.c`, `ncx.m4`) | a window into the file | get and put of each part | what is put is got | the places in a header only |
| ESDM driver (`esdm_dispatch.c`) | the container, a table of dimensions, a table of variables | create, open, commit, close; define, rename, attributes, fill values, data | the tables describe the container, and the container is a netCDF dataset | `EsdmDispatch`, `EsdmDataset`, `NCDataset` |
| Hash map of names (`nchashmap.c`) | open addressing, deleted slots | add, get, remove, deactivate, growth | what is in the map is found by probing; every call returns | `NCHashMap` |
| Lists of named objects (`ncindex.c`, `dim.c`, `var.c`) | a list of objects and a hash map from names to places | define, rename, delete, rebuild, look up | names are unique and lead to their objects | `NCIndex`, `NameList` |
| Lists and byte buffers (`nclist.c`, `ncbytes.c`) | contents, length, allocation | push, insert, remove, clone, ... | a sequence within its allocation | planned |
| Default strided access (`dvarget.c`, `dvarput.c`) | an odometer | get/put varm | each index once, in order | planned |
| netCDF-4 metadata (`libsrc4`) | groups, dimensions, variables, types, indexes | define, rename, lookup | ids and names lead to the same object | one group's dimensions and variables, in `NCIndex` and `NC4Coord` |
| netCDF-4 in HDF5 (`libhdf5`) | data sets, dimension scales and which variable each is attached to; flags that say what the next write has to do | define and rename, write and read the metadata | the file means the same when it is read again, whatever was renamed into or out of a coordinate variable | `NC4Coord`, `HDF5File`, `NCContents` |
| File images in memory (`nc4memcb.c`) | reference counts of an image | HDF5's image callbacks | one owner frees | planned |
| DAP2 client (`libdap2`) | substrate, cache, constraints | open, getvara, prefetch, close | the substrate lives as long as its dataset; the cache keeps its limits | the substrate in `NCFileTable`; the cache in `DapCache`, `DapReads` |
| oc2, DAP4 (`oc2`, `libdap4`) | responses | fetch, parse | | the dechunking of `d4chunk.c` is planned; the rest is parsing and libcurl |
| PnetCDF, HDF4 | | | | no: one external call per operation |
| ncdump, ncgen, ncgen3, nccopy, tests, examples, plugins | | | | no: programs on top of the interface |

`PROJECT.json` lists the same components with their sources, and under
`hazards` what in this code is hard to test, at its line, with the properties
that cover it.

## The modules

```
NCFileTable  <-- MCNCFileTable, NCFileTableProofs
PosixIO      --> ByteFile     (refines, as IsByteFile)    <-- MCPosixIO, PosixIOProofs
MemIO        --> ByteFile     (refines, as IsByteFile)    <-- MCMemIO, MemIOProofs
NC3          --> NCRecords    (refines, as IsRecords)     <-- MCNC3, NC3Proofs
EsdmDispatch <-- EsdmDataset --> NCDataset (refines, as IsDataset)
                                                          <-- MCEsdmDispatch, EsdmDispatchProofs
NCHashMap <-- NCIndex --> NameList  (refines, as Refines) <-- MCNCIndex, NCIndexProofs
HDF5File  <-- NC4Coord --> NCContents (refines, as IsDataset, in MCNC4Coord)
DapCache     --> DapReads     (refines, as ReadsForward)  <-- MCDapCache, DapCacheProofs
DataFacts    <-- every *Proofs module but MemIOProofs and PosixIOProofs
```

`DataFacts` has the lemmas about numbers, folds and sequences that the proofs share.

`ByteFile` is the joint of the classic modules: `PosixIO` and `MemIO`, the two
implementations of `ncio` that are built by default, are shown to implement a
memory of bytes, and `NC3` is written on a memory of bytes. `NCIndex` is
composed of `NCHashMap`'s steps and the operations of the lists on top of it.

Operators with a suffix after the name of another operator or action
(`px_rel_assign`, `NC_sync_count`, ...) are variants with a plausible bug. No
specification uses them. Each property is known to fail when the operator is
replaced by the variant, and `PROJECT.json` says which (`mutants`).

### NCFileTable: ids, NC objects and dispatchers

`nc_filelist`, `allocated` and `numfiles` are the variables of `nclistmgr.c`.
An id is its slot (the code shifts it by 16 bits). The NC objects are a
constant set; an object is allocated by moving from the phase "free" to
"opening" and freed by moving back. `data` is what `dispatchdata` refers to:
nothing, live data, or freed memory. `calls` is the stack of opens in progress,
which has two elements while `NCD2_open` creates its substrate. `Kind` gives
every object one of three dispatchers that treat failure differently.

| Action | Code |
|---|---|
| `Begin`, `UserOpen` | `NC_create` and `NC_open` up to the dispatcher's call, `add_to_NCList` included |
| `NCD2_create_substrate`, `NCD2_open_succeeds`, `NCD2_open_fails`, `NCD2_prefetch_fails` | `NCD2_open`, `NCD2_close` |
| `OpenSucceeds`, `OpenFails` | the return of NC3's or ESDM's create and open, and what `NC_create`/`NC_open` do then |
| `nc_close_ok`, `nc_close_fails`, `nc_abort` | `dfile.c`, with the data each dispatcher leaves behind |

The id -1 that `NCD2_open` hands to `nc_abort` when there is no substrate
names the last slot after the shift. The model has that. Where the code would
call a dispatcher without data (a null or freed pointer) the model stops.

### PosixIO: the buffer

`px` has the fields of `ncio_px` for the master and the slave buffer, `disk`
the bytes, the size and the descriptor. Each call of the interface is one
action, but a move of more than a block is a loop of steps (`MoveBegin`,
`MoveStep`), each of which may fail. Within a call, operators take a record
of the state to the set of its outcomes: `px_pgin` and `px_pgout` have those
of the system calls (`Faults`), and `Then` continues with the ones that did
not fail. `px_get` has the cases of the code as operators (`Covering`): in the
buffer, extend upwards (`PageInUpper`), `ShiftUp`, `ShiftDown`, `Replace`; `Taken` is
what all of them end with.

`ByteFile` holds the content alone: the bytes as the client should see them.
`Content` maps a state to it: the buffer where it is loaded, the disk
elsewhere, "unset" where nothing was ever written. Clients only ask for moves
that `move_recs_r` and `move_vars_r` can ask for (`Allowed`): upwards, the last
bytes first. Two such moves may read the same bytes: `move_recs_r` moves each
record of an only record variable with its padded length, but records without
padding lie closer than that, so a move reads again the first `Pad` bytes that the
last one read (`NextFloor`), through a slave that nobody flushed. What no move may
read is what the last one wrote. That happens only where records move by less than
their padding, after an `h_minfree` or `v_minfree` that is no multiple of 4; then
`move_recs_r` goes wrong with any file below it (see the table of disagreements,
`nc3internal.c:648`), so `Allowed` leaves it out.

### NC3: the classic format

`nc` is the `NC3_INFO` of the open dataset, `old` the copy that `nc_redef`
makes, `flags` the bits of `flags`, `file` the bytes and, next to the bytes it
covers, the header that was written last. A byte of data is
`<<value, position in the value>>`, so that a value is readable only where all
its bytes lie in order.

`NC_begins` computes the places of all variables from four lower bounds: the
end of what is before, the free space that was asked for, the alignment, and
the place before `nc_redef`: `Placed` finds where a section begins, `FixedEnds`
and `Padded` go through the variables as its two loops do. `Moves`, `Fills` and
`Steps` are the sequence of writes of `NC_endef`: moves of records and of fixed
variables from the last to the first (`Downwards`, by `Hindmost`), the header, fill
values for what is new (`Upwards`). `Done` applies such a sequence, `Step` by
`Step`. `NC3__enddef_fails` applies what is done when one of the writes
fails: those before it and, because `move_vars_r` goes on after a failed move,
the moves of fixed variables behind it. The write that fails has no effect.

Sizes are scaled down: two bytes take the part of `X_ALIGN`'s four, and a
header is a few bytes long. One attribute of changing length stands for
everything else in the header that can grow.

`NCRecords` has two variables: the dataset outside define mode, and the
definitions made in define mode, which take effect together or not at all.
`Dataset` maps a state of `NC3` to it by reading the file as a program would that
opens it, and `Definitions` is what define mode has added to `old`.

### EsdmDispatch and EsdmDataset: the ESDM driver

`e` is the `nc_esdm_t` of the open dataset: the container as it is in memory,
the table of dimensions (`dimt`), the table of variables with the dimension
ids, and whether the container came from netCDF. `store` is the container as
it was committed last. The hidden attributes that store the dimension table
are the component `nc_dims` of a container. The ESDM library is not in the
repository; the few operators for its calls say what the driver relies on and
are marked external in `PROJECT.json`.

`NCDataset` is the data model of the documentation: names, shapes, attributes
and fill values without ids. `ds` is what the program sees, `saved` what
another program would find. `EsdmDataset` works both out of a state of
`EsdmDispatch` (`Meaning`): after every step `ds` is what the inquiry functions
of the driver answer, and `saved` what they would answer after opening the
container as it was committed last.

An attribute is put from the client's memory (`Memory`), which may be of another type
than it is stored as. `Converted` says what the conversion makes of it, `Raw` what is
there when the memory is read without one; for what is of the right type (`Typed`) the
two agree (`MemoryAssumption`). `ESDM_put_att` converts for the attribute, but gives
ESDM the fill value as it is. "mistyped_fill" in `Unusual` lets clients do that, and
`FillAttrMatches` fails (see the disagreements); without it a `_FillValue` is put from memory of the variable's
type only, and any other attribute from memory of any type.

### MemIO: the classic format in memory

`memio` is the `NCMEMIO` of the open dataset with the open flags that matter,
`block` its memory, `file` the file that `NC_DISKLESS` reads and `NC_PERSIST`
writes, `held` the regions that a client got and has not released. A dataset is
created, opened from the file, or opened on the client's own memory, which is
locked (`NC_MEMIO_LOCKED`) or given away. Every function of `ncio` that does
something is an action; `memio_pad_length` and `guarantee` are operators, since
get, move and close call them.

Growing past the allocated pages is where the code calls `realloc` and then
frees what it reallocated (`memio.c:467-488`): the model stops there, in the
state "fault", and run `memio_grow` shows that a plain sequence of calls gets
there. `lost` counts gets that failed: `memio_get` counts its lock up before
it knows its result.

### NCHashMap and NCIndex: names

`map` is the hash map with its slots, active, deleted or empty. `locate`, `Has`
and the functions that clear a slot are operators. Adding may look for a prime
and rehash, both loops, so the steps of those loops are the actions of
`NCHashMap` and a call in progress is a state: `search`, `old` and `todo` are
the local variables of `findPrimeGreaterThan`, of `rehash` and of the call.
`HashKey` is a constant function, so a configuration chooses the collisions.

`NCIndex` has the list of objects that the map belongs to, in two variants
(`kind`): `NCindex`, which netCDF-4 uses for attributes, dimensions and
variables and rebuilds after a deletion or renaming, and the arrays of the
classic format, which remove the old name from the map and add the new one.
`NameList` is what both promise: unique names in an order.

### NC4Coord: dimensions and coordinate variables in HDF5

A dimension of netCDF-4 is an HDF5 dimension scale, and when a variable has its
name and has it first, that variable's data set is the scale. Definitions
and renames change which it is. `w` has the lists of dimensions and variables
with the fields that carry this (`coord_var`, `hdf_dimscaleid`, `dimscale`,
`dimscale_attached`, `was_coord_var`, `became_coord_var`, `is_new_var`,
`created`, `fill_val_changed`, `written_to`) and the HDF5 file: links in the
order of their creation and data sets. `HDF5File` says what the code relies on
of HDF5 and is marked external: what is attached where, when an unlinked data
set disappears, which calls fail. `err` records a failed call or assertion.

Each call is an action; a get is one in define mode, which it leaves
(`NC4_get_vara`). `written_to`, which makes a later `_FillValue` fail, is set for
every variable when the file is read and by `nc_enddef`, but only for the one variable
that is written when a put leaves define mode, and for none when a get does. That is
the way to a data set that is made anew for its fill value: after such a call the
attribute may be put again. Writing the metadata (`sync_netcdf4_file`, with the
order of dimensions and variables of `nc4_rec_write_metadata` and each step of
`write_var`) and reading it (`nc4_rec_read_metadata`) are operators from a `w`
to a `w`, since closing, syncing, `nc_enddef` and opening apply them whole.
`NCContents` is the dataset without ids: names of dimensions; shape, fill value
and whether there is data under each variable's name. `ds` is what the open
dataset means, `saved` what a process that opens the file finds.

*Unusual.* The renaming code is known to be fragile (`nc_test4/tst_rename.c:416-424` leaves out checks that
fail, as a known bug), and TLC agrees: many sequences of two renames around
coordinate variables end in a failed HDF5 call or another dataset. The model contains that code, and the guards named by `Usual` keep clients from
what it does not cope with, so that the passing run says what does work. The
names, each of which makes a property of run `nc4` fail when it is put into
`Unusual`:

| Name | What the client does | Where it goes wrong |
|---|---|---|
| `clash` | defines or renames a dimension to the name of a variable that does not have it first, or a variable to the name of such a dimension | `hdf5dim.c:83-87`, `285-291`, `hdf5var.c:478-482`: two links of one name |
| `prefixed` | renames a variable whose link has the prefix `_nc4_non_coord_`, or has its data set made anew | `hdf5var.c:1093`: the link is looked for without the prefix |
| `switch` | renames into or out of a coordinate variable while another one's change waits to be written | `write_var` takes the scales of the others for attached |
| `dim_into` | renames a dimension to the name of a variable, unless that variable was its coordinate variable in this session | `nc4_reform_coord_var`: the data set is no scale |
| `two_ids` | the same, with other dimensions | ids are read in another order |
| `new_into`, `data_into` | renames a variable that is not in the file, or that has data, to the name of its dimension | the data set is made anew, without the data |
| `late_fill` | sets the first `_FillValue` of a variable that counts as written | `hdf5attr.c:451`, `500`: the call is refused, but the attribute stays in the list, without data; when the data set is made anew HDF5 is handed a null pointer |
| `pending_fill` | sets `_FillValue` again on a data set that is in the file but does not count as written, then puts data before a sync | `hdf5var.c:1579`: the next write of the metadata deletes the data; run `nc4_pending_fill` |
| `abort` | aborts after a definition in data mode | `hdf5file.c:515-519`: the file keeps the half that was done |

### DapCache: the cache of the DAP2 client

`prefetch`, `nodes` and `cachesize` are the `NCcache`, `controls` the client
parameters that decide what is fetched, `attached` the response that the DDS
points into, `server` the version of the dataset at the server. A fetch returns
the version the server has then, returns something without the variable, or
fails. `get_cached`, `get_fetched` and `get_fails` are `nc3d_getvarx`, which looks
the variable up (moving the node it finds to the end of the list), decides on
the whole variable or a part, evicts by two limits, and attaches the response.
Variables are those of the DDS as the URL constrains it.

`DapReads` says what this is for: a get returns exactly what was asked for, of
one version, and never goes back.

## The runs

A client may always stop, so no run assumes that calls are made. The one
liveness property, `CallReturns` of `index`, assumes weak fairness of the steps
of a call in progress (`FairSpec`): the library runs a call to its end before
it returns, nothing can preempt it. All else is safety and refinement. Deadlock
is checked in `px`, `nc3`, `nc3_sync`, `esdm` and `index`.

| Run | Instance | Checks |
|---|---|---|
| `table` | 5 objects (2 classic, 1 ESDM, 2 DAP2), 7 slots | type, the count of the table, nothing freed is listed, open ids find their dataset, every DAP2 dataset has a substrate of its own, a failing open closes no dataset of the user |
| `px` | blocks of 2 bytes, files of up to 6 bytes, requests of up to 2 and moves of 1 and 3 bytes | type, get returns the content, a clean buffer mirrors the file, no assertion fails, `PosixIO` implements `ByteFile` |
| `nc3` | 3 variables, 2 records, one `nc_redef`, `nc__enddef` with and without room and alignment | type, the header can be read and is not overwritten, no two values overlap, the assertions of `NC_endef` hold, `NC3` implements `NCRecords` |
| `nc3_sync` | 2 variables, 2 records, two `nc_redef`, with and without `NC_SHARE`, `nc_enddef` may fail in its first step, the move of a record or the write of the header | the dirty flags tell what the file lacks, abort restores |
| `esdm` | 3 dimensions of length 0 (unlimited) or 1, 2 variables of rank up to 2, 2 attributes, one of them `_FillValue` | type, tables and container agree with unique names, what is committed opens, `_FillValue` is the fill value, `EsdmDispatch` implements `NCDataset` |
| `index` | 4 names that collide in the tables of 3 and of 7 slots, up to 4 objects | type and counts, every name is found in its place and no other is, every call returns, `NCIndex` implements `NameList` |
| `nc4` | 3 names, 3 dimensions and variables together, ranks 1 and 2 with 2 places in all, one variable with a fill value or data | type, ids and names of dimensions are distinct, the scales attached in the file are those of the variables' dimensions, no HDF5 call and no assertion fails, `NC4Coord` implements `NCContents` |
| `memio` | 4 bytes, pages of 2, up to 2 regions held, one get that fails | type with the exact lock count, one owner after the close, held memory stays, `MemIO` implements `ByteFile` |
| `dapcache` | 3 variables, one of them with two elements and one of them small, a limit of 3 and a count of 2, the dataset changes once | both limits and the account of the size, the list holds what was used last, the DDS is attached to what exists, `DapCache` implements `DapReads` |
| `nc3_abort`, `nc4_pending_fill`, `memio_grow` | as above, with the input named below | one statement of the documentation each, which the code violates |

### Why these bounds

*table.* A nested open needs two objects, a table with holes needs three, and
mistaking one substrate for another needs two DAP2 datasets, each with a
substrate: four objects and one ESDM dataset between them. There is one slot
more than the objects can fill, so the last slot, which id -1 names, stays free:
with six slots instead of seven `OpenClosesNoOther` is violated (see the table
of disagreements), which in the library takes 65535 datasets at once. The model
stops where the code would use a dangling pointer, and when every object has
leaked its data, so deadlock is not checked.

*px.* Blocks of two bytes have a first and a last byte. Three blocks are the
fewest with a block below, in, and above a buffer of two blocks; every branch
of `px_get` is taken. No byte is ever looked at by the code, so two values, one
of which is written once, find any mix-up. Moves of 3 bytes are longer than a
block and reach into a block they do not fill. `Pad` is one byte, so that moves
through one slave may overlap by one. In this run system calls
succeed (`Faults` is empty).

*nc3, nc3_sync.* A redefinition adds to at most two variables a third: a fixed
one before records, records before a fixed one, a second record variable (the
record size changes when there is more than one), each with and without a
header that has grown. Two records are the fewest in which a record moves over
another one. `TwoWays` has `nc__enddef` with and without free space after the
header, before the records, and with an alignment of the records. `Size` is
large enough that no combination is cut off by it, except that `Fits` ends
those that would need more.

Clients of these two runs call `nc_sync` before `nc_redef` (`Unsynced` is
FALSE); `nc3_abort` shows what happens otherwise.

*esdm.* A dimension renamed to the name of another one that was renamed before
needs three names. Two variables share dimensions or not, in each order. To
keep the run short no dataset has both dimensions and attributes, which no
action touches together (`NotBoth` in the MC module). Names are symmetric;
values are not counted. Clients hand over a one of the type of the variables or
in floating point, whose bits are another value. They do not do what the
documentation has an error for and the driver lets pass, nor put a `_FillValue`
in floating point (`Unusual` is empty).

*index.* The smallest table has 3 slots (`MINTABLESIZE`, 131 in the code), so
that four names grow it. Two names share a slot in tables of 3 and of 7, two
others in those of 7 only: chains form, are broken by deletions and are
rehashed apart. `SomePrimes` has room for two doublings.

*nc4.* A coordinate variable needs a name twice, a second dimension in between
needs another name, and a rename a third. Three objects are two dimensions and
a variable of both, or a dimension and two variables, of which one becomes or
stops being the coordinate variable while the other is attached to it. A
dataset may be closed and opened any number of times; `MaxIds` leaves out opens
that find ids above 1 (a file of three dimensions, or ids that grew with renames).
A faulting call ends the program, so deadlock is not checked. Names are
symmetric.

*memio.* Two pages, so that files end in, at and before the end of a page.
Two regions overlap, touch or lie apart. The model stops where the heap is
undefined, so deadlock is not checked.

*dapcache.* A node of one element, of two, and a limit of three: an insertion
evicts by size, by number, by both or not at all, more than one node at a time,
and a node can be as large as two others. One change of the dataset gives every
cached response two possible ages. With a closed connection and the last change
made nothing has to happen, so deadlock is not checked.

## Disagreements between code and documentation

Three are runs of their own, and `PROJECT.json` quotes both sides (`findings`):

- `nc3_abort` (`nc3internal.c:1293`): records written since the last sync are
  lost by `nc_redef` and `nc_abort`.
- `nc4_pending_fill` (`hdf5var.c:1579`): a `_FillValue` that is put again on a
  variable whose data set a get or put in define mode created takes effect at the
  next write of the metadata, and deletes the data that was put in between.
- `memio_grow` (`memio.c:487`): a dataset in memory that grows past its pages
  frees the block it has just reallocated.

Others were met while modelling. The models contain the code's behaviour; the
instances of the passing runs keep it out by the constant named here.

| Where | What | In the model |
|---|---|---|
| `ncd2dispatch.c:585` | when the eager prefetch of an open fails, the substrate stays open for ever and the DAP data is leaked | `SubstrateHasOwner`, checked in `table`, is violated by `NCD2_prefetch_fails` |
| `nc3internal.c:1331`, `dfile.c:1428` | after an `nc_close` that failed in `nc_enddef` the id is still valid and its data is gone | `OpenHasData`, checked in `table`, is violated by `nc_close_fails` |
| `posixio.c:306` | a write that stores a part and fails moves the descriptor but not its recorded position; the next write fails an assertion | `Faults = {"write_error"}` violates `NoAssertFails` |
| `nc3internal.c:698` | when the move of one fixed variable fails, `move_vars_r` goes on and moves the next one over its data, which the header in the file still refers to after `nc_abort` | `FailAt <- FirstVariable` in `nc3_sync` violates `AbortRestores` |
| `nc3internal.c:262` | `nc__enddef` with `v_minfree`, then one with `r_align`, fails the assertion that records do not move backwards | `Reserves <- Realigned` with `MaxRedefs = 2` violates `AssertionsHold`; without `r_align` `AssertionsAlwaysHold` proves it |
| `nc3internal.c:648` | the records of the only record variable have no padding, but are moved with it: when an `h_minfree` or `v_minfree` that is no multiple of 4 makes them move by less than the padding, each move overwrites records that were moved before; `dfile.c:1196` says that such arguments "are silently rounded up to multiples of 4" | `Align = 4`, `Shapes <- OneByte`, `Reserves <- Unaligned` and `MaxRecs = 3` violate `EnddefKeepsValues` |
| `esdm_dispatch.c:1466` | `ESDM_put_att` gives ESDM the fill value as it lies in the client's memory and converts it to the variable's type for the attribute alone (`esdm_dispatch.c:1483`): after `nc_put_att_double` on an integer variable ESDM fills with the bytes of a double, while `docs/attribute_conventions.md:24` says that the attribute "specifies the fill value used to pre-fill disk space" | `Unusual = {"mistyped_fill"}` in `esdm` violates `FillAttrMatches`, and `IsDataset` |
| `esdm_dispatch.c:919` | defining a dimension twice with different lengths is accepted and makes a dataset that cannot be opened | `Unusual = {"redefine"}` violates `ReopenAccepted` and `IsDataset` |
| `nchashmap.c:362` | the search for a prime never ends for values above 180497, the last but one prime of its table, which a table of 90246 slots asks for when it grows; the comment promises the first prime that is greater or equal | `Primes <- ShortPrimes` in `index` violates `CallReturns` |
| `nchashmap.c:286` | `NC_hashmapsetdata` promises 0 for a name that is not there and fails an assertion; nothing calls it | not modelled |
| `memio.c:561` | a get that fails leaves its lock: nothing grows any more, and the memory leaks at close | `lost`, which `LockCounts` counts and `OneOwner` excepts |
| `nc3internal.c:1372` | `NC3_close` ignores the status of the `ncio` close: a diskless file that was not written is no error | `Faults = {"disk"}` in `MemIO` violates `IsByteFile` |
| `cache.c:273` | with the cache turned off (or a count of none) the list still keeps the last response and answers from it | `Count` is 0 and `LimitsKept` allows `Count + 1` nodes |
| `getvara.c:415` | a response without the variable stays in the cache and answers every later get with `NC_ENODATA` until it is evicted | `Walk` fails on such a node; `DapReads` allows a get to fail |
| `include/ncdap.h:43` | the cache is on by default; `docs/DAP2.dox` says "The default is no caching" | `Controls` has both |
| `dfile.c:2104` | the result of `add_to_NCList` is ignored: with all 65535 ids in use, `nc_create` and `nc_open` succeed and return the id 0, which no call accepts | as many objects as slots violates `OpenIsFindable` |
| `posixio.c:627` | a failed read in the middle of shifting the buffer down leaves `bf_extent` at two blocks, and the next get of the upper block is a hit on the wrong bytes | `Faults = {"read_error"}` with `Starts <- OldFile` violates `CleanMirrorsFile` |
| `posixio.c:391` | a short read before the end of the file counts as the end | `Faults = {"short_read"}` violates `GetReturnsContent` and `IsByteFile` |
| `nc3internal.c:880` | a move, or the write of the header, that fails inside `NC_endef` after other moves leaves their data at new places under the old header; so does a crash there | `FailAt` with a positive `done` violates `AbortRestores` |
| `nc3internal.c:1400` | with `NC_SHARE`, `nc_redef` reads the header again and drops an attribute changed in data mode and not synced | `Unsynced = TRUE` with `Shared = {TRUE}` violates `IsRecords` |
| `ncd2dispatch.c:380` | when the substrate cannot be created, id -1 is handed to `nc_abort`; shifted it names the last slot, and a dataset of ESDM or DAP2 there is aborted | `NCFILELISTLENGTH = 6` violates `OpenClosesNoOther` |
| `esdm_dispatch.c:335` | a container not written by netCDF loses the dimensions that no variable uses | `Foreign <- OneForeign` violates `IsDataset` |
| `esdm_dispatch.c:506` | ids of dimensions follow the order of the datasets, so they change from one open to the next | ids are not part of `NCDataset` |
| `esdm_dispatch.c:669` | `ESDM_abort` does nothing: what was renamed in data mode is lost and the container stays open | `Revert` of `NCDataset` allows the loss |
| `esdm_dispatch.c:545` | `ESDM_open` returns errors with the container open and `dispatchdata` set | `data` of a freed object stays "live" |
| `esdm_dispatch.c:1323` | renaming an attribute or a variable to a name that is taken, or an attribute to `_FillValue`, is accepted | `Unusual = {"taken"}` violates `IsDataset`, `{"rename_fill"}` violates `FillAttrMatches` |
| `hdf5attr.c:567` | the same in netCDF-4: the fill value is copied from the client's memory without conversion, the attribute is converted (line 652) | `NC4Coord` has no types |
| `esdm_dispatch.c:656` | `nc_sync` leaves the hidden attributes visible to the client | clients do not list attributes |
| `esdm_dispatch.c:496` | the open mode is ignored: a dataset opened read-only can be changed | every open is for writing |

## The proofs

What is proved follows the components: the file table, buffered files, files in
memory, the classic format, the DAP2 cache, the lists of names and the ESDM driver are
proved for every value of their constants. The runs check the same properties on small instances.
No theorem takes a fact about the code on trust. What the modules assume of their
constants is their types, that bounds are numbers and that the primes ascend; TLC
evaluates it on every run. Further hypotheses are named in the statements and
explained here.

### NCFileTableProofs

For every set of NC objects, every assignment of dispatchers and every length of
the table:

| Theorem | Says |
|---|---|
| `TypeCorrect` | `Spec => []TypeOK` |
| `CountCorrect` | `Spec => []CountExact`: `numfiles` is the number of occupied slots |
| `NeverDangling` | `Spec => []NoDangling`: listed objects are not freed, and sit where their id says |
| `IdsStayValid` | `Spec => []OpenIsFindable`, if there are more slots than objects |
| `SubstratesOwned` | `Spec => []SubstrateOwned`: an open DAP2 dataset has an open substrate that no other has |
| `OpensCloseNoOther` | `Spec => OpenClosesNoOther`, if the table has a slot to spare: a step that is no close of the user's closes none of the user's datasets |

Assumptions are those of the module: `KindAssumption`, `LengthAssumption`
(a table has at least the slot 0), `NullAssumption`. `IdsStayValid` also
assumes `Room`, that the objects are finitely many and fewer than the slots, and
`OpensCloseNoOther` assumes `SpareRoom`, one slot more. Without them the properties
fail, as the table of disagreements says: the result of `add_to_NCList` is ignored,
and the id -1 names the last slot. `SubstratesOwned` needs neither: it holds with
the table full.

*The argument.* None of these invariants is inductive. `del_from_NCList`
decrements `numfiles` for an object that `IsListed`, which asks
`nc_filelist[ext_ncid[n]] = n`; that this means "n is in the table" needs that
each object is at its `ext_ncid` only. And whether a freshly allocated object
could be listed already depends on its phase. `IInv` therefore has `Table`
(types, the count, each entry at its own id, never in slot 0, the list exists
when it is not empty) and `Lives` (types of the rest, listed objects are not
"free"). The lemmas follow the code: `AddTable` and `DelTable` say what the two
functions of `nclistmgr.c` do to a consistent table (`DelTable` counts the
cleared slots through a bijection with the deleted objects, since `NCD2_open`
deletes two at once and some objects twice), `ListedIsListed` that the test in
the code finds exactly the listed ones. `NextIInv` has one step per action.

`IdsStayValid` needs the converse too: an object that is not free is listed, or
has the id 0 because the table was full (`Identified`). `NInv` adds a bound on
nested opens (`Nesting`: at most two, a DAP2 open outside, each of them in
progress), without which an open could return to a caller that has been freed.
`RoomLeft` is the pigeonhole argument that a slot is free.

For `SubstratesOwned` the invariant follows `nc3id` through an open (`Owned`): 0
until the substrate is created, -1 when that failed, and the id of an open, hidden
classic object from then on; no two DAP2 datasets hold the same (`NotShared`). That
the substrate cannot be closed from elsewhere is a fact about ids: a listed object is
found by its own id alone, unless the id is -1 (`FoundById`). With `SpareRoom` the
last slot is never taken (`LastFree`), because `add_to_NCList` takes the first free
one, so that -1 finds nothing.

### PosixIOProofs

For every block size, address space, length of requests and moves, and every file
to start with:

| Theorem | Says | When |
|---|---|---|
| `TypeCorrect` | `Spec => []TypeOK`: offsets are of blocks, `bf_cnt` is at most `bf_extent` | no call fails; reads may be short |
| `NeverAsserts` | `Spec => []NoAssertFails`: what is written out has been released, and the descriptor is where `pos` says | the same |
| `CleanMirrors` | `Spec => []CleanMirrorsFile`: a buffer that is not modified holds what the file holds | `Faults = {}` |
| `GetsReturnContent` | `Spec => []GetReturnsContent`: a get shows the bytes of its region | `Faults = {}` |
| `BufferedIsByteFile` | `Spec => IsByteFile`: `PosixIO` implements `ByteFile`, and a move is a memmove | `Faults = {}` |

The hypotheses are on `Faults`, the failures of system calls. A short read before the
end of the file loses bytes (`posixio.c:391`, see the table of disagreements), so the
last three need reads to be complete; the shape of the buffers survives it. A failed
call leaves the master's page in use when it is the slave's (`px_double_buffer` returns
without `px_rel`), and the position of one buffer behind the descriptor, which is what
`NeverAsserts` excludes. Moves are those of `Allowed`: upwards, the last first, those
of padded records that overlap by the padding included. `PadAssumption` says that a
length and a block are multiples of the unit that the padding fills up, so the last
turn of a move has at least `Pad` bytes to do.

*The argument* goes from the inside out, one lemma per piece of code. `FlushIs` and
`PginIs` say what one page of output and input does to the file and a buffer. The
five ways through `px_get` (`HitCovers`, `ExtendCovers`, `UpCovers`, `DownCovers`,
`ReplaceCovers`) all end in a buffer that `Covers` the request: it has room for it,
and nothing was lost on the way. What "lost" means differs for the two
buffers. In the master a byte is `Safe` when the next get will show it and, if the
buffer is not modified, the file has it too, so that it may be given up; `Keeps`
says that every safe byte stays safe. The slave is never written out, and it is stale
where the master has moved to; `KeepsBelow` is about the addresses under a limit only.
`CoveringOutcome` puts the cases together; `CountKeeps` is about the end of `px_get`,
the step where a wrong `bf_cnt` would bring bytes to light that are not the file's.

`SInv` is the invariant of the shape: between two calls no page is in use and no
descriptor astray, an empty buffer is the one of a new file or none, the slave is
never modified (`Structure`), and the loop of a move is inside the file and goes up
(`Motion`). `CInv` is the invariant of the contents, and it has to hold in the middle
of a move, when the file is neither the old nor the new one. `Expected` is what must
be safe then: the bytes of the goal where the move is done, the bytes still to be
moved at their old places, and nothing about the places they will go to. Below `Limit`
the slave must hold what is still to be moved. That is the reason why the slave may be
kept from one turn, and from one move, to the next without being read again: a turn
writes above what later turns read, since the moves go up and the highest block goes
first, and the next move ends below where the last began. `MidwayStep` is the step of
`Expected` for one turn, and `NextInv` puts together one lemma per action (`ReadStep`
to `CloseAndOpenStep`). For `ncio_px_sync` and the close, `Flat` says that what was safe is in the
file.

### MemIOProofs

For every memory size, page size, set of byte values and bound on failed gets:

| Theorem | Says |
|---|---|
| `TypeCorrect` | `Spec => []TypeOK`, the exact lock count (`LockCounts`) included |
| `OneOwnerAlways` | `Spec => []OneOwner`: after the close, the memory is the client's or freed |
| `HeldStaysAlways` | `Spec => HeldStays`: no step moves or frees memory somebody has a pointer into |
| `MemoryOfBytes` | if `Faults = {}`, `Spec => IsByteFile`: `MemIO` implements `ByteFile` |

The assumptions are `MemIOAssumption` and, for the last, that the disk does not
fail; with `Faults = {"disk"}` TLC finds the file that was not written. *The argument.* `HeldStays` is about
three actions (a get, a move and a close may grow or free), and what protects the
memory is a number: that `locked` is the number of regions held, plus the block
that is the client's, plus what failed gets left. `IInv` therefore carries
`LockCounts`, together with the shape of the three records, that regions lie within
the size in use (`Regions`), and `Owned`: while the dataset is open, the client
owns the block exactly when it was given locked. `Pads` and `Guarantees` say what
`memio_pad_length` and `guarantee` return; a "fault" needs `locked = 0`, hence no
region, by `LockCounts`. `FreeIInv` is the close: with nothing held and nothing
lost, `locked = 0` is the same as "the block is not the client's", which is what
the code tests before it frees. That `modified` is never set is part of `Handles`:
the one place that sets it comes after the reallocation where the model ends.

The refinement needs to know what is *not* in use: a get or a pad that makes the
dataset longer must not bring bytes to light that nobody wrote. `Hidden` says that
beyond the size in use there are none, in the memory of an open dataset and in the
block a client gets back (`Beyond`), and that a diskless dataset that cannot be
written holds what its file holds, since its close writes nothing and the next open
reads the file. `Grown` and `BelowShows` are the two facts about bytes that this
gives; one lemma per action (`OpenContent` to `CloseContent`) shows that the
contents change as `ByteFile` says or not at all.

### DapCacheProofs

For every set of variables, every shape of them, all limits and any number of
changes at the server:

| Theorem | Says |
|---|---|
| `NeverDetached` | `Spec => []AttachedAlive` |
| `CacheImplementsReads` | `Spec => ReadsForward`, that is `DapReads!Spec` |
| `LimitsHold` | `Spec => []LimitsKept`: the size that is accounted is that of the list, and the limits hold but for one response |
| `LastUsedHeld` | `Spec => []HoldsLastUsed`: the list is what was used last, in that order |

*The argument.* `AttachedAlive` needs that the node a get uses is in the list after
it: `TouchListed` for a hit, which moves it, and `InsertListed` for a fetch, which
adds it behind what is left. For the refinement the invariant `Fresh` says of each
variable that everything that could answer a get (`Answers`: the prefetch, or else
the nodes that have the whole variable) has all of it in *one* version, which lies
between the last one returned and the server's. It has to be one version for all of
them, or a get that reads the newer would leave the older behind to be found next;
the code ensures it by fetching only what no node answers (`FetchStep`). And it
needs that a closed connection has no cache, since a node that outlived it could
answer beside the next prefetch. `WalkReads` is the read itself: an element that is
asked for is in the response, whether the response is the whole variable, what was
asked for, or everything because the server takes no constraints. `RoomFound` and
`LatestFound` show that the choices made by `buildcachenode` and `iscached` exist.

The limits and the order of use are one induction (`LInv`): the list is a tail of
the history of uses (`IsTail`), and `cachesize` is the sum of the sizes. That taking
the oldest node away takes its size off the sum, and that moving a node to the end
changes nothing, are facts about a fold over a sequence, which follow from
`FoldValues` of `DataFacts`. The two loops that evict are `Room`: the least number of
nodes whose removal satisfies both limits.

### NCIndexProofs

For every set of names, every hash function, every ascending table of at least four
primes (no primality is used), every smallest table size and every bound on the list:

| Theorem | Says |
|---|---|
| `TypeCorrect` | `Spec => []TypeOK`: the count of active slots is exact in every state of every call, and so is what rehash has moved |
| `NamesLeadToObjects` | `Spec => []LookupRight`: an active key is found in its slot, each object by its name, and no other name is found |
| `IsAList` | `Spec => Refines`: `NCIndex` implements `NameList` |

The assumptions are `HashAssumption` and `BoundAssumption`. *The argument.* What makes
probing work is `Reached`: on the way from a key's home to its slot there is no empty
slot and no other slot with the key. Adding fills a slot that is empty or deleted
(`PlacedOK`), removing leaves a deleted slot and not an empty one (`ClearedOK`), and
with fewer active slots than slots there is a place for one more (`RoomToPlace`), since
probing comes to every slot (`ProbesAll`). The state of a call in progress is the
rest: while a rehash runs, the entries of the list are in the new table, in the part
of the old one that is left, or in what the call still has to add, none is in two of
them, and nothing else is (`ContentOK`, `OldOK`); while a prime is looked for, it is
between `L` and `R` (`SearchOK`). `NC_hashmapremove` in the classic arrays and the
rebuilding of `NCindex` keep the places right by `FrontIs` and `WithoutIs`, which are
about a list with one object less. The refinement then is about the list alone. That
a search for a prime ends is liveness and stays with TLC (`CallReturns`).

### EsdmDispatchProofs

For all names, lengths, values and bounds:

| Theorem | Says | Assuming |
|---|---|---|
| `TypeCorrect` | `Spec => []TypeOK`: ids of dimensions lie in the table, which stays within its bound | `ForeignFit` |
| `TablesDescribe` | `Spec => []TablesAgree` | `ForeignFit`, no "redefine" |
| `CommittedOpens` | `Spec => []ReopenAccepted` | `ForeignFit`, `ForeignMatch`, no "redefine" |
| `FillAttributeRight` | `Spec => []FillAttrMatches` | `ForeignFit`, `ForeignFills`, no "rename_fill" and no "mistyped_fill" |
| `DatasetIsNetCDF` | `MeaningSpec => IsDataset`: the driver implements `NCDataset` | `ForeignFit`, `ForeignWritten`, no "redefine", no "taken" and no "mistyped_fill" |

The hypotheses are about what is outside the driver. `Foreign` are the containers that
exist at the start, which other programs may have written: they have no more names of
dimensions than the bound of the instance (`ForeignFit`), a name has one length in
them (`ForeignMatch`), a fill value is that of its attribute (`ForeignFills`), or they
were written by netCDF at all (`ForeignWritten`). With no such container all four hold.
"no x" is `x \notin Unusual`: clients do not do what netCDF has an error for and the
driver has none, nor put a fill value that the driver would have to convert
(`esdm_dispatch.c:1466`). Each of them is needed; the table of disagreements says what fails
without it. `MemoryAssumption` is about conversions: they agree with the
memory where nothing has to be converted. `Absent` has to be something else than a
dataset (`AbsentIsNone`).

*The argument.* The three tables that name dimensions, the driver's by id, ESDM's by
position and the ids of each variable, stay consistent in names whatever is done
(`Follows`), and in lengths as long as none is redefined (`Sized`): hence two
invariants, `Inv` and `EInv`, with one lemma per call (`CreateKept` to `GlobalKept`).
The hard call is the open, which builds the table from nothing: `DimTableIs` says, by
induction over the dimensions that are met, that it has each name once, in the order of
its first occurrence, with the length it has there. From that, `OpenedIs` (what opens
has consistent tables), `DescribedMatches` and `CommittedIs` (what has consistent tables
commits to something that opens).

For the refinement, a list without duplicate names stands for one function
(`AsFunctionIs`, `SizesIs`), so that appending, replacing, removing and renaming an
entry are what `NCDataset` says (`LinkedMeans`, `UnlinkedMeans`, `AttsRenamedMeans`,
`SizesRenamed`, `SizesAppended`), and the meaning of a dataset does not depend on ids
(`MeaningIs`): an open may number the dimensions anew. `CommitMeans` is the round trip:
opening what was committed finds the same dimensions, those that no variable has
included, which are in the hidden attributes, and only if netCDF made the container
(`OInv`). `UInv` says that no attribute name is there twice, and holds because nothing
is renamed to a name that is taken.

### NC3Proofs

For all sizes of a header, shapes of variables, arguments of `nc__enddef`, alignments
and bounds:

| Theorem | Says | Assuming |
|---|---|---|
| `Invariant` | `Spec => []IInv`, the invariant that the others follow from | |
| `TypeCorrect` | `Spec => []TypeOK` | |
| `FlagsTellAlways` | `Spec => []FlagsTellChanges` | |
| `LayoutAlwaysDisjoint` | `Spec => []LayoutDisjoint` | |
| `AlwaysReadable` | `nc_open` accepts the header in the file, whatever was done before | |
| `HeaderAlwaysReadable` | `Spec => []HeaderReadable`: nor are its bytes written over | |
| `AssertionsAlwaysHold` | `Spec => []AssertionsHold` | `r_align` is 1 |
| `AbortAlwaysRestores` | `Spec => AbortRestores` | `Undone` |
| `EnddefNeverLoses` | `Spec => EnddefKeepsValues`: `nc_enddef` moves values and loses none | `Rounded` |
| `RefinesRecords` | `Spec => IsRecords`: `NC3` implements `NCRecords` | `Rounded`, `Undone` |

The first six hold wherever `nc_enddef` fails (`FailAt`). The hypotheses of the others
are what the table of disagreements says about them. With `r_align` the assertion that
records do not move backwards can fail. `Undone` says that nothing is pending when
`nc_redef` is called (`nc_redef` followed by `nc_abort` loses records otherwise, run
`nc3_abort`) and that `nc_enddef` fails in its first step if it fails: with a positive
`done` data is at its new place under the old header. Without failures and with a sync
before `nc_redef` both hold. `Rounded` says that the parts of a header, `h_minfree`,
`v_minfree` and the alignments that are asked for are multiples of `Align` (an alignment
may also be 1, the default). The first is so for any header, the rest for `nc_enddef`
and for what `dfile.c:1196` says of `nc__enddef`; without it records are lost, as the
table says for `nc3internal.c:648`. It holds in the instances of the runs.

*The argument.* `IInv` has four parts. `Parts`: every header is one, within the
bounds. `Modes`: which flags come with which mode. `Layout`: outside define mode the
variables are laid out (`LaidOut`: fixed variables in order behind the header, padded
records in order behind them, the record size that of all of them, unpadded if there
is only one), and in define mode those of `old` are, which has a prefix of the variables
(`Extends`). `Matches`: the file's header is the one in memory but for what a flag tells.
The last is needed because `nc_redef` with `NC_SHARE` and `nc_open` compute the places
from the header in the file (`FromHeader`).

`LaidOut` is what `NC_begins` establishes. Its loops are recursive functions;
`PaddedIs` and `FixedEndsIs` unfold them by `EveryNatural`, and each variable then lies
behind those before it by induction over the distance. `LaidDisjoint` derives from it
that no two values share a byte, for any two records of any two variables. The moves
and fills of `NC_endef` are sequences of `Downwards`, of which the proofs use that
they are some moves, each towards the end of the file (`MovesAre`), around one write of
the header (`StepsAre`): what is moved into the bytes of the header comes from before,
so it is header (`StepLeaves`, `DoneIs`). A failure cuts the sequence (`FailsIs`).
`AbortRestores` needs another invariant, `Restorable`: between `nc_redef` and its end
the file's header is that of `old`.

`EnddefKeepsValues` asks more of the steps: not only that they are moves, but their
order. The move of one value is safe for one that is moved later (`Safe`) if it does not
write where that one is now, and if the two new places are apart as well or overlap by
the padding only, which is moved by the same distance. `Downwards` lists places from the
last to the first (`DownwardsIs`), so moves of records are safe when a padded record
never reaches over a place that is not moved yet (`RecordsSafe`). That is so because
places are multiples of `Align`, another inductive invariant (`Padding`,
`PaddingInductive`). Records move away from the fixed variables, which are moved after
them (`RecordsFirst`, `FixedFirst`); where `begin_var` stays none of these has a new
place (`FixedStay`). So each place has its value after all moves (`ValuesMoved`), the header
and the fills that follow lie beside it (`StepBeside`, `FilledBeside`), and what a
reader gets for a variable depends on these bytes and its shape only (`MeaningOf`,
`ValueSame`); `EnddefKeepsStep` puts that together.

`RefinesRecords` uses all of these invariants and one more, `Roomy`: the header in the
file leaves room for `MaxRecs` records of each of its variables, and a dataset that is
being created has none. What is left is what is written. Filling is a sequence of writes,
each of a whole place (`FillRun`), in any order, since the places are apart (`FilledApart`):
after it each place of the set is filled and each other one is as it was (`PlaceFilled`).
The padding of a record is filled with it but that of an only record variable is not
there, which is what `FillLen` has to get right. From that follow the values of new
variables at `nc_enddef` (`EnddefFilled`, `EnddefMeans`) and of the records that
`NCvnrecs` adds before the one that is put (`GrownBytes`, `PutFinds`); that the value
that is put is in its place and in no other is `LaidDisjoint` again. An open reads what
was written, because what `FromHeader` computes is what `NC_begins` had decided
(`ReadMeans`, `SyncMeans`). With one lemma for each call (`CreateCreates` to `PutPuts`)
`StepRecords` is the step of the refinement. `Undone` is needed for the three that give
something up or fail: `nc_abort`, `nc_redef` with `NC_SHARE` and a failing `nc_enddef`.

No module with a theorem uses recursion or finite-domain tricks, so TLC and the
prover look at the same text.

## Limits

*Only model-checked.* Everything about `NC4Coord`; `CallReturns` of `NCIndex`. That calls of `PosixIO` which fail leave the
memory as `ByteFile` says is neither: it is not so.

*Out of the prover's reach.* Liveness and `ENABLED`, so `CallReturns` stays with
TLC. The library's induction theorems take an operator, which the installed provers do
not instantiate; `DataFacts` states induction for a set of numbers instead
(`LeastNatural`, `EveryNatural`) and what follows from it for functions that are
defined step by step and for folds of sets (`Iteration`, `FoldExists`, `FoldValues`).
With these the table that an open builds, the sum of the sizes in the cache and the
loops of `NC_begins` and `NC_endef` are proved. It has not been tried on those of
`nc4_rec_write_metadata`. RECURSIVE operators are out of reach, and
the modules with theorems have none.

*Assumed.* Calls do not overlap. ESDM calls succeed, and HDF5 calls fail only for
what `HDF5File` says of their arguments. In `NC3`, `ncio` is `ByteFile`; that this
is what `posixio.c` and `memio.c` provide when system calls succeed is what the
theorems `BufferedIsByteFile` and `MemoryOfBytes` show. Two names whose CRC agrees are told apart by comparing
them, as `nchashmap.c` does. A dataset is open once at a time in one process.

*Not modelled within the modelled components.* In `PosixIO`: the spx functions
(`NC_SHARE`), the test for write permission. In `NC3`: `NC_NOFILL` and the
padding on close, read-only opens, the size limits of the formats
(`NC_check_vlens`), a second process under `NC_SHARE`, errors of `ncio` outside
`NC_endef`, a crash with a dirty buffer. In `EsdmDispatch`: the data of variables,
the growth of unlimited dimensions, `set_fill`, creation over an existing
container, the MPI variants, out-of-range variable ids (nine functions test
`varid > count`), `ESDM_inq_attid` (`esdm_dispatch.c:1236`), the order in which a
failing close loses the earlier status (`683`). In `MemIO`: what follows on an
undefined use of the heap, failing allocations. In `NCIndex`: `ncindexset` and
`ncindexdup`, which nothing calls, and memory that runs out. In `NC4Coord`:
unlimited dimensions and their growth, groups, user types, attributes other than
`_FillValue`, the classic model, phony dimensions, parallel files. In `DapCache`:
constraints and URLs that take a slice of a variable, the conversion of the
response, sequences and strings, libcurl. In `NCFileTable`: the choice of the dispatcher, and netCDF-4's,
DAP4's and the other dispatchers' own failures.

*Not modelled at all.* The XDR conversions of `ncx.m4` (arithmetic on machine
types, which tests reach well), parsers (oc2, DAP4, ncgen), the programs on top
of the interface, and drivers that make one external call per operation.

## Plan

What the next extensions would be, in order of what matters most to a user's data.

1. *Theorems.* That ids and names of dimensions are distinct in `NC4Coord`.
2. *Data.* The data of ESDM variables and unlimited dimensions, failing ESDM calls;
   `NC_NOFILL`, read-only opens and the spx functions of the classic format;
   unlimited dimensions of netCDF-4.
3. *Further modules.* The reference counts of `nc4memcb.c` under HDF5's image
   callbacks (`nc4memcb.c:263`); the odometer of strided access and
   `NCD4_dechunk` as pure algorithms against reference definitions; `NCList`
   (`nclist.c:247`); the choice of the dispatcher.
4. *Liveness.* Moves of `PosixIO` end: its loop in `MoveStep` under the fairness that
   `index` uses.
