# A TLA+ model of AnuDB

AnuDB is an embedded document database in C++ on top of RocksDB. This directory
holds TLA+ modules that model its core, TLC configurations that check them on
small instances, and proofs that TLAPS checks for every instance. Source paths
are relative to the repository's root.

## The system

| Part | State it keeps | Operations | Talks to |
|---|---|---|---|
| `Document` (`src/Document.cpp`) | an id and a JSON object | field access, `applyUpdate` with `$set`, `$unset`, `$push`, `$pull`, msgpack | – |
| `Collection` (`src/Collection.cpp`) | its name, `collection_mutex_`, `export_thread_` | create, read, update, delete a document; create, delete an index; find; import; export | `StorageEngine`, `Cursor` |
| `Cursor` (`src/Cursor.cpp`) | a RocksDB iterator and `valid_` | `isValid`, `next`, `current` | `StorageEngine` |
| `StorageEngine` (`src/storage_engine/`) | `db_`, the map `columnFamilies_`, the handles | open, close, create and drop column families, get, put, remove, scans by value, export to a file | RocksDB |
| `Database` (`src/Database.cpp`) | `isDbOpen_`, the map `collections_` of `Collection` objects | open, close, create, drop, get a collection | `Collection`, `StorageEngine` |
| MQTT bridge (`mqtt/AnuDBMqttClient.cpp`) | 32 `Work` records, `collMap_` of pointers, `mtx_` | one handler per command, responses with retries, start, stop | `Database`, NNG |

A collection is a column family; an index of a field is another one, named
`<collection>__index__<field>`, whose keys are `value#id`. Nothing but the code's
order of writes ties a document to its index entries: there is no write batch
and no lock around them. `updateDocument` is the only operation that takes
`collection_mutex_`. The bridge serialises its handlers with `mtx_`; an embedded
program calls from any thread. An export runs on a thread the `Collection`
object owns and joins in its destructor, and the destructor also drops the
collection's indexes.

What is hard here, and hard to test: the writes of one call interleaved with
those of another, or cut short by an error, an exception or a crash; an index
made or dropped under a running call; queries whose scans see different moments;
acknowledged writes that a power loss takes back; keys that run into each other;
objects and pointers that outlive a drop; export threads against drops and closes;
files replaced in several steps. What makes each part correct:

* **Collection** – every stored document can be found through every index that
  is ready; an index names only documents that match; an update is not lost;
  the mutex is always given back; callers see one atomic map of documents.
* **Database** – no pointer, thread or object outlives what it refers to; calls
  end; closing loses nothing.
* **Export** – a JSON file is a complete export.
* **Query** – a query returns the documents that match, and no others, whatever is
  written between its scans.
* **Keys** – entries never run into each other; the order of the bytes is that of the
  values; numbers can be read back.
* **Import, log** – an import without failures is whole, also when it is made again;
  what a power loss leaves is consistent.
* **Bridge** – a worker answers its own request, at most once and after the documents;
  it returns to receiving; a stop waits for handlers; what it sends matches the query.

`PROJECT.json` lists the components, the hazards with their lines, and, for each
definition, the code it models.

## Modules

| Module | Models | Uses |
|---|---|---|
| `Document` | documents by field, `parseValue`, `applyUpdate` | |
| `DocumentStore` | what a collection promises its callers: an atomic map from ids to documents | |
| `Collection` | one collection, its indexes and the threads that call it | `Document`; implements `DocumentStore` |
| `Query` | `findDocument`, scan by scan, beside those threads | `Collection` |
| `Handlers` | what the bridge's handlers do to a collection, and answer | `Query` |
| `Durable` | the write-ahead log and power loss | `Collection` |
| `Import` | `importFromJsonFile` | `Durable` |
| `KeyEncoding` | the bytes of an index and the iterator loops over them | |
| `Database` | collections, their objects, the client's pointers, export threads and files | |
| `MqttBridge` | the bridge's workers, `mtx_`, replies and retries, start and stop | |
| `MCCollection`, `MCQuery`, `MCHandlers`, `MCImport`, `MCKeyEncoding`, `MCDatabase`, `MCMqttBridge` | instances for TLC | |
| `CollectionProofs`, `SerialProofs`, `QueryProofs`, `HandlersProofs`, `ImportProofs`, `KeyEncodingProofs`, `DatabaseProofs`, `BridgeProofs` | theorems | |

### Document

A document is a function from the fields that may be indexed to what the JSON
object holds there: nothing, a scalar `<<type, value>>`, an object, or an array.
`parseValue` keeps what the code's keys tell apart and what they do not: `true` and
`"true"` share a key, null and `""` do, integers are kept modulo `IntRange` (2^32
in the build; 4 in the instances, which put 1 and 5 under one key), and arrays and
objects have no key, because converting them to `std::string` throws. The eight
bytes of a numeric key are one-to-one, so a number stands for them; `KeyEncoding` has
the bytes. The update
operators run in the order of their names, as the iteration over the JSON object
does. A key with dots changes the inside of a compound value, which stays compound,
or falls back to a top-level field.

### Collection

| Code | State or actions |
|---|---|
| the collection's column family, the indexes' | `docs`, `cfs`, `index` |
| `collection_mutex_` | `mutex` |
| the local variables of a call | `call[t]` |
| `createDocument` | `CallCreate`, `CreateNames` (`getIndexNames`), `PutIndex` per index, `PutDoc`; `PutRejected` when `parseValue` throws or the index is gone |
| `updateDocument` | `CallUpdate`, `UpdateRead` (lock, read, apply), then `createDocument`'s steps; `UpdateNotFound` |
| `deleteDocument` | `CallDelete` (read), `DeleteNames`, `RemoveIndex` per index, `RemoveDoc`; `RemoveRejected` |
| `createIndex` | `CallCreateIndex` (column family), `OpenCursor` (snapshot), `FillRow` per row, `FillDone`; `FillRejected` |
| `deleteIndex` | `DeleteIndex` |
| a get, put or remove that fails; an iterator that fails; a column family that cannot be made; a process crash | `IOFails`, `ScanFails`, `CreateIndexFails`, `Crash` |

Each action is one RocksDB operation, so anything may come between two of them.
`ready` is a history variable: the indexes whose `createIndex` has returned OK.
`OpsOf` says which operations each thread calls, with `createDocument` split into
`insert` (the id is not stored when the call starts) and `overwrite` (any id), so that
runs and theorems can say for which clients a property holds.

`DocumentStore` is the promise without the indexes: a request is pending from its call to
its return, and takes effect in one step (`Perform`), by what is stored at that moment, or
not at all (`Refuse`, `Forget`). `RequestOf` maps a call to its request, and `StoreRefined`
says that `Collection` implements it. It is not true of every client: `collection_mutex_`
is taken by `updateDocument` alone, so no thread may create or delete documents while
another one updates them.

### Query

`find` holds the local variables of `findDocument`: what is left of the filter, `andDocIds` or
`orDocIds`, and the result, as a set. A filter is a sequence of operators in the order of their
names, since that is how the JSON object is iterated; `$and` and `$or` have clauses. Each clause is one
step, because a RocksDB iterator is a snapshot (`Scan`), and the writers of `Collection` step in between.

| Code | Actions |
|---|---|
| the start, `getIndexNames` | `CallFind` |
| `$eq`, `$gt`, `$lt`, `$orderBy` by themselves, whose errors are logged and forgotten | `FindOne` |
| a clause of `$and` or `$or`; one that fails and empties the whole result | `FindNext`; `FindFails` |
| the end of `$and` or `$or` | `FindCollect` |
| an exception, of `parseValue` or of an `$orderBy` whose value is no string; the return | `FindThrows`; `FindReturn` |
| the death of the process, which ends the query and the calls beside it | `QueryCrash` |

`touched` and `steady` are history: the ids that calls have named and the indexes that have been ready
since the query began. `Matches` is the reference definition, of a document and a clause, without indexes. `$eq` compares whole keys
here (`Selects`). In the code it looks for rows that begin with `value#`, which is the same as long as no text has a `#`: the texts `a#b` and
`a` share that beginning, and `$eq` of `a` returns both. `KeyEncoding` has such texts; `Query`'s results are about fields without them.

### Handlers

`handle_request` holds `mtx_` and the bridge is the only user of its database, so one thread, `Server`, makes
one call at a time. A handler is the call it makes, by the steps of `Collection` and `Query`, the status it
answers and the documents it streams (`streamed`, published by `send_response`, whose retries are in
`MqttBridge`). `handle_delete_index` makes the call of `handle_create_index`, as the code does. The collection is in
`collMap_`; finding it there is `Database`'s part. The handlers that only read (`read_document`, `get_indexes`,
`get_collections`) are left to `MqttBridge`.

### Durable and Import

`disk` is what recovery would find after a power loss. The code never asks for a write to be synced
(`getWriteOptions`), so `disk` lags behind until the log reaches it (`Persist`): by the operating system, by
a flush or by the `SyncWAL` of `close`. All column families share one log, it is synced before a flush, and
recovery stops at its first gap, so `disk` is always the store of one earlier moment. Making and dropping column families
is recorded in RocksDB's MANIFEST, which is synced, so those last.

An import is a loop over the items of the file: `StartImport`, then `SkipItem` for an item that is no object,
`ItemThrows` for an `_id` that is no string, or `ImportItem` and the steps of `createDocument` (`Importing`, `ItemStored`,
`ItemRejected`, `ItemFails`), and `ImportEnds`. Other threads take their steps in between; a `Stop` is a crash or a power loss.
`alone` is history: nobody else has written since the import began.

### KeyEncoding

Numbers are words of `Width` bytes of `Base` values, 8 and 256 in the build. An index holds one kind of values (`Kinds`):
ints, doubles (as the bits of their word), texts without `#` under any ids (`text`), or any texts under ids without `#` (`hashed`). The code checks
neither texts nor ids; with a `#` in both, `a#b` under `c` and `a` under `b#c` are one row, so that case is left out. `putIndex` and `remove` change the rows `value#id`; the loops of the four
scans walk them row by row with the moves of an iterator (`Seek`, `SeekForPrev`, `NextRow`, `PrevRow`). Column families are opened
with `ColumnFamilyOptions()`, so they have no prefix extractor, the option `prefix_same_as_start` has no effect,
and iterators run through all rows in byte order. `entries` is what the rows stand for: the pairs of `Collection`'s `index`.

### Database

One client calls the database and keeps the pointers it was given, as the bridge
does in `collMap_`: it stores one after `createCollection` and `getCollection`, and
erases it when `dropCollection` has returned OK. Unlike the bridge it need not wait for
an export. `Client` adds the careless calls: `dropMissing` (dropping a name that does not
exist) and `exportTwice` (exporting again without waiting). `collections_` is `objects`;
`held` says of each pointer whether it is valid; `export` is where each export thread is;
`dump` and `json` are its files. A destructor drops the indexes one by one and then joins
the export thread, so drops, re-creations and closes take several steps in which export
threads go on. `Crash` keeps what is on disk and nothing else.

### MqttBridge

| Code | State or actions |
|---|---|
| `Work` (`state`, `aio`, `msg`, `reply`, `requestid`), and the locals of `handle_request` | `work[w]`; `serving` is a history field: the last request taken |
| `mtx_`; stopped `nng_aio`s; what was published | `mtx`; `stopped`; `sent` |
| `start` | `Start`, `StartWorker`; `StartFails` |
| `client_cb` in `RECV`, `WAIT`, `SEND` | `Receive`, `ReceiveFails`; `Skip`, `Lock`; `Publish`, `PublishAllocFails`, `PublishDone`, `PublishFails` |
| `handle_request` for a command with one response | `Answer`; `AnswerClosed` after the database was closed |
| `find_documents`, `read_document` without an id, `send_response` | `Query`, then per document `SendDoc`, `SendTimesOut`, `SendGivesUp`; `StreamDone` |
| `stop` | `StopClose`, `StopAio` per worker, `StopFree` |

`multiple_mtx_` is only taken under `mtx_` and needs no variable. What a handler does to
the database is left to `Database` and `Collection`; here a command is of one of five
kinds, which differ in how the callback goes on. `main` becomes `undefined` when a handler
uses what `stop` has taken away: its `Collection`, or the engine's `db_` in `createCollection` and
`dropCollection`. Closing the database is one step. The other handlers, on a closed database,
find no collection and answer so.

NNG and the broker are external. Assumed of them: an operation completes, with success
or an error; a send that fails may have reached the broker; `nng_aio_stop` cancels the
operation under way and lets no later one call back; `nng_aio_free` waits for a running
callback. A request is one delivery; the same message delivered again is another request.

## Runs

| Run | Instance | Shows |
|---|---|---|
| `CollectionUpdaters` | 2 threads that update one id and make and drop an index, all faults, fairness | `UpdateAtomic`: no update is lost; `MutexReleased`: the mutex is given back; `StoreRefined`; `TypeOK`, in which a dropped index keeps no entries |
| `QuerySerial` | 1 thread with all operations and one that queries, 2 fields, 2 ids, filters with all operators (`$orderBy` only one that throws), a crash anywhere but inside a delete | `IndexComplete`: no document hides from a ready index, in any sequence of calls; `FindsAll`, `FindsOnly`: a query returns the documents that stay and match, and of those that stay no others |
| `HandlersExact` | requests that insert, delete, make indexes and query (all operators but `$and`, exceptions), values with no key, iterator and column family errors | `IndexExact`: an index names only documents that match; `StreamsOnly`: so do the documents a query sends; `StoreRefined` for inserts and deletes |
| `ImportDurable` | 1 thread that imports, 1 that updates and drops indexes, 2 fields, 2 ids, I/O errors, crashes, power losses | `IndexComplete` among concurrent writers and after a power loss; `ImportWhole` |
| `KeyEncoding` | words of 2 bytes of 4 values, `#` in numbers and ids, or in texts | `RowsExact`, `EqualExact`, `OrderExact`, `RoundTrip` |
| `DatabaseLife` | 2 collections, 2 fields, careless client, crashes, export errors, failed opens | `ExportSafe`, `NoDangling`, `ExportWhole`, `TypeOK` |
| `DatabaseLive` | 1 collection, all faults, fairness | `CallsEnd`: drops, re-creations and closes end |
| `BridgeWorkers` | 2 workers, 4 requests, all faults, stops and restarts, fairness | `TypeOK`; `OwnReply`: replies go to the worker's own request; `ReplyLast`: nothing follows a reply; `WorkersReturn` |

Four runs end in a counterexample, each against a line of the documentation
or a comment (`PROJECT.json`, "findings"):

* `StaleEntry` – overwriting a document leaves the index entry of its old value.
* `AndForgets` – when the clauses of `$and` so far have no document in common, the next clause
  fills the empty accumulator again, and its documents are returned.
* `DeleteIndexCreates` – the handler of `delete_index` calls `createIndex`; it answers that the index
  was deleted, and it is there.
* `StopRace` – `stop` closes the database without `mtx_`, under a handler that is running.

These and a few more say where the passing runs must stop:

* `IndexComplete` holds for one caller with any operation as long as only the first field of a document may have a value
  without a key, and no fault cuts a delete short, and for concurrent callers as long as they neither delete nor make indexes. It is false after a `deleteDocument` that removes
  the entry of a first index and throws at an array in the second (`RemoveRejected`); for a document stored while an
  index is made, which may be in neither the cursor's snapshot nor its writer's list of indexes; with an iterator error
  or a column family that cannot be made (`ScanFails`, `CreateIndexFails`); and for an index that was made just before a power
  loss.
* `IndexExact` holds as long as no id is written twice, no write fails, and only the first field of a document may have a value
  without a key.
* `UpdateAtomic` and `StoreRefined` hold as long as no thread creates or deletes beside another that updates: a document
  stored by `createDocument` between an update's read and its put is overwritten.
* `FindsOnly` leaves out documents with stale entries, and holds `$and` to its meaning only while some document matches all
  of it. `FindsAll` needs every clause to have a ready index throughout.
* `ImportWhole` says nothing of a second file, whose items without an `_id` overwrite `doc_0`, `doc_1`, ... of the first.
* `RowsExact` and `EqualExact` are about indexes without a `#` in both texts and ids. `EqualExact` says what `$eq` returns where texts have a `#`: the documents
  with the value and those whose text begins with it and a `#` (`RunsOn`); only without such texts is it what was asked for. `OrderExact` is about texts whose bytes are all above `#`. Integers and doubles
  in one field have no common order, and `-0.0` has the key of the integer -1: a field holds numbers of one type, and neither
  a NaN nor `-0.0`.
* `ExportWhole` is false with a full disk (`ExportTruncates`), `NoDangling` with a column family that cannot be dropped (`DropCfFails`:
  the object is destroyed before the drop fails, and the bridge keeps its pointer).
* `DropNull` and `StartExportTwice` end the process, and the properties of `DatabaseLife` are checked with them. After a
  drop, `objects` still has the collection, because `dropCollection` calls `getCollection` after erasing it; `NoDangling` covers
  what a re-creation then does to pointers. `Close` drops the indexes of every collection that has an object, as its destructor
  does; no property says that indexes outlive a close.

**Bounds.** Two threads are what every race here needs: one call between two steps of
another. Two fields are needed for a call that fails between two indexes, two ids for a
cursor that is between rows, for a query's scans of different documents and for entries of different documents under one key; runs
with two writers keep one of the two small. `MaxFaults` is 1 or 2: a fault ends the call it
hits, so a second one meets the state the first has left. The filters of `QuerySerial` and `HandlersExact` together have each operator alone, and those that
`$and` and `$or` take inside them, clauses on both fields, values equal to, below and above those stored, and clauses that fail or throw. The files of
`ImportDurable` hold two items that meet under one id, with and without an `_id`, a value with no key, an item that is no object, and an `_id` that
is no string. In `KeyEncoding`, four values a byte are enough for one below, one equal to and two above `#`; the ints
are both ends of the range and -1, the doubles a positive one and both ends of the negative ones, and their keys contain `#`; the texts are one another's beginnings,
two of them going on with `#`; one id has a `#` and another is the end of a third. Two collections let one be
dropped or closed while the other exports; permuting them is sound in `DatabaseLife`, which
checks invariants only. The bridge has two workers, one to wait for `mtx_` while the other
streams, one request of each kind that goes its own way, two documents a request (a
first and a last one), the code's three retries, and time-outs without a bound. All other state is finite; no run needs a state constraint.

**Deadlock** is checked in every run.

**Fairness.** Weak fairness of each thread's next step inside a call (`Continue`), of the
client's call (`ClientStep`) and of each export thread: the operating system schedules
runnable threads. A `std::mutex` is not fair, so no run says that a waiting update gets the
mutex, only that its holder gives it back. Nothing obliges a client to start a call.
In the bridge, weak fairness of each worker's callback (NNG completes what it was given and has
threads to run callbacks) and of `start` and `stop` once begun. The requests are finite in number,
so a worker that waits for `mtx_` gets it when the others have run out: `WorkersReturn` says that no
holder keeps it, not that `std::mutex` is fair under endless load.

## Proofs

`CollectionProofs`, for any threads, fields, ids, documents and updates, and any faults:

* `TypeCorrect` – `Spec => []TypeOK`. `TypeOK` is inductive; one lemma per action.
* `WritersComplete` – `IndexComplete`, if every thread only inserts, overwrites, updates and
  drops indexes. `IndexComplete` alone is not inductive: it says nothing of the document a
  call is about to store. `WritersInv` adds `Entered` – a call in `put` has entered its
  document into every index it has visited, and every existing index is among those it has
  visited or has still to visit – and states the same of stored documents for all existing
  indexes. It rests on no thread removing entries other than with the whole index.
* `UpdatesNotLost` – `UpdateAtomic`, if no thread creates or deletes documents beside another that updates
  (`SoleUpdaters`). `UpdatersInv` adds `InHand`: what the holder of the mutex has in hand is its update applied to what is
  stored now, which holds because only the holder stores.
* `StoreImplemented` – `StoreRefined` from the same assumption and invariant: the call's first step is `Request`, the put
  or remove of the document is `Perform`, every other end is `Refuse`, a crash is `Forget`, and all else stutters.

`SerialProofs`, for one caller (the bridge, or a program with one thread), whatever it calls in whatever order. A call walks the indexes in the
order of their fields and ends at the first value without a key; documents are *orderly* if only the first field they have may hold such a
value, so that a refused call has written nothing. Without that both theorems are false (see `RemoveRejected` above).

* `SerialExact` – `IndexExact`, if the caller creates under new ids, deletes, makes and drops indexes (`ExactCalls`), with iterators and column
  families that fail but writes that do not. `IndexExact` speaks of the moments between calls only; `ExactInv` says of every moment that an entry is that of
  its stored document (`Live`) or was made by the call under way (`Fresh`), what that call has done so far (`ExactCall`), and that the
  indexes it has still to visit come after those it has visited (`InOrder`).
* `SerialComplete` – `IndexComplete` for one caller of every operation (`CompleteCalls`): the documents passed, and what updates make of them, are
  orderly, and nothing cuts a delete short. `CompleteInv` adds what `createIndex` has entered of its snapshot, which is still what is stored since
  nobody else writes, and which entries a delete has still to remove.

`QueryProofs`, for any filters, values and order of keys:

* `QueryOnlyReads` – `QuerySpec => Spec`, crashes included, so the theorems about `Collection` hold while a query runs.
* `QueryAnswers` – `FindsAll` and `FindsOnly`, if at every moment the ready indexes exist and are complete (`CompleteIndexes`). Each scan sees another moment, so
  `QueryInv` follows the documents that are not touched: what the operators done so far had to find is in the result (`Found`), and what is in the result or the
  accumulator has entries that the operators or clauses done so far select (`Justified`); `Walks` relates what is left of the filter to the
  filter, and `Watches` says that the history variables miss no writer and no dropped index.
* `WritersFindAll`, `WritersFindOnly` – the same for any number of threads that insert, overwrite, update and drop indexes, through I/O errors and crashes, where
  `WritersComplete` gives complete indexes; `SerialFinds` – for one caller of every operation, by `SerialComplete`.

`HandlersProofs`, for any requests:

* `HandlersUseCollection`, `HandlersUseQuery` – the handlers implement `Spec` and `QuerySpec`. The second needs `Serving`: while `find_documents` runs, no other
  call does, and its filter is the request's.
* `HandlersExact`, `HandlersAtomic`, `HandlersFind` – so `IndexExact`, `StoreRefined`, `FindsAll` and `FindsOnly` hold behind the bridge, by `SerialExact`,
  `StoreImplemented` and `SerialFinds`.
* `HandlersStreamOnly` – `StreamsOnly`: the documents sent match, from `ExactInv` and `Collected`: what a query without `$and` has collected matches what is stored now,
  because nobody writes between a scan and the sending. Complete indexes are not needed, so iterators and column families may fail.

`ImportProofs`, for any files, threads and faults:

* `DurableComplete` – `IndexComplete` for writers on a machine that loses power. What is on the disk may become the store at any
  moment, so `DurableInv` says of the disk what `WritersInv` says of the store.
* `ImportIsWriter`, `ImportComplete` – an import implements `DurableSpec` (`ImportInv`: the call under way is the one for the current
  item), so the same holds of imports.
* `ImportsWhole` – `ImportWhole`. `WholeInv` adds that failures are counted at least once per item that is no object, so
  that their number says whether an object failed, and that while the import is alone nobody else is in a call.

`KeyEncodingProofs`, for any byte size, word width, values and ids:

* `EntriesKeepRows` – `RowsExact`: two entries never share a row, because the keys of numbers have one width, texts without `#` end
  at the first one, and texts with `#` at the last one if the id has none (`KeyPrefix`, `RowsInv`).
* `NumbersReadBack` – `RoundTrip`: decoding gives the number back (`WordRead`). Here and where words are compared, the induction over the bytes is by the
  least place at which something would go wrong (`LeastNumber`), a form the provers can use.
* `EqualFindsExactly`, `OrderFindsExactly` – `EqualExact` and `OrderExact`, from one invariant for the four loops. `ScanInv` says that the rows taken are wanted ones
  (`TakenExact`), in the direction of the loop and so each once (`TakenOnward`), that the loop stands beyond them (`Ahead`), and that every wanted row is taken
  or not yet passed (`TakenAll`). That the wanted rows are contiguous rests on the order of bytes being the order of values: `WordOrder` for the
  words, `KeyOrder` for ints (sign bit flipped) and doubles (flipped in two ways), `LessWithHash` for texts whose bytes are all above `#`. `$eq` needs no more than that the rows with one prefix lie together
  (`PrefixConvex`) and whose rows they are (`PrefixOwner`): those of the value and of the texts that go on with `#` after it.

The provers know nothing of `^`, so its two defining equations are an assumption (`PowersAssumption`), which TLC evaluates.

`DatabaseProofs`, for any collections and fields:

* `DatabaseTypeCorrect` – `TypeOK`, in which every index still to be dropped exists.
* `ExportsAreSafe` – `ExportSafe` under every fault. `ExportInv` adds which object owns a thread
  (`Owned`), that no thread is left once a call has got past the destructor (`Joined`), where a
  walk may still be going on (`Scanned`), that pointers are to objects in the map, and what a
  re-creation replaces.
* `PointersAreValid` – `NoDangling`, if column families can always be dropped. A pointer dangles
  only to the object the current call has destroyed, and the call ends by erasing or renewing it.
* `ExportsAreWhole` – `ExportWhole`, if the disk takes what is written. An export about to replace
  the JSON file has a complete dump file.

`BridgeProofs`, for any workers, requests, retries and faults:

* `BridgeTypeCorrect` – `TypeOK`: `mtx_` is held by exactly the worker in `handle_request`.
* `RepliesAreOwn` – `OwnReply`. `Own` adds what holds outside `SEND`: the request in hand is the
  last one taken, nothing is being sent, and while a reply is being sent none is kept.
* `RepliesAreLast` – the action property `ReplyLast`. `LastInv` adds that a request is with the
  broker or with at most one worker, and that a worker that may still publish (`Busy`) has not
  replied; a step publishes only for the request of the worker that takes it (`Alone`).

Apart from that and what `KeyEncoding` assumes of values (above), the constants are assumed to be of their
types (`ASSUME`s of the modules), and no more. What a theorem assumes of the callers is in its statement, and the instances
of the runs satisfy it: `HandlersExact` has `ExactCalls` and `SoleUpdaters`, `QuerySerial` has `CompleteCalls`, but for a crash, which it has where no delete is under way, `ImportDurable` has `WritersOnly`. The
inductive invariants were checked by TLC on small instances before they were proved.

Only model-checked: the liveness properties `MutexReleased`, `CallsEnd` and `WorkersReturn`, since fairness is out of the prover's reach. Every
other property of a passing run is a theorem.

## Abstractions

* Look-ups in and changes of `columnFamilies_` are atomic. The map has no lock, so threads that
  make or drop column families beside others race on it; what such a race does to the map's
  memory is not modelled.
* Ids are chosen by the caller; `generateId` and the `_id` field are left out.
* `Crash` is the death of the process, which loses nothing RocksDB has taken; a power loss is `Durable`'s. Power losses are
  composed with imports and writers, not with queries, handlers or exports.
* An iterator is a snapshot, so a scan of `Query` is one step and writes wait for the end of a scan in `KeyEncoding`. The order of keys is `KeyRank`
  in `Query`, bytes in `KeyEncoding`.
* A failing `db_->Close()` is not modelled; a failing open is, with the flag `isDbOpen` it leaves.
* `readDocument`, `readAllDocuments` and cursors of clients change nothing and are not actions.

## Plan

1. `Document`, `Collection`, `Database`, `MqttBridge` with their runs and theorems: done.
2. `DocumentStore` and its refinement, `Query`, `Handlers`, `KeyEncoding`, `Durable` and `Import`: done.
3. Theorems for every safety property of a passing run: done.
4. Proofs next: the scans of `KeyEncoding` as an implementation of `Query`'s `Scan`, so that the bytes and the queries are one result.
5. Left to model: `MqttBridge` composed with `Database`, so that `stop` meets the steps of a close; the export round trip.

## Not modelled

Left out: TLS and command line of the bridge, RocksDB's tuning options, `Status`, the demo in
`main.cpp`, the examples, and third-party code, which is taken as atomic operations that may fail.
