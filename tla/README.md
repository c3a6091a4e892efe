# BE-WMS in TLA+

BE-WMS is the back end of a warehouse system: RFID readers report the tags they
see, users assign the tags to manufacturing orders, stock them, and transfer,
pack and report what is in stock. It is a NestJS program that pm2 runs in two
instances (`ecosystem.config.js`), over four stores that share no transaction:
SQL Server (one database per tenant, an ERP and a "data lake"), MongoDB
(`epcs`, `epcs_backup`), Redis (two BullMQ queues, a cache) and the API of a
customer.

This directory models what those stores hold, how requests, queue workers and
streams change and read it, and what each request passes before it may. Every
definition is translated from `src/`; `PROJECT.json` gives the lines (`map`),
the runs, the hazards each property is for, the disagreement a run shows and
the theorems.

Contents: [inventory](#inventory), [modules](#modules),
[runs](#runs-bounds-and-what-they-show), [fairness](#fairness),
[proofs](#proofs), [abstractions](#abstractions),
[disagreements](#where-code-and-documentation-disagree),
[not modelled](#not-modelled).

## Inventory

| Component | State | Operations | Interacts with |
|---|---|---|---|
| stocking (`rfid.service.ts`, `upsertFPStock`) | `dv_InvRFIDrecorddet`, `epcs`, `epcs_backup` | `PUT update-stock`: find, MERGE per 100 tags, `insertMany` ∥ `deleteMany` | scans and exchanges write the documents it reads; a daily job outside the program archives its rows |
| order of a tag (`exchangeEpc`, `upsertBulk`) | `dv_rfidmatchmst_cust.mo_no`, `.mo_no_actual`, `epcs.mo_no` | exchange, sync, write of a scan | row locks of SQL Server; MongoDB outside the transaction |
| reader queue (`rfid.consumer.ts`, `rfid.controller.ts`) | BullMQ queue `POST_DATA_QUEUE` in Redis | post a scan, process it, clean the queue | the stream of a user triggers the cleaning |
| customer sync (`third-party-api.*`) | BullMQ queue `THIRD_PARTY_API_SYNC`, cached token | request a sync (scan or user), run it | customer API, ERP, `upsertBulk` |
| event stream (`rfid.controller.ts`, `captureDataChange`) | one change stream per client | first frame, frame per change, close | `epcs`, the reader queue |
| delete scanned tags (`deleteScannedEpcs`) | `epcs` | find, then delete what was found | stocking, scans |
| tenancy | map host → data source | first use initializes, header selects | every request |
| authentication | cached token per user | login, refresh, logout, guard | Redis |
| transfer orders | `dv_transferordermst`, `dv_transferorderdet` | create, update, approve, delete | codes numbered by a subscriber |
| warehouses, storage locations | two tables with unique codes | create, update, delete | codes numbered by subscribers |
| reports, inventory | — | inbound, outbound, daily reports; stock of a month | the tables of stocking and their archive |
| import orders, packing, departments, employees, users, order search | — | queries, single updates | ERP, data lake |
| file logger (`file-logger.helper.ts`) | three files both instances share | initialize, put an entry at the head, rotate | catch blocks of both queues, worker events, the customer's API, the exception filter; a cron job in each instance |
| Redis messages, request plumbing, configuration | — | — | — |

What is hard in it:

- **Interleaving.** Two instances, many handlers each. Every `await` is a point
  where another handler, a queue worker or a user's request changes the stores.
- **No common transaction.** `upsertFPStock` opens an SQL and a MongoDB
  transaction and uses neither; `exchangeEpc` and `upsertBulk` use the SQL one
  and write MongoDB outside it, before the commit.
- **Values read, then used later.** A stocking request deletes by order what it
  read by tag; a scan writes the order it read from SQL; a sync works on a list
  of tags taken when it was queued.
- **Failures that are swallowed.** Both queue processors catch every error, so
  BullMQ's attempts never apply; a `Promise.all` answers with the first
  rejection while the other call goes on.
- **Restarts.** pm2 restarts an instance (memory limit, deployment) between any
  two steps. HTTP handlers are gone, queue jobs stall and are taken again.
- **Job ids.** A sync job is named after its factory, so that all requests for a
  factory collapse into one, and a failed job blocks the name.

What makes each component correct:

- *stocking*: nothing is acknowledged, or copied to the backup, that is not in
  the inventory; nothing is counted twice through overlap and retry; a scanned
  tag is not lost; every request ends.
- *order of a tag*: SQL Server and MongoDB agree, or it is known exactly when
  they may not; a tag is registered twice only by syncs that overlap; a call
  takes effect at one point or not at all; transactions end.
- *reader queue*: an accepted scan is processed or its fate is on record; a
  worker keeps its scan; the queue drains.
- *customer sync*: a factory's id becomes free again; a tag the customer and the
  ERP know ends up with its order.
- *event stream*: the last frame a browser has shows the last state of the
  collection, or it is known why not.
- *tenancy*: one initialized data source per host, usable again after its host
  was away. *authentication*: a session that was ended stays ended.
- *transfer orders*: one per `or_no`, a code of its own, no details without an
  order, no change to an order nobody picked; and where the code does not keep
  these, the causes are known.
- *warehouses, storage locations*: a number can be given, and names one row; a
  warehouse lists its own locations.
- *reports*: what was acknowledged is counted, on one line unless there is a
  reason, and stays counted.
- *file logger*: an entry stays where it was put until the files are rotated, or
  it is known why not.

## Modules

```
StockLedger          what stocking promises                     (abstract)
  ^ implemented by
EpcStock             upsertFPStock and the writers it races with
  ^ extended by
StockReports         what the reports read off its tables

OrderRecord          what the table of record promises          (abstract)
  ^ implemented by
EpcOrder             exchangeEpc, upsertBulk, the write of a scan

BullQueue            BullMQ, as configured                      (external)
  ^ extended by
PostDataQueue        readers' scans
  | implements
  v
ScanDelivery         what happens to an accepted scan           (abstract)

BullQueue
  ^ extended by
DeckerSync           customer sync

RfidStream           the stream of scanned tags to a browser
Requests             tenant, data source and session of a request

OrderBook            what readers of transfer orders see        (abstract)
  ^ implemented by
TransferOrder        transfer orders and their details

Warehouse            warehouses and storage locations
FileLog              the log files
```

Each that is not abstract has an instance for TLC, `MC` and its name
(`MCEpcStock` is that of StockReports too), and a module of theorems, its name
and `Proofs`. The theorems about StockReports are in EpcStockProofs, those about
FileLog in PostDataQueueProofs, whose jobs log to it.

How they meet: a posted scan (PostDataQueue) is a `Read` and `Write` there, a
`ScanRead` and `ScanWrite` of EpcOrder, and a scan of DeckerSync, whose `Upsert`
is a sync of EpcOrder; in EpcStock it is one `ScanWrite`. An exchange is a
transaction of EpcOrder and one `Reassign` of EpcStock. All of these are a
`Write` of RfidStream, whose `Close` is the `Close` of PostDataQueue. Each
module gives the others' steps at least the behaviours they have.

**EpcStock.** One process per request, at the granularity of a round trip:
`Find`, then per chunk `MergeMatch` and `MergeInsert`, then `StartMove`, which
sends `insertMany` (`SaveOne` per document, `SaveDuplicate` when the unique
index refuses one) and `deleteMany` (`RemoveAll`) in parallel, then
`Acknowledge`. Each can fail (`MergeError`, `SaveError`, `RemoveError`,
`MoveError`) or be cut by a restart (`Crash`). A MERGE without `HOLDLOCK` is two
steps, because nothing keeps another MERGE from inserting between its match and
its insert. `inv` holds pairs of a tag and the request that wrote the row, so
that duplicates are visible. The other writers are `ScanWrite`, `Reassign`
(an exchange), `Discard` (`deleteScannedEpcs`) and `Archive` (the daily job that
fills the table `report/sql` reads). `due`, `late` and `overlapped` are history:
no guard reads them.

**StockLedger.** Three actions on three sets: a tag is recorded, a recorded tag
is saved once, a client is answered with tags that are recorded, saved and in no
other answer. EpcStock implements it with `recorded` as the inventory and its
archive, `saved` as `epcs_backup`, and a client's answer as the payload of a
request that was answered 201.

**EpcOrder.** `Txn` is the set of exchange handlers and sync workers. They share
the shape *statements under row locks* (`Begin`, `Lock`), *MongoDB outside
the transaction* (`MongoWrite`), *commit* (`Committed`) and *rollback*
(`Rollback`), and differ in what they select, write and lock. An exchange
updates the rows its tags have. A sync adds rows by a MERGE in two steps:
`SyncMatch` finds the tags of the batch without a row, `SyncInsert` inserts
them. There is no `HOLDLOCK` between the two and no unique index on `EPC_Code`,
so that another sync may insert the same tag: a row is a pair of a tag and the sync
that added it (`None` if it was there before), and a tag may have several.
`OrdersOf` is what the LEFT JOIN of a scan then reports, one order for each
row, of which the document keeps one. `versioned` says whether the database has
READ_COMMITTED_SNAPSHOT on: if so, the match of a MERGE reads committed rows and
waits for no lock. `Deadlocked` and `Victim` are the deadlock monitor of SQL
Server. A scan is `ScanRead` (the LEFT JOIN with the committed rows),
`ScanWrite` (bulkWrite) or `ScanLost`. `drift` (the tags whose document was last
written by something SQL does not stand behind), `stale`, `overlap` (the tags two
syncs have worked on at a time) and `before` (the rows an exchange's tags had when
it began) are history.

**OrderRecord.** A caller asks for tags (`AskExchange`, `AskSync`); the call
fails and changes nothing, or takes effect at one point. An exchange then gives
its order to every row its tags had when it was asked (`Assign`); a row added
since may be missed. A sync then leaves none of its tags without a row, and adds at
most one for each (`Register`). EpcOrder implements it with the same names: the
batches, the MERGEs that race, deadlocks, failures and restarts are stutters or
`Fail`.

**BullQueue.** The atomic scripts of BullMQ for one worker per instance, one job
at a time: add in front, add with an id (dropped if the id is in use), take,
complete, lose the lock, restart, stall and fail after `MaxStalled` stalls. It
is not part of the repository and marked external.

**PostDataQueue.** `Post` (newest first), the steps of `RFIDConsumer.process`
(`Read`, `GiveUp` for an early return or a caught error, `Write`, `End`), faults
of the workers, and `cleanupQueue` as the three scripts that can find anything
(`Drain`, `CleanActive`, `CleanFailed`), each executed on its own.

**ScanDelivery.** A scan is accepted, may have a result any number of times, and
leaves once: settled, after a result, blocked, or removed. PostDataQueue
implements it with `open` as the waiting and active jobs and `blocked` as the
failed ones; taking, stalling and losing a lock are stutters. It promises
at-least-once, not exactly-once: a result may come after the scan has left.

**DeckerSync.** A scan reads its tags and sends, without awaiting it, the request
for a job for the unknown ones (`ScanRead`), which arrives before or after the
documents are written (`ScanArrive`, `ScanWrite`), or never (`ScanLost`).
Tags that start with `E28` (`Internal`) are written as `'Unknown'` as well, but a
scan never asks for them (`rfid.consumer.ts:93-95`); a user's request
(`ButtonFind`, `ButtonAdd`), which is for all unknown documents, does. The run of a
job is `Begin`, `FetchCommands`, `FetchEpcs`, `AskErp`, `Upsert`, `End`, with every
error swallowed (`SyncError`). `Upsert` is one step here; its steps are those of
EpcOrder. A scan of a reader that is not registered, which throws at line 99 when
it has a tag to ask for, changes nothing and is a stutter; without such a tag it
goes on as any other.

**StockReports.** The reports as functions of EpcStock's state: `Datalist` is
the `UNION ALL` of the current table and the archive. Both reports group by more
than the order (department, station, date, material, style;
`inbound-report.sql:46-53`, `outbound-report.sql:42-48`) and count distinct tags
in each group, so that an order has several lines and a tag may count on more than
one. `Line` is what a report groups by within an order and a day; what the rows
hold in these columns, and in `rfid_status`, no step reads, so the properties are
stated for every such content (`Columns`: a status for each request, one or
more lines for each row, more than one when the join with `dv_rfidmatchmst_cust`
finds the tag registered several times). `Counted` is the set behind the
`COUNT(DISTINCT)` of a line. The older report and the stock of a month read the
current table only (`Current`), so that they fall when the daily job runs;
nothing says they should not. Nothing in the program writes the column
`mo_no_actual` of the inventory, so `is_exchanged` is always 0 there.

**RfidStream.** A number stands for the state of the collection. `Fetch` starts
a pair of queries; `ReadList` and `ReadOrders` each read the primary or the
slowest member of the replica set; `Post` sends the frame. `Watch` is the moment
the server opens the change stream, `Change` a change it tells. `QueryFails`
stops a pair: nothing awaits `captureDataChange`'s callback. `Close` leaves the
change stream open, as the code does. `causes` is history. `fetch-epc` and
`manufacturing-order-detail` are the same queries without a stream.

**Requests.** `Query` (middleware), `FindSource`, `Connect` or `ConnectFails`,
`Load` are the request-scoped provider of the data source, which Nest builds
before any guard runs; `initialize()` says `isInitialized` between `Connect` and
`Load`. Then `Guard` and `Handle`. `Sign` and `Cache` are login and refresh,
`Revoke` is logout behind its own `Guard`. `Expire`, `Toggle` (a host goes and
comes) and `Restart` surround them. The tenants are a table (`FactoriesOf`,
`Active`), with whom they are offered to (`Offered`, `ByFactory`) and whose scans
the consumer processes (`Scanned`). Outside production `main_21` is offered,
although the consumer does not know it.

**TransferOrder.** `Create` has a list of items, which no one validates and which
may name an order twice, as the pack list does that users choose from
(`pack-list.sql:19-29` has a line per `kg_no`). It is checked (`Check`), then each
item is counted and inserted in a transaction (`Count`, `Insert`), then the
details and the commit (`InsertDetails`). Users pick from `List`, and what they
picked may have changed when the statement runs. `Delete` is two statements
(`DeleteDetails`, `DeleteMasters`); `Approve` (`Find`, `WriteApproval`),
`UpdateMulti` (`WriteItem` for each item, `FailItem` for one whose statement
fails while the others go on) and `UpdateDetail` (`EditDetails`) write any columns
of all rows of their code, for no body is validated either: the order number, the
factory and, but for `UpdateMulti`, the code itself. `Written` is a row after a body was
written to it. A row carries the rows its create had checked (`past`) and
counted (`after`) and the code it was given first, which no guard reads; `ever`
and `noted` hold all versions there have been of a row and of its details. Statements
that scan the table wait for uncommitted rows; plain reads do unless `versioned`.

**OrderBook.** Some orders are placed together, with their details; the orders, or
the details, that have one code are amended together; details, and orders, are
withdrawn by code. TransferOrder implements it with `orders` as the committed
rows: a create is visible at its commit, with its details, or never. It promises
neither one order per number nor one factory per create: a list may name an
order twice, and `update-multi` may rewrite both.

**Warehouse.** `CountWarehouses` and `CountLocations` are the subscribers,
`InsertWarehouse` and `InsertLocation` the statements the unique index may
refuse. `DeleteWarehouses`, `DeleteLocations` and `UpdateLocation` (type or
warehouse change, the number stays) run between them. `home` is history. The
first location of a type in a second warehouse of a factory always gets a number
in use, and is refused: `RefusedNeedsCause` names it as a cause
(`l.of # call[c].of`). A create of a location for a warehouse that is not there,
which the foreign key refuses, is not offered: it changes nothing, and its cause
needs no property.

**FileLog.** One step is one system call, since the two instances share the files
and nothing orders their calls; within an instance a call of FileLogger is
synchronous. `Boot`, `Look`, `Create`, `Ready` are `initialize`; a read (`Rewrite`,
by its six callers), the emptying open (`Open`) and the write (`Overwrite`) are
`rewrite`; `Midnight` and `Rotate` are the cron job every instance runs. `Throw`
and `Kill` end an instance's call anywhere. `Overwrite` writes at the start of the file
over what another instance has written since, so that a longer text of the other
leaves a rest. `since` and `alone` are history: what was logged since the last
*upset*, an event after which entries may be missing (two rewrites that meet, one
cut short after the file is empty, the rotation, a late `Create`).

## Runs, bounds and what they show

| Run | Instance | Shows |
|---|---|---|
| `stock_safety` | 2 tags, 2 orders, 2 requests, 1 tag per MERGE, all faults; symmetric in all three | the invariants of EpcStock, and that each step is one of StockLedger |
| `stock_ends` | 1 tag, 2 orders, 2 requests, chunks of 2; reports of 2 lines, for every status and line of the rows up to their names | every request ends; a line counts what was acknowledged for it, at most what was read for it, and never less than before; a tag is on two lines for a named reason only |
| `stock_loss` | 2 tags, 1 order, 2 requests | a tag can be lost (violated, see below) |
| `order_exchanges` | 2 tags, 2 orders, 2 exchanges, 1 tag per statement | the stores agree unless a tag drifted; locks stop everything only in a circle; transactions end, deadlocks too; each step is one of OrderRecord |
| `order_calls` | 1 tag, 1 order (or none the ERP knows), an exchange, 2 syncs, a scan, with row versions; symmetric | the stores agree unless a tag drifted; what is about to commit is in MongoDB and locked; a tag gets two rows only from syncs that overlap; each step is one of OrderRecord |
| `queue` | 2 scans, 2 instances, 1 stall allowed | the invariants of PostDataQueue, that the queue drains, and that each step is one of ScanDelivery |
| `sync` | 2 instances, 1 factory, a tag and an `E28` tag, 2 faults | the id of a factory becomes free, and only stalls block it |
| `sync_resolved` | 1 instance, 2 tags with one prefix and two commands, 1 fault | an unknown tag that is scanned again and again gets its order |
| `stream` | 3 changes, up to four pairs of queries | a picture out of date has a cause; a change told is shown |
| `requests` | 3 requests, 1 user, 1 host, 1 restart | pools, entities, sessions; a host that failed recovers |
| `transfer` | 2 requests at once, 2 order numbers, lists of 2, a second factory and bodies that rewrite a column, 4 items and picks, 1 month's end, 1 failure | numbers and codes given twice, partial deletions, changes to the wrong order; who waits for whom; requests end; each step is one of OrderBook |
| `warehouse` | 2 creates at once, 2 types, 4 rows inserted, 4 moves | when a number is refused, whose locations a warehouse lists |

The type invariant is among the invariants of `stock_safety`;
those of the other modules are proved. FileLog is proved about, and is no run of
`PROJECT.json`; `tlc -config log.cfg MCFileLog` checks its two invariants with two
instances and three entries, for any number of starts, rotations and failures
(244,463 states).

Why these bounds are enough to be interesting. *Two requests*: every property of
EpcStock speaks of one or two requests, and a retry is the second. *Two tags
with one per statement*: one chunk can succeed and the next fail, and two
transactions can lock in opposite orders and deadlock. *Two orders*: a tag can
leave and join the order that is being stocked, and two exchanges can want
different winners; `order_calls` needs only one, since a sync may also come with
none, so that two syncs, or a sync and an exchange, differ. *Two syncs*: both
may miss the tag. With row versions no match waits for a lock, which is every
interleaving there is without them. *Two lines*: as many as `ReportedQuantity`
speaks of. *Chunks of two* in `stock_ends`: the only chunk is not full. *Two
instances*: a job is taken again while its first worker still works without the
lock. *Two faults* in `sync`: what it takes to fail a job by stalls. *Three
changes* in `stream`: one in the gap between the first frame and the change
stream, two whose frames overtake each other. *Three requests*: two initialize a
source and a third uses it half initialized; a token is signed while a logout
passes the guard. *Four items and picks* in `transfer`: an order is created,
deleted and its code given again while a request still names it; a list of two
that names an order twice leaves two picks. A body writes one column: the other
factory, the second order, or the first code. *Four rows*: two warehouses, a
deletion, and locations of both. *Three entries* in `log.cfg`: one in the file,
and two rewrites that meet over it. What is unbounded in the code (requests,
tags, batch sizes) is unbounded in the theorems.

`UnknownResolved` is checked in a run of its own because it needs two tags that
share a prefix, and `sync` two instances; together they are too large.

Bounds in guards: a job id is posted once (`Post`); `FaultLimit` bounds failing
calls, lost locks and restarts in a behaviour of DeckerSync; a scan is read only
after the request of the scan before it has arrived (`ScanRead` of DeckerSync);
a request of EpcStock is used once, its retry is another one; `ListLimit` the
items of a create; `ChangeLimit` (RfidStream) bounds the changes; `FaultLimit`
of Requests the restarts; an entry is logged once (`Rewrite`); `WorkLimit`,
`MonthLimit` and `FaultLimit` (TransferOrder) the items and picks of all
requests, the month ends and the failures; `RowLimit` (Warehouse) the rows ever
inserted and the moves.

Every run sets `CHECK_DEADLOCK FALSE`: a system nobody sends requests to stops,
and so do the instances with a finite number of requests or jobs.
`LogSpec` has no fairness: nothing about the log must happen.

## Fairness

- *EpcStock*, `WF(Step(r))`: the event loop and both servers answer. Find is not
  fair (no client must send), nor are faults or the other writers.
- *EpcOrder*, `SF(ExchangeStep)`, `SF(SyncStep)`: SQL Server grants row locks in
  the order of the requests for them, so a statement that is again and again able
  to go on goes on. `WF(Victim)`: the deadlock monitor runs periodically.
- *PostDataQueue*, *DeckerSync*: `WF` of a worker's step (BullMQ workers poll, a
  restarted instance starts its workers), of the stall check BullMQ runs, and of
  a scan's steps and its request's arrival. Posting, closing a stream, faults and
  what the customer and the ERP learn are not fair. `UnknownResolved` assumes in
  its own statement that scans write the tag again and again, that customer and
  ERP know everything from the start, and that it is no `E28` tag; nothing in the
  code makes a reader scan.
- *RfidStream*, `WF` of `Watch`, `Change` and the queries of each pair: server and
  MongoDB answer. Writes, replication and the browser are not fair.
- *Requests*, `WF(Work(r))`: a process runs the requests it has. `HostRecovers`
  assumes in its own statement that the host stays up and that requests come.
- *TransferOrder*, `WF(Work(c))`: the server runs its requests, and SQL Server
  ends deadlocks (`Victim` is part of `Work`).

## Proofs

TLAPS proves the type invariant of every module, every invariant the runs check,
an action property and four refinements, for any sets of tags, orders, requests,
workers and so on, any limits of the guards, any chunk and batch size, from the
named assumptions of the modules only: a chunk holds at least one tag, special
values are not ordinary ones, limits are numbers, and the sets that are counted
are finite. Each `Proofs` module has an `IInv`, the theorem `Inductive == Spec
=> []IInv`, and one theorem per property; for the log files these are `LogInv`
and `LogInductive`.

*EpcStockProofs.* None of the invariants is inductive alone; `IInv` adds what
each rests on:

- `Bookkeeping`: the program counter decides what the locals hold.
- `LoopInv`: in the loop, what is neither in `todo` nor in the running MERGE is
  recorded; so when the loop ends (`MoveInv`) the whole payload is, and nothing
  but recorded tags can reach the backup (`BackupRecorded`).
- `SavedInv`: what two running `insertMany` calls have inserted is disjoint, the
  unique index being checked at each document; hence `AcknowledgedOnce`.
- `OverlapInv`: a row that appears between a request's match and its insert comes
  from a request in progress at the same time; hence `DuplicateRowsNeedOverlap`.
- `WindowInv`: a `deleteMany` still to come deletes what was read or what joined
  late; hence `LostOnlyIfLate`.

Recording is monotonic (`RecordedGrows`: archiving moves a row, nothing deletes
it), which most steps need. `LedgerImplemented` shows, action by action, that a
step of EpcStock is a step of StockLedger or a stutter, using `IInv` before and
after the step.

*EpcOrderProofs.* `IInv` consists of `Local` (locals and program counter),
`LocksInv` (no row is held twice; an exchange holds rows that exist, a sync rows
of its own it is about to add), `CoverInv` (an exchange misses no row that was there
when it began, a sync no tag), `OverlapInv` (a sync that is about to insert a tag
which has a row by now, and a tag with two rows, are of syncs that have worked on
the tag at a time), `ReadInv` (a scan that is not stale has read what a committed
row gives), `PendingInv` and `AgreeInv`. Two syncs never hold one row, for each
inserts its own; that they may insert one *tag* is what `OverlapInv` is about. The
step that needs them all is the commit: the row takes the value its document has
had since `MongoWrite`, which is why `AgreeInv` says that a document shows a
committed row nobody is about to change (`ShowsRow`) or what somebody is about to
commit (`ShowsCommit`), and `PendingInv` lets a second row of the tag come between.
`SomeoneMovesAlways`: if no running call goes on, each waits
for a row another one holds, and by `Local` only running calls hold rows, so that
the running calls are a circle of waits. `RecordImplemented`: a commit is
`Assign` or `Register` on the rows the call holds, which `CoverInv` says are all it
has to deal with; the beginning of a call is `AskExchange` or `AskSync`, its failure
`Fail`, and every other step leaves the record alone.

*Reports* (EpcStockProofs). `RowsInv`: a row is of a request that has started
and of a tag it read. With it, `RowsKept` (a step keeps every row, here or in
the archive, and the order of its request) gives `ReportsNeverShrinkAlways`, for
whatever the columns hold; for `ReportedQuantityAlways` the sets counted on a line
are compared, cardinalities follow from the finiteness of the tags
(`ReportsAssumption`), and a tag with rows of two requests is either matched by
overlapping requests or has a row in the archive, since a MERGE sees the current
rows.

*PostDataQueueProofs, DeckerSyncProofs.* `QInv` of the queue: a job is in one
list, once; a lock belongs to the worker that runs the job, and a locked job is
active; a failed one stalled too often. Lemmas about each script of BullQueue
(`TakeStep`, `CompleteStep`, `LoseStep`, `StallStep`) are proved once per module
and cited by the actions that run it. `ScanInv` adds what accounts for a scan at
each stage. `DeliveryImplemented` maps the scripts
to ScanDelivery: a stalled job goes back to `wait`, which is a stutter, or to
`failed`, which blocks it (`DeliveryStall`); the end of a run settles the scan,
because `ScanInv` says it has a result by then, or finds it gone from the active
list and changes nothing (`DeliveryEnd`); each script of a cleaning removes what it finds
(`DeliveryClean`). In DeckerSync `RunInv` says that a run which is somewhere has a
job, and `QInv` that a failed job has stalled too often (`OnlyStallsBlockAlways`).

*The log files* (PostDataQueueProofs). `KeptUnlessUpset` says nothing of a rewrite
between its read and its write. `Alone` adds it: a rewrite no other one has met is
the only one of its file, has read what was logged since the last upset, and
finds the file as empty as it has made it; where two meet, nothing is promised
(`since` is empty). `Headed` says where the promise is: in the file, or with
such a rewrite. `PushAtHead` is the lemma on sequences that `Overwrite` needs.

*RfidStreamProofs.* `Fresh`: without a cause, each pair has read at least the
change that started it, which is `n + told - started` for pair `n`; `Answered`:
each pair up to the last frame's is running or not newer than that frame. When
nothing runs the last frame is the last pair's, and it covers the last change.

*RequestsProofs.* `PoolInv`: pools opened plus requests about to open one are at
most the requests that ever initialized at once, since a source that is open
sends no more; it needs a sum, not the bound alone. `SignInv`: a token about to
be cached for a user who logged out was being signed then. `OfferedAreScanned`
is about the tables: in production, every tenant a factory is offered is one
whose scans the consumer processes.

*TransferOrderProofs.* `Shape`: where a request is decides what it has, so that a
loop has something to do. `IdInv`: identity values are given once, in order, and
all versions of a row agree in what no body writes (`Kin`). `TxnInv`: what is not
committed is in one transaction, all else was committed once. `OrderInv`: a row
that a create has checked has no order the create is about to insert, unless it was
`Renumbered`. `CountInv`: a code's number is one more than the rows its create
counted; as long as no row has left a factory these sets are closed (`Closed`: who
counts a row given a code of the factory counts what that row's create counted), so
that of two rows, one counted by the other's create, the numbers differ
(`LaterCountsMore`). `PickInv`: a code in a request's hands was a name of an order
somebody picked, so that whoever has it now was picked or shares it (`InHand`);
and after the first statement of a deletion a detail has one of its codes only
because the code was given or written again. `WaitsForTheOpenAlways` follows from
`Shape`: a request waits only for one that has rows of its own, and if
that one waits as well, it is a create that counts, and so is the one it waits
for: SQL Server may end either. `BookImplemented` goes step by step: a commit places
(`CommitPlaces`), an update amends the rows of one code (`WritesAmend`,
`EditAmends`), the statements of a deletion withdraw (`DeletionWithdraws`), and an
insert or a rollback is not seen (`InsertUnseen`, `RollbackUnseen`).

*WarehouseProofs.* `WarehouseNumbers` and `LocationNumbers`: as long as nothing
was deleted or moved, numbers in use are at most the count, and those of the rows
a create has counted are below its own. `HomeInv` and `IdInv` give
`LocationsStay`.

Only model-checked: liveness under fairness (`RequestsEnd`, `TransactionsEnd`,
`ScansEnd`, `FactoryFree`, `UnknownResolved`, `ChangeShown`, `HostRecovers`,
`CallsEnd`), which the prover does not do.

## Abstractions

- A tag, an order, a request, a job is an atom. Column values other than the
  order are left out; those the reports read (`rfid_status` and what they group by) are
  the variable content `c \in Columns` of StockReports, which no step depends on.
- The tags an exchange selects by size, material and quantity are any subset of
  the documents of an order; with `multi`, all documents of some orders.
- One SQL statement or MongoDB call is one step, except MERGE (match, insert)
  and `insertMany` (one step per document). A failed MongoDB write may have
  written any subset. A lost answer is a step that took effect, followed by the
  error step.
- Row locks: `held` are the rows a transaction has changed or inserted.
- EpcOrder: the customer lists a tag once and under one command, so that the
  payload of a sync has each tag once; a payload that named a tag twice would get
  two rows from one MERGE. What `drift` names is not excluded, only said: an
  exchange of a tag without a row, a sync of a tag whose row is there or whose
  order the ERP does not know.
- A transaction that restarts is rolled back by SQL Server; its MongoDB writes
  stay.
- Excluded orders and stations are not modelled: they restrict what is scanned,
  exchanged or reported. Of the tag patterns, `E28` is the only one that lets a
  tag into the stores and out of the requests; DeckerSync models it.
- The customer's token and its cache are part of whether a call fails.
- `upsertByCommandNumber` and `upsertByEpc` read
  `../rfid/upsert-rfid-match.sql`; the file is in `../rfid/sql`, so that both
  always fail and change nothing.
- The subscribers of `FPInventoryEntity` and `RFIDMatchCustomerEntity` number
  rows on insert; both tables are written by raw SQL only, which subscribers do
  not see.
- In PostDataQueue a scan's content is not modelled: what it writes is the
  subject of EpcOrder and DeckerSync.
- `deleteScannedEpcs` by size and quantity finds tags and then deletes them by
  tag: any tag may be deleted at any time (`Discard`, `Remove`), which includes a
  tag that has changed its order in between.
- Reports: station, date, tag prefix and excluded orders; a row is one that a
  report does not filter out. The layout of the Excel file.
- Requests: the password check, the signature and expiry of a JWT, and the other
  fields of a profile. A handler is one step; what it does is in the other
  modules. A cached token is one per user, whichever was signed last.
- TransferOrder: columns other than the order number, the factory and the code are
  left out, and with them the `or_no` of a detail, which no statement reads. A body
  that names the identity column is refused by SQL Server, and an item of a create has no
  `keyid`, with which TypeORM would update a row instead. An item of `update-multi`
  names its code, which its own update sets to what it is. A body's factory is one
  of `Factory`. Reads that change nothing, other than `List` and `Find`, are left out.
- Warehouse: the first part of a number (factory, type) and its count; padding to
  three digits is left out, as it is injective together with the type. The update
  of a warehouse changes names and flags.
- FileLog: an entry has no text and no time; an entry that was overwritten in
  part counts as gone. A write is one call that writes all. The directory is there.
- PostDataQueue and DeckerSync take the calls of the logger to answer. In the code
  they read and write a file and can throw (`Throw` of FileLog); in a catch
  block that would fail the job, and BullMQ would apply its attempts after all.
- SQL Server: a statement is atomic. The subscriber's `count()` is a plain read in
  the transaction of TypeORM's `save`; the creates of warehouses insert one row,
  so that their transaction has no other step.

## Where code and documentation disagree

`stock_loss` shows one disagreement as a run: `deleteMany({ mo_no })`
(`rfid.service.ts:172`) deletes documents that joined the order after the find,
while `README.md:22` promises to track stock levels and movements.
`LostOnlyIfLate` says that this window is the only way to lose a tag.

Others, which follow from single lines:

- The MERGE of a stocking request goes through `dataSource.query`, not through the
  query runner whose transaction was opened (`rfid.service.ts:152`): each chunk
  commits alone, and a request answered 500 leaves its rows, while `README.md:26`
  says transactions ensure integrity. `AcknowledgedOnce` and `ReportedQuantity`
  say what still holds.
- The MERGE only inserts (`rfid.service.ts:161`): an outbound movement of a tag
  that has an inbound row is not recorded (`README.md:22`).
- A scan that overlaps an exchange writes the old order after the exchange has
  committed (`rfid.consumer.ts:112`, `README.md:26`). `AgreeUnlessDrift` says
  exactly which steps make the stores differ.
- `drain()` has no grace time and knows no tenant (`rfid.service.ts:45`): scans
  accepted a moment ago, of any tenant, are removed, while the comment at line 39
  says jobs of a tenant, around 5 minutes old. `NoScanForgotten` counts it as
  one of the ways a scan may go.

Observed while modelling, without a text that promises otherwise:

- a sync requested while the factory's job waits or runs is a duplicate and is
  dropped; the tag stays `'Unknown'` until a later scan or a user asks again
  (`UnknownResolved` holds because scans repeat);
- a sync job that stalls twice stays failed under the factory's id and blocks it
  until someone removes it (`failed` in `FactoryFree` and `UnknownResolved`);
- a tag the ERP has no order for is inserted with `mo_no` `'undefined'`, which no
  later sync corrects, since MERGE has no `WHEN MATCHED`;
- the queue is newest-first, so that an older scan of a tag can overwrite the
  station a newer one has written;
- a scan by an unregistered reader is lost if it holds one unknown tag that does not
  start with `E28`: `deviceInformation.factory_code` throws (`rfid.consumer.ts:99`), although
  line 70 provides a station for such a reader;
- a tag that starts with `E28` stays `'Unknown'` however often it is scanned; only a
  user's request asks for it, and the customer is assumed to have none of these tags;
- a sync run opens a data source of its own and never destroys it
  (`rfid.repository.ts:150`), and a stream's change stream is never closed;
- two first requests of a tenant leave a connection pool nobody closes, and a
  third request may use a source whose entities are not loaded yet;
- the code of a transfer order is given again after a deletion in its factory, or
  after one of its orders was given another factory, in the month it was made, and
  the calls that name it then act on both (`CodeTwiceNeedsLossOrOverlap`);
- the list of a create is not deduplicated, though users choose it from lines of which
  several may have one `or_no`: one request then makes two transfer orders of it
  (`OrderTwiceNeedsOverlap`);
- `update-multi` and `update/:code` write whatever columns the body names, the
  order number, the factory and, for the latter, the code included;
- two syncs of one tag that overlap, as when a job that seemed stalled runs again,
  may leave it two rows, and a report then counts it on a line for each style they have;
- both reports count a tag on two lines if two requests recorded it together or one
  after the other's row was archived (`ReportedQuantity` names these causes);
- the instances lose each other's log entries, a restart between the emptying and
  the writing of a log file loses all it held, and each instance rotates;
- after a warehouse was deleted the next number may be in use, and creates are
  refused until rows are added or removed.

## Not modelled

- *Import orders*: marked deprecated. Reading it shows that masters are saved one
  by one outside a transaction, that the conflict check parses numbers like
  `SNA…` to `NaN` and never fires, and that the parameter it calls the ERP's data source
  has two injection decorators, one of them for the transfer orders' details. What `store` writes
  depends on ERP rows that are not in the repository.
- *Packing*: one query and one update of a weight. *Departments, employees, users,
  order search*: queries and single updates of a profile.
- *The deprecated queries* of `FPIRespository` and the Excel layout
  (`report.service.ts`).
- `upsertByCommandNumber` and `upsertByEpc`: they read a file that does not exist.
- *Redis messages* (imported by nothing).
- *Request plumbing, configuration, seeds, translations*: framework wiring and
  declarations.

What could come next: the find-then-delete of `deleteScannedEpcs` as two steps of
EpcOrder, and a composition of PostDataQueue with DeckerSync, so that stalls and
cleaning of the first meet the requests of the second.
