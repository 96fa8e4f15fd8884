# TLA+ models of zhmcclient

zhmcclient is a Python client for the Web Services API of the IBM Z Hardware
Management Console (HMC). Most of its classes turn one method call into one HTTP
request. The logic worth verifying is in what spans several requests, threads and
objects: keeping local copies in step with the HMC, receiving notifications,
caching names, and keeping a session alive.

All line numbers below refer to the files under `src/zhmcclient/`.

## 1. Inventory

| Component | State | Operations | Partners |
|---|---|---|---|
| Session, jobs (`_session.py`) | session ID, headers, base URL, actual host, time statistics | `get`, `post`, `delete`, `logon`, `is_logon`, `logoff`, `Job.wait_for_completion` | the HMCs; every other component sends requests through it |
| Auto-updated manager (`_manager.py`, `_ResourceList`) | local list, enabled, needs_pull | `list`, `enable_auto_update`, `disable_auto_update`, inventory notifications | user thread, listener thread, HMC |
| Auto-updated resource (`_resource.py`) | local properties, full, ceased, auto-update | pulls, `update_properties`, `delete`, enable, disable, notifications | user thread, listener thread, HMC |
| Listing and filters (`_manager.py`, `_utils.py`) | none between calls | `list`, `findall`, `find`, and the `list_...` methods of other classes | user thread, HMC |
| Name-URI cache (`_manager.py`, `_NameUriCache`) | name to URI entries, time of invalidation | `find_by_name`, `list`, `create`, rename, `delete`, `invalidate_cache` | user thread, listener thread (object names) |
| Notification receiver (`_notification.py`) | STOMP connection, subscriptions, hand-over queue, closed flag | `connect`, `subscribe`, `unsubscribe`, `notifications`, `close` | receiver thread, a listener thread per connection, a closing thread, broker |
| Auto-updater (`_auto_updater.py`) | STOMP connection, its topic, the listener's CPC list, registry of objects | `open`, `close`, `register_object`, `unregister_object`, listener | session, managers, resources |
| LPARs (`_lpar.py`) | - | operations that change the status, `wait_for_status` | HMC, other clients |
| Partitions and CPCs (`_partition.py`, `_cpc.py`) | - | create, start, stop, delete, dumps, crypto configuration, `wait_for_status`, `get_free_crypto_domains` | HMC, other clients |
| Devices (`_nic.py`, `_hba.py`, `_virtual_function.py`, `_adapter.py`, `_virtual_switch.py`) | URI lists in the local properties of the partition | create, update, delete, `list` | partition object, HMC |
| Storage (`_storage_group.py`, `_storage_volume.py` and their templates) | volume URIs in the local properties of the group | create, update, delete, candidate ports | group object, HMC |
| Console (`_user.py`, `_user_role.py`, `_user_pattern.py`, `_password_rule.py`, `_group.py`, `_*_server_definition.py`), `_capacity_group.py` | what `BaseResource` keeps | create, update, delete, `list`, roles, permissions, search order, members | HMC |
| Time statistics (`_timestats.py`) | counts and times per operation | `begin`, `end`, `enable`, `reset` | session |
| Other resource classes | what `BaseResource` keeps | one request per method | session |
| Mock HMC (`mock/`) | a full inventory of resources, with each relation kept on both sides | URI handlers for every supported operation | tests, in place of an HMC |
| Metrics, dumps | none | parsing | - |

What is hard:

* **Interleaving.** The user thread and the STOMP listener thread share resource
  and manager objects. Locks protect single reads and writes, never a request and
  the merge of its answer.
* **Ordering.** A notification and the answer of a pull reach the client on
  different connections; either may be older.
* **Retry.** `post()` and `delete()` repeat themselves after a new logon and after
  "busy"; a lost answer leaves open whether the operation was executed.
* **Several HMCs.** A renewal of the session may move it to another HMC.
* **Termination.** `notifications()`, `wait_for_completion()` and the waits for a
  status have to end when they should.
* **Staleness.** Cached names and pulled properties are used after other clients
  changed them.
* **Partial failure.** Some handlers change something before they reject a request:
  the client gets an error and does not know what has been done.
* **Redundancy.** The mock HMC keeps most relations twice (an element and its URI in
  its parent, a NIC and its virtual switch, a volume and its group), and the clients
  keep a third copy.

What makes the components correct: an auto-updated object or list differs from
the HMC only by notifications that are pending; a deleted resource is noticed; an
entry of the name cache is not older than the last invalidation and follows
changes made through its manager; a frame received is yielded, raised or given up,
exactly once and in order; a changing operation is executed at most once and what
a call reports is what happened; an auto-updated object is registered and served; a
wait for a status ends on a status that was so; both sides of a relation agree; and
what a client did itself shows in its own objects. `PROJECT.json` lists the hazards at their lines,
with the properties that cover them.

## 2. Modules

| Module | Models | Checked by |
|---|---|---|
| `AutoUpdatedList` | one manager's local list | `MCAutoUpdatedList` |
| `LaggingMirror` | abstract: what an auto-updated list promises | refined by `AutoUpdatedList` |
| `ResourceLists` | one `list()` or `find()` of a manager that is not auto-updated | `MCResourceLists` |
| `ResourceManagers` | the table of the managers: how each lists its resources | `MCResourceLists` |
| `AutoUpdatedResource` | one resource object | `MCAutoUpdatedResource` |
| `AutoUpdater` | the updater of one session, its registry and its listener | `MCAutoUpdater` |
| `NotificationReceiver` | one receiver | `MCNotificationReceiver` |
| `NotificationChannel` | abstract: what a receiver promises for each connection | refined by `NotificationReceiver` |
| `NameUriCache` | the name cache of one manager | `MCNameUriCache` |
| `HmcSession` | one session and the job of its current call | `MCHmcSession` |
| `LparOperations` | one LPAR, its clients and its handlers | `MCLparOperations` |
| `DpmPartitions` | a CPC in DPM mode with its partitions | `MCDpmPartitions` |
| `DpmDevices` | NICs, HBAs and virtual functions of one partition | `MCDpmDevices` |
| `ClientCalls` | what the modules of the mock HMC share: several clients and the number of their calls | `MCDpmPartitions`, `MCDpmDevices`, `MCConsoleInventory` |
| `ConsoleObjects` | what the classes of the next five modules share | `MCConsoleInventory` |
| `StorageGroups`, `ConsoleUsers`, `CapacityGroups`, `ServerDefinitions`, `CustomGroups` | the classes of these names | `MCConsoleInventory` |
| `ConsoleInventory` | the composition of these five on one mock HMC | `MCConsoleInventory` |
| `AutoUpdatedResource_proofs`, `NameUriCache_proofs`, `AutoUpdater_proofs`, `NotificationReceiver_proofs`, `HmcSession_proofs`, `LparOperations_proofs` | the theorems of the modules of these names | TLAPS |
| `Lists_proofs` | the theorems of `AutoUpdatedList` and `ResourceLists` | TLAPS |
| `MockHmc_proofs` | the theorems of `DpmDevices`, `DpmPartitions` and `ConsoleInventory` | TLAPS |

`Lists_proofs` and `MockHmc_proofs` have the proofs of several components, which share
lemmas: about lists of resources, and about handlers that go through the elements of a
request. The `MC` modules only name small constants. An operator whose comment begins with
"Faulty variant of" is not part of any specification: it stands for a plausible
bug of the definition after it, and TLC finds the property it is listed with in
`PROJECT.json` violated when it takes that definition's place.

The documentation (`docs/concepts.rst`, "Multi-threading considerations") allows
only one user thread per session, client and receiver. Hence the modules of the
client's own machinery (the first ten) have one user thread, besides the listener
and, for the receiver, a thread that closes it or sets its stop event. The modules
of the resource classes have several clients, each with a session of its own: they
meet in the HMC.

### AutoUpdatedList

`inv` and `chan` are the HMC: the life of each resource and the object topic, a
FIFO queue. `enabled`, `needsPull` and `resources` are the fields of
`_ResourceList`; `registered` is membership in the updater's registry. A `list()`
is three steps: the request (`ListPull`), the HMC's answer (`AnswerGet`) and the
merge (`AddList` or, within `enable_auto_update()`, `Replace`). The listener's
branches are `OnAdd`, `OnRemove` and `OnIgnored`.

A resource is in `missed` when a pull completed that did not reflect a
notification handled before; the properties exempt it (see the divergences in
section 3 for why this is needed).

`LaggingMirror` is the promise without requests and notifications: a copy that
follows a collection never invents an item and drops only what is gone. The mapping
is the identity on the HMC's inventory, `enabled` and `resources`; every pull,
notification and failed request is a `CatchUp`, a `Browse` or a stutter.

### ResourceLists and ResourceManagers

A call begins with a List operation (`ListOperation`) or with the URIs in the parent
object (`ListArray`), whose array may be older. With `full_properties`, the resources
of a List operation are requested in bulk: the list is split into operations, each of which
is closed by the request whose number exceeds `max_req_id` (`BulkSubmit`, then `BulkGet` for
each request, in any order); others are pulled one by one (`PullTaken`). The filter arguments that
the operation accepts are matched by the HMC when it answers (`QueryParms`), all others
by the client (`ClientFilters`): from the properties in the list (`DropItem`,
`TakeItem`), or after a pull when one is not there (`PullItem`). `PullGone`, `BulkGone`,
`RequestFails` and, for a match value that cannot be converted to the type of the
property (`FilterConversionError`), `FilterFails` and `BulkFilterFails` end the call with an
exception. The client looks at its filter arguments in the order of a dictionary, until
one does not match: which of several decides, and whether by the result or by the error, is
left open (`Rejects`, `Chokes`, `Late`). Between any two requests resources
change, appear and vanish.

`ResourceManagers` says for each manager class which query parameters its operation has,
whether the list has names, and how full properties are obtained; so it does for the
methods of other classes that list resources (`list_permitted_lpars()` and so on). Only
these differences matter: `Kind` is what remains of a manager, and many have the same. `stay` and
`seen` are history: which resources exist, and which values they had, since the call
began. Values are abstract strings and numbers; a match value is a list of patterns, and a
pattern the sequence of its alternatives. The HMC lets a whole value match (`HmcMatches`); the
client also a value that begins with an alternative other than the last
(`MatchesPattern`), and a number only what converts to it (`Converts`).
`ConsoleManager.list()` is left out: it returns the one console, whatever the filter. The
additional properties that `list()` may ask for are among those that are in the answer.

### AutoUpdatedResource

A value of a property is its version at the HMC. Requests
(`PullFull`, `PullProperties`, `GetProperty`, `Update`, `Destroy`, `Enable`),
answers (`AnswerGet`, `AnswerPost`, `AnswerDelete`, `GetNotFound`,
`RejectQuery`, `RequestFails`) and merges (`MergeGet`, `MergeUpdate`,
`MarkDeleted`) are separate steps, because the property lock is not held while a
request is under way. The listener's branches are `OnChange`, `OnRemove` and
`OnIgnored`. `synced` remembers the properties whose last local write was not an
older value over a newer one.

### NotificationReceiver

A frame moves from `wire` (the connection) to `hand` (a listener thread in
`put()`), `queue`, `item` (taken by `notifications()`), and ends in `delivered`,
`reported` or `missed`. The generator's steps are those between two blocking
calls; `connect()` subscribes topic by topic. `close()` is two steps,
`CloseFlag` and `CloseDisconnect`, and the stop event a third one. A branch of the
generator that handles "disconnected" and "heartbeat_timeout" items (lines
727-756) is not modelled: nothing in the package puts such items in the queue.

`NotificationChannel` is the receiver without threads and queues: for each
connection, frames on their way, which come out in order, at most once, or are given
up. The mapping takes each connection to the numbers of its frames that are
`OnTheWay` - in the item that the generator has, the shared queue, the hand of the
connection's listener thread, or the wire - and what was yielded to one sequence of
numbers. The channel takes the least number that is on its way; that the receiver does so
is what its queues are for.

### NameUriCache

`cache` is `_uris`; `objName` is the name in the properties of each Python
object, which need not be the resource's name. `Rename`, `ForgetOldName`,
`StoreName` and `EndRename` are the parts of `update_properties()` (in
`_partition.py`, the pattern of all resource classes) between which the listener
can run. `had`, `astray` and `raced` are history: which resources had a name since
the last invalidation, and which changes the cache could not see. The time to live
is an invalidation that can happen before any lookup.

### HmcSession

A call of `get()`, `post()`, `delete()`, `logon()`, `is_logon()` or `logoff()` is a
sequence of HTTP exchanges, each one step, with `pc` naming the next one. `TokenInvalid` is
the treatment of 403.4 and 403.5, `SendBusy` that of 409.1 and 409.2, `Found` the
choice of an HMC followed by the first half of `_do_logon()`. The loop of
`wait_for_completion()` is `JobGet`, `JobDelete` and `Pause`. Between any two
exchanges a session may expire and a job may proceed. `forsaken` remembers sessions
that the client gave up while they may still exist on an HMC. `open` counts the
nested `post()` calls of a call that have begun, and will end, the measurement
of its total time. Not modelled: urllib3's own retries of GET requests, which
change nothing on the HMC, a Logon that the HMC answers with 403.4 or 403.5, and
the enabling of the statistics during a call.

### AutoUpdater

The user thread runs `enable_auto_update()` step by step: the test of `is_open()`
(`Subscribe`), `open()` (`OpenLogon`, `OpenConnect`, `OpenSubscribe`, `InitCpcs`,
`InitCpcsList`), the registration and the pull (`EnableRegister`, `EnablePull`).
The listener takes a notification (`OnMessage`) and goes through the dictionary of its
URI object by object (`LoopYield`, `LoopEnd`, `LoopRaises`), which the user thread
may change meanwhile. The HMC serves the topic of a session for as long as it knows
the session. `trouble` is history: which of the five causes in `AutoIsServed` has
occurred since the connection was made.

### LparOperations

A call has three parts: the client posts it (one action per method of `Lpar`), the
handler of the mock HMC executes or rejects it (one action per handler; operations
that the mock HMC does not have are `OtherOperation`), and the client polls
(`PollStatus`, `CheckStatus`). The status follows an operation late or changes on its
own (`StatusChanges`), and the status timeout may be over at any time. A request of a
poll may fail, which ends the call (`PollFails`). `hit` and
`miss` are history: the LPAR has had a desired, or another, status since the
operation. An LPAR that operates is reset only with `force`
(`Permits`). With `AutoUpdated`, a poll reads the local list.

### DpmPartitions

CPC operations with their conditions, the life cycle of partitions, ISO images and the
crypto configuration, by several clients. A `...Accepts` operator is the admission
check of a handler; the action next to it is the method with its effect. `start()` and
`stop()` wait (`PollStatus`, `CheckStatus`). `get_free_crypto_domains()` reads the
partitions one by one (`ReadPartition`) and the client then assigns a domain that was
free. `update_properties()` is handled by the generic handler, which checks neither the CPC
nor the partition (`UpdatePropertiesAccepts`); the properties that users may update matter
to no other operation here. That the handler does not check which properties these are,
so that a body with, say, a `status` would be taken over, is left out: the clients of the
model send what an HMC permits. `careless` is history: a client assigned domains without
asking, or two clients asked at the same time, in which case nothing protects them.

### DpmDevices

`elem` and `uris` are the two places in which the mock HMC keeps an element,
`connected` the third place of a NIC, `used` the pool of device numbers. `loc` is each
client's Partition object, from whose lists its managers list. A handler has its own
operator (`NicsPost`, `NicDelete`, ...), and the client's method is the call of it with
what the client does to its own lists. A NIC whose switch does not exist is `half`: in the
tables, with the device number that the request may have had, but not in `nic-uris`. It can be
updated, and an attempt to delete it fails after its number has been freed (`DeleteHalf`).
The relations exempt it. `PullPartition` copies the lists, as a client of a real HMC gets
them; `FakedSession` answers with the mock HMC's own list objects (`mock/_session.py:1113`),
so that a client of it sees changes without a pull. The relation between storage groups and
partitions is not modelled.

### ConsoleObjects, its five parts, and ConsoleInventory

`ConsoleObjects` has the table of resources of the mock HMC, the resource objects of
the clients, and the generic methods `CreateObj`, `ListObj`, `PullProperties`, `UpdateObj`,
`DeleteObj` and `UseObj`. Each of these is the part of the client only, which the modules conjoin with the
handler of the request. Each part adds its handlers (`Hmc...`) and the methods of its
classes:

* `StorageGroups`: a create or modify operation carries a list of volume requests, which
  the handler takes one by one, without undoing them when a later one fails.
* `ConsoleUsers`: roles of users and permissions of roles are lists in which the mock
  HMC may have an entry more than once; a reorder request moves patterns one by one.
* `CapacityGroups`: a partition is in at most one group, while partitions change their
  mode and are deleted without regard to it. That the handlers of create and update would
  also take over `partition-uris` from the body is left out: an HMC does not permit it.
* `ServerDefinitions`: LDAP, MFA and SSO server definitions. An SSO server
  definition ignores, on create, properties that the server controls (`HmcCreateSso`).
* `CustomGroups`: members are not checked before they are listed.

`differs` remembers which resources a client cannot know exactly: those another client
changed later, and those of its own requests that failed halfway. `overruled`
remembers those that it created with values that the HMC did not take: the new object says
otherwise until it is read or updated, which is how the code is (see the divergences in
section 3).

## 3. Runs

Passing runs:

| Run | Instance | What it shows, and why the instance is enough |
|---|---|---|
| `list` | 2 resources, filters "all" and "only the first" | the list differs by pending notifications only, notices changes, and implements `LaggingMirror`. One resource for the race, a second that a filter leaves out; the life of a resource is unborn, alive, gone, so nothing else bounds the run |
| `lists` | 3 resources, a name and another property that a resource may lack, 3 strings and 2 numbers as values, filters like `[1, 'on\|off']`, 2 requests per bulk operation, 2 changes | a list is complete for what matched all the time, returns or raises only what the resources explain, and full properties are full. Three resources need a full and a smaller bulk operation and leave two matches for `find()` when one does not match; the values match for both sides, for the client only (one that begins with `on`), for none, or cannot be converted; two changes let one vanish and the other change in between. The name stands for what the HMC filters by |
| `resource` | 2 properties (one listed and writable), 2 changes each, all treatments of the query parameter | a value in order is current or pending, self-knowledge is true, changes arrive. Two changes give an old, a middle and a new value, so that a value can be rolled back and pass by a newer one |
| `updater` | 2 resource objects of one URI, 1 manager, 2 logons, 1 notification under way | the registry is exact, auto-updated objects are served, notifications reach all objects of their URI. Two objects of a URI make the dictionary shrink or grow under the listener |
| `receiver` | 1 topic, 2 connections, 3 frames, queue of 2 | no frame is lost unnoticed, doubled or reordered (`NotificationChannel`), and the generator ends (what happens between the subscriptions of two topics is left to `SubscriptionsAreKept`, section 4). Full queue with a listener waiting, a reconnect while the old listener waits, one frame on the new connection |
| `name_cache` | 2 resources, 3 names, 1 object, 2 pending notifications | entries are not staler than the last invalidation. Old, new and foreign name; a second resource takes over a name |
| `session` | 1 or 2 HMCs, 2 sessions, 1 busy retry, timeout | at most once, honest reports, no session left behind. One renewal within a call, to the same or to another HMC, before and after a busy retry |
| `lpar` | 2 clients, one with a status timeout and with exceptions allowed; 2 calls; HMC 2.16 | waits are honest and end. Two calls make one client's operation fall into the other's wait |
| `partitions` | 2 clients, 2 partitions, 1 crypto domain, 3 calls | waits are honest, and a free domain is free. One domain is the contended one; the third call changes a partition between two reads of the other two |
| `devices` | 2 clients, 3 elements, 2 adapters, pool of 3 numbers and 1 outside, 5 calls | both sides of each relation agree. Two elements compete for a number that a third one freed; five calls create, update and delete with a list between |
| `console` | 2 clients, 4 calls, 15 resources of which at most 3 are in play at a time (`World`), 2 volume requests or patterns per operation | consistency after partial failures, and clients that follow their own requests. A resource needs create, change and delete, and one call of the other client in between |

Every bound is a constant or a guard that names it: `MaxVersion`, `MaxConnects`,
`MaxSubIds`, `MaxFrames`, `MaxChan`, `MaxChanges`, `MaxTokens`, `MaxTopics`, `MaxCalls`,
`MaxRequests`, `MaxReorder`, `Member`, `World`. `World` is the set of starting points of the
`console` run: which resources exist and which can still be created; the parts
only meet in the table of resources, so that a starting point needs only the
resources of a part or two. Symmetry is used in `devices` (elements, numbers of the
pool), in `console` (clients, volumes, ports) and in `lists` (resources), which check only safety.
`BulkLimit` in `lists` is no bound but what fits into a bulk operation.
Deadlock is checked in `list`, `resource`, `name_cache` and `updater`. The program may really
stop in `session`, where the HMC's issue of sessions is bounded and a logon
without password or with an HMC that stays away ends the calls, in `receiver`, where a
closed receiver that has used up its frames and connections has nothing left to do,
in `lists`, where a behaviour is one call, and in the runs with `MaxCalls`, when the calls
are used up.

Fairness: the listener threads, the generator, the caller's loop body, an HTTP
exchange (bounded by its connect and read timeouts) and the clock keep going; in
`AutoUpdater`, a call of the user goes on until it returns and the listener handles
what is delivered; in `LparOperations`, the HMC answers, the polling goes on and time
passes. No fairness is assumed of the HMC's changes, of the user's calls, of an
answer being a success, or of a job's end.

The type invariants of AutoUpdatedList, AutoUpdatedResource, NameUriCache and AutoUpdater
are in no run: they are proved, for every value of the constants (section 4).

The run that shows where the code and its documentation disagree (in `PROJECT.json`,
"findings", with the quoted lines):

| Run | What it shows |
|---|---|
| `session_stats` | with time statistics enabled, a repeated `post()` that waits for completion ends with `RuntimeError` |

Divergences without a run, in the machinery of the client:

* With an auto-updated LPAR manager, `wait_for_status()` reads the local list and ends on a status from
  before the operation (`_lpar.py:2138`, against line 2084). In `LparOperations`, TLC finds
  `WaitOutcomeHonest` violated with `AutoUpdated = TRUE`.
* `matches_prop()` appends `$` to the pattern (`_utils.py:560`): with `on|off`, the client also takes
  a value that only begins with `on`, against `docs/concepts.rst:284-286` and the comment
  at lines 552-559. `lists` has such a value; what it checks is that nothing is missed
  that the documentation says matches, and that nothing is returned that does not match for
  the HMC or the client, whichever filters. If `Once` asks the documentation's match of the
  client as well, TLC finds `ListExplained` violated.
* A match value that cannot be converted to the type of the property raises
  `FilterConversionError` only when a resource that has the property is looked at, and no
  earlier filter argument or item of a list has decided (`_utils.py:477-484`, 535-537, 566): the same
  call with another order of the arguments, or without resources, returns a result.
* A resource that vanishes between the List operation and the requests for its properties makes
  the whole `list()` fail, when a filter pulls it with `CeasedExistence`, which no `list()` documents.

* A notification that is handled between the answer to a list request and its merge
  is lost for good (`_manager.py:800`), and a `list()` with a filter consumes the pull that an
  add notification asked for (`_manager.py:338`), against `docs/concepts.rst:534-536`. Both
  are steps of `AutoUpdatedList`, where they put a resource into `missed`.
* A pull, or an update, overwrites a newer value that was notified meanwhile
  (`_resource.py:272`), against `docs/concepts.rst:424-425`; in `AutoUpdatedResource`, such
  a property leaves `synced`.
* `close()` makes a waiting `notifications()` raise `NotificationConnectionError` instead of
  return (`_notification.py:693`, against lines 766-768).
* Two objects of one manager, a rename and a delete: the name cache keeps an entry of a
  deleted resource (`_partition.py:701`, against `_manager.py:507-510`); in `NameUriCache`,
  it is in `astray`.
* A session that expires before a busy retry is not renewed (`_session.py:1479`,
  against lines 1206-1207).
* The updater is never closed when the last object is disabled, because its own CPC
  manager is registered (`_auto_updater.py:284`, against `docs/concepts.rst:409-411`).
* `list()` after `create()` misses the new element until the parent is pulled
  (`_manager.py:977`, `_nic.py:87`).
* `StorageVolumeTemplate.delete()` looks for `storage-volume-uris` instead of
  `storage-template-volume-uris` (`_storage_volume_template.py:321-322`): the client's list keeps
  the volume. `StorageGroups` has it so, and `VolumesFollowOwnDelete` is about groups only.
* `VirtualStorageResource.attached_partition` uses an attribute `cpc` that its manager does
  not have (`_virtual_storage_resource.py:250`).
* `activate()` decides by the profile that was given or is next whether to wait for an
  operating LPAR, and can wait for a status that is not going to come.
* `create()` of an SSO server definition returns an object with the values that were sent
  for properties which the server controls (`mock/_urihandler.py:2003-2011`,
  `_sso_server_definition.py:197-207`); in `ServerDefinitions`, the client is `overruled`.
* `_do_logoff()` does not clear the session credential; after a failed logon or a
  `version_info()` the properties `actual_host` and `base_url` are not `None` although the
  session is not logged on; `logoff()` ignores connection errors; `logon(always=True)`
  and a failed `logon(verify=True)` leave the old session on the HMC; a lost answer to the
  deletion of a finished job loses its result; a job cancelled by someone else is never
  taken for ended; `is_subscribed()` stays true after `unsubscribe()`, and a second
  `unsubscribe()` does not raise `SubscriptionNotFound`; a second `notifications()` after
  `close()` connects again and leaves the connection open; `close()` before `connect()`
  raises `AttributeError`; `find_by_name()` on an auto-updated manager uses the stale names
  of local objects; a rename of a storage volume does not reach the name cache; `post()`
  with `wait_for_completion` fails on an asynchronous result that is empty but has a
  Location header.

In the mock HMC (all of them are in the models as the code has them):

* Decreasing the crypto configuration deletes from a list while enumerating it
  (4597-4600). A degraded partition cannot be stopped. All line numbers here are those of
  `mock/_urihandler.py` unless another file is named.
* Deleting a NIC leaves its URI in `connected-vnic-uris`; an update of a device number is
  not told to the pool; deleting a hipersockets adapter leaves its switch and port; a NIC
  whose switch does not exist is half created (`mock/_hmc.py:2734`) and cannot be deleted.
* A failed create or modify operation of a storage group keeps what it has done
  (5093-5112, 5152-5188); it returns objects instead of URIs (5106); a group that was created
  has no `candidate-adapter-port-uris` (5275); a deleted volume stays in
  `storage-volume-uris`.
* A role can be added to a user twice and is then removed once; a deleted role can never
  be removed from a user; system-defined roles can be deleted; updating a pattern can set a
  second identification method; a reorder request that fails has moved some patterns (843).
* A deleted partition stays in its capacity group, which can then never be deleted.
* Members of custom groups are neither checked nor unique; one deleted member makes the list
  of members fail.
* A standard load does not record `last-used-load-type`.

## 4. Proofs

Checked by TLAPS, for all values of the constants that satisfy the assumptions
named in the modules:

* `Lists_proofs`, about `AutoUpdatedList`: `TypeCorrect`, `LagInvariant`, `LagCorrect`, `MirrorCorrect`. `LagIsPending` only
  speaks of the moments between calls. It is not inductive: a pull under way
  carries an answer that becomes the list, so `LagInv` also says, for each step of
  a call, how the answer may differ from the inventory - by pending or by already
  handled notifications (`heard`) - and that the topic holds at most one add
  before one remove per resource, in this order. The HMC's steps, the user's
  steps and the listener's steps each preserve it (`LagInvHmc`, `LagInvCall`,
  `LagInvListener`). `MirrorCorrect` is the refinement of `LaggingMirror`: with the type
  invariant and `LagInv`, every step maps to a step of the mirror or a stutter.
* `Lists_proofs`, about `ResourceLists`: `ListsTypeCorrect`, `ListIsComplete`, `FullIsFresh`,
  `OutcomeIsExplained`. The properties speak of calls that have returned; `ListsInv` says what is
  so on the way there. A resource that exists and matches all the time is in the rest of the
  list, in the batch or in the result (`NoneLost`). What is there has had values that pass
  the HMC's filters, and what has been taken, those that the client applies as well (`NonePast`). A value
  that the client knows is one that the resource has had since the call began (`Fresh`).
  `Phases` says which parts of the state each phase of the call has emptied, `Full`
  that what is in the result is full, agrees with the client's filters and is requested
  no more, and `Explained` that an exception has had its cause. All four
  theorems hold for every pattern and list of patterns: what matches for the HMC, or matches as the
  documentation says, also matches for the client, unless an error ends the call. The
  assumption (`ListAssumption`) is that there are
  finitely many resources, that the "no ..." values are no values, and that the bounds
  are numbers.

* `AutoUpdatedResource_proofs`: `TypeCorrect`, `ResourceInvariant`, `SyncedCorrect`,
  `FullCorrect`, `CeasedCorrect`, `SelfKnowledgeCorrect`. The strengthening `ResourceInv` adds that nothing the
  client knows is newer than the HMC and the topic has the changes of a property
  in increasing order up to the latest (`TopicOrder`), that a remove notification is the
  last one (`TopicEnd`), what an answer contains in each step (`ReplyShape`), and that
  an answer is current, or superseded by a pending or already stored value
  (`ReplyLag`).

* `NameUriCache_proofs`: `TypeCorrect`, `StaleInvariant`, `StalenessCorrect`,
  `FollowsCorrect`. An entry is written at the end of a call from what the call
  was given or the object says by then, so both invariants are strengthened with what
  the call under way will enter (`EntryToCome`), with the answer it holds (`HadNow`,
  `FollowsInCall`) and with the entry it is about to remove. The only assumption
  (`CacheAssumption`) is that the values for "no name" and "no resource" are neither.

* `AutoUpdater_proofs`: `TypeCorrect`, `RegistryIsExact`, `AutoIsServedAlways`.
  `RegistryExact` and `AutoIsServed` only speak of the moments between calls, so the
  invariants say more. `RegistryInv`: the object of a call that is about to pull is
  registered. `ConnInv`: at which steps of `open()` there is a connection, and what an
  open connection has by then (a topic that is served, the subscription, the list of
  CPCs), and that the listener is only at work on an open one. That closing with the
  last registered object leaves no auto-updated object behind needs `RegistryInv`. The
  assumption (`UpdaterAssumption`) is that there are finitely many objects, at least
  one URI, and that the bounds are not zero.

* `NotificationReceiver_proofs`: `TypeCorrect`, `SubscriptionsAreKept`, `ChannelCorrect`. Type
  correctness needs `ControlOK` (what each step of a call has at hand) and `IdsSuffice`:
  the bound on subscription IDs leaves enough of them for the topics that a `connect()`
  under way still has to subscribe. `SubscriptionInv` says that all IDs in use are known
  (`IdsKnown`) and which topics are subscribed while `connect()` goes through them
  (`ConnectInv`). `ChannelCorrect` is the refinement: `OrderInv` says that the numbers on the
  wire, in the hand and in the queue of a connection ascend and follow each other (`WayInv`,
  `PlaceInv`) and that no number is used twice (`NumbersSent`); with it every step of the
  threads maps to a step of `NotificationChannel` or a stutter. The assumption
  (`ReceiverAssumption`) is that the bounds are positive and "no frame" is not a frame.

* `HmcSession_proofs`: `TypeCorrect`, `SessionIsKept`, `ExecutedAtMostOnce`, `ReportsAreHonest`.
  `SessionInv` accounts for every session ever issued: it is the client's, was given
  up, or is about to be stored or given up by the step that has it (`TokenKnown`,
  `NoTokenYet`, `OldGivenUp`, `SessionsAccounted`). `CallInv` says how often the operation of
  the call can have been executed by each step (`Executed`), what the client knows of its job
  (`JobKnown`), and what the outcome it is about to report rests on (`ReportsHonest`). The assumption
  (`SessionAssumption`) is about the bounds and the "no ..." values.

* `LparOperations_proofs`: `TypeCorrect`, `WaitsAreHonest`. `HonestInv`
  relates, for each client that waits, the status it read last to the history since its
  operation. `WaitsAreHonest` has the hypothesis `~AutoUpdated`: with an auto-updated
  manager the invariant is false (see the divergences in section 3).

* `MockHmc_proofs`, about `DpmDevices`: `TypeCorrect`, `RelationsKept`, `DevnosUnique`, `OwnDeletesSeen`. The
  lemma `StepKinds` says that every handler does one of few things to the tables: it adds an
  element with both sides of its relations, removes one, or changes its number or its
  adapter. `RelationsAgree` then rests on `History` (URIs are never used again), and
  `DevnosDistinct` on `NumbersAllocated` (numbers from the pool are marked as used). The assumption
  (`DeviceAssumption`) is that there are not more elements than numbers in the pool, so that it
  is never exhausted.

* `MockHmc_proofs`, about `DpmPartitions`: `PartitionsTypeCorrect`, `StatusIsReached`,
  `UsageIsExclusive`. `WaitInv` strengthens `StatusReached` with the moment
  between the poll and its evaluation, and with the partition's status now: the history
  `hit` covers both. `DomainInv` strengthens `UsageExclusive` with what a client that
  reads the partitions one by one has understood so far (`ReadInv`): a domain in use is among
  those that it has read, or belongs to a partition that it still has to read, unless
  another client raced with it. A partition that is created meanwhile does not escape it,
  because a partition without an adapter uses nothing, and one that does not exist has no
  adapter (`AdapterOfLive`). Type correctness needs the
  lemma `KeptEntries`, because the handler of a decrease deletes from a list while it
  goes through it.

* `MockHmc_proofs`, about `ConsoleInventory`: `InventoryTypeCorrect`, `InventoryIsConsistent`,
  `ClientsFollowTheirs`. `InventoryInv` has a part for each module, and an action of one module
  preserves the parts of the others because they share only the table of resources.
  * `ObjInv`: what a client holds has existed, so that `ClientViewHonest` speaks of the
    resource that the client means. Each call is shown to be an `HonestChange`: all clients
    that could be deceived by it differ from then on.
  * `StorageInv`: a group or template lists all its live volumes, may keep those that were deleted, and
    has none of another one; and a volume that a client has deleted has existed, so that its identity and its
    group stay the same. A handler that carries out one request after the other goes through
    states of the handling (`HandleState`), each of which has exact lists; therefore so
    has the state in which it fails, wherever that is.
  * `UserInv`: the search order is a permutation of the existing patterns, also after
    each single move of a reorder request; a role or permission is in a list at most as
    often as there have been calls. That patterns can be in an order in the first place
    takes that there are finitely many.
  * `CapacityInv`: only groups that exist have partitions, and no two have the same one.
  * `GroupInv`: there are no more members than there were calls.

  The assumptions say that user patterns and capacity groups are classes of resources of
  their own and that patterns are finitely many (`InventoryAssumption`), that the classes are
  resources, and that the bounds are numbers (`MaxRequests` a positive one).

The handlers that go through the elements of a request are written as recursive functions.
What they return is proved by induction through sets: a set of numbers that has 0 and the
successor of each of its elements has them all (`SetInduction`, from `LeastNumber`).
`RunExists` and `AlongRun` turn this into the two facts that the proofs use: a
sequence of steps has a run, so that the recursive function is defined, and a set that each
step preserves has all states of the run.

Only model-checked: the liveness properties (`ChangesNoticed`, `CatchesUp`, `EndsWhenItMust`,
`FramesHandled`, `CallsEnd`, `NotificationsReach`, `WaitEnds`), which need fairness and `ENABLED`, out of the
prover's reach. Every safety property of a passing run is proved, one of them under a hypothesis
(`WaitOutcomeHonest`, see above). `MeasurementsEnded`, the property of `session_stats`, is false.

## 5. Not modelled, and the plan

Next:

1. Temporary capacity of a CPC, whose requests for processors of several types fail
   halfway (2872-2887) and refuse to remove the last processor (2946).
2. Attachment of storage groups to partitions, and activation profiles.
3. Composition of a session that is renewed with the updater that stays on the old topic
   (`AutoUpdater` has the topic, not the calls of `HmcSession`).

Left out for good: text formats, logging, exceptions as data, parsing of metrics, read-only
queries, test utilities, firmware and energy operations (single requests without an
effect on anything else that the client or the mock HMC keeps), and what only a real HMC does
(the fulfilment of storage groups, virtual storage resources, tape).
