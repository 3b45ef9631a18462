# Formal models of nico-core-mock

`nico-core-mock` is one Go process: a mock of the Forge gRPC server that keeps
its state in maps, writes them to a JSON file after every mutating call, and,
when it is given a libvirt endpoint, provisions real domains for the instances
that clients allocate.  This directory holds TLA+ models of its stateful parts,
the TLC runs that check them and TLAPS proofs of the main results.

    tlc -config ForgeServer_calls.cfg MCForgeServer.tla     # a run
    tlapm ForgeServerProofs.tla                             # the proofs

Paths below are relative to the repository (`src/`).

## 1. The system

| Component | State | Operations | Module |
|---|---|---|---|
| RPC interceptor, shutdown, restart (`internal/server/server.go`) | `mu`, calls in flight | lock, handler, save, unlock, reply; save and `GracefulStop` on a signal | `ForgeServer` |
| State file (`internal/statestore/store.go`, `internal/server/persist.go`) | the file, its `.tmp` sibling | `Save`, `Load`, `exportSnapshot`, `applySnapshot` | `ForgeServer`, abstractly `DurableState` |
| Instances (`forge_server.go`) | `ins` | allocate, release, config update, reads that advance the lifecycle | `ForgeServer` |
| Machines, instance types (`forge_server.go`, `instance_type.go`) | `m`, `it` | creation by an allocation, association, types and their defaults | `ForgeServer` |
| Network security groups | `nsg` (in no snapshot) | create, delete | `ForgeServer` |
| Libvirt provisioner (`internal/libvirt/provisioner.go`, `domains.go`) | domain, boot disk and root volume of each machine; goroutines | `ProvisionMachine`, `ReleaseMachine`, `startExistingDomain` | `Provisioning`, abstractly `MachineService` |
| OS image cache (`internal/libvirt/imagecache.go`) | cache file, single-flight group | open, verify, remove, download, rename | `ImageCache`, abstractly `SharedDownload` |
| Machine identity (`forge_server.go`) | key slots, token delegations | configure, rotate, sign, JWKS, delegate | `Identity` |
| VPCs, segments, prefixes, peerings (`forge_server.go`), addresses (`utils.go`) | `v`, `ns`, `vp`, `vpp`, addresses in `ins` | create, update, delete, find; the address an allocation draws | `Networks` |
| OS images, operating systems (`forge_server.go`, `operating_system.go`) | `osi`, `oss` | create, update, delete; the stub an image creates; the lookups of an allocation | `OsCatalog` |
| Expected machines, shelves, switches, racks (`forge_server.go`) | `em`, `eps`, `es`, `er`, the links of the YAML | add, update, delete, batches, replace all; the linked list | `ExpectedHosts` |
| Tenants, keysets, partitions, security groups (`forge_server.go`) | `tt`, `tk`, `ibp`, `nvlp`, `nsg` | create, update, delete, find | `TenantTables` |
| The four above with their persistence, crashes and the inventory cron | all of them, the state file | calls, saves, starts | `SiteTables` |
| Domain XML (`domain_xml.go`) | the document of a domain | choose and replace the boot disk, strip boot elements and CD-ROMs | `DomainXml` |
| Cloud-init seed, config drive, libvirt connection, temp directories, configuration files, command line | none that lasts | files and external tools | not modelled |

How the parts interact:

* Every RPC takes `mu`, runs its handler, is saved under `mu` when
  `IsMutatingMethod` says so, and unlocks.  gRPC marshals the reply after that,
  from the objects the handler returned by pointer.
* The shutdown goroutine takes the same mutex for its own save, unlocks, and
  waits for the calls in flight.
* `AllocateInstance` and `ReleaseInstance` start a goroutine each and return.
  The goroutines share no lock: they meet at libvirt, by the names of domains
  and volumes, and at the image cache.
* A start seeds the maps from the inventory, lays the state file over them and
  fills an empty table of instance types; goroutines, identity keys and the
  tables that are in no snapshot do not come back.
* Owners, guests and the hypervisor pause, resume and end domains at any time;
  the server looks at a domain's state twice in a provision, once in a release.

What is hard: calls that overlap although handlers do not; crashes anywhere in
a save; a save that fails and is only logged; jobs that overlap each other and
die with the process; an error that a release passes over; a cache file removed
by name after it was checked; a domain that is neither running nor off, or
that changes between two looks at it; a domain document that is read, edited
and written back in separate calls; key rotation against the life of tokens; rows
that separate calls create under one id; a client that lists ids and asks for
the rows later.
`PROJECT.json` lists the hazards at their lines with the properties about them.

## 2. The modules

### ForgeServer

`up`, `ins`, `m`, `it`, `nsg`, `mu` are the process and its maps, `file` and
`tmp` the state file and `path.tmp`.  `pc[c]` says where an RPC is: `waiting`
for the mutex, `handled`, `written` (temp file complete), `saved`, `replying`
(mutex released, reply not marshalled).  `ret[c]` are the instances its reply
points to: "live" while the map still holds the object, else the state the
detached object kept.  `told` and `unsaved` are history: what clients were
told of the living instances, and whether the last save failed.

Maps are functions with the value `Absent` for a missing key.  Of the nine
persisted maps three are carried; the other six are in `SiteTables`.  `nsg` stands for those that are in no
snapshot.  The only parts of an instance config that are kept are the network
part, which an update must not touch, and the image.

A handler is one action under the mutex (it cannot be interrupted, and a crash
in the middle of it is a crash before it), with a disjunct for its refusals.
`Save` is two steps, the write and the rename, each of which may fail, and a
crash during the write leaves a torn temp file.

`DurableState` is the abstract specification: a memory, a saved copy, and a
restart that brings the saved copy back; a save is one atomic step and happens
only with something to save.  `ImplementsDurableState` is the refinement,
`INSTANCE DurableState WITH` the memory, the file and the step between handler
and rename.

### ImageCache

One cache key; keys share nothing.  Every file-system call of
`tryOpenCachedImage` is a step, from each of its three call sites (`site`):
before the group, inside it, after it.  `flight` is the map of
`imageFlightGroup` at the key; `leader[j] = j` marks a call whose wait group is
done.  A failing removal, stat, hash or open is `IoError`.  `calm` is history:
the cache started without a stale file and nothing has failed.

`SharedDownload` is the abstract specification, a cache without stat, hash,
temp file and rename.  In one step a job is served, in a state in which the
cache holds the right content, or refused; it leads a call or joins the one
under way; a call ends well only if the content is right at that moment; who
joined a call learns the outcome of that call and of no later one.  Nobody is
refused unless a call failed or the cache started with a wrong file.
`ImplementsSharedDownload` maps the file to the content, the registered job to
the one that works, and the `pc` and `site` of a job to its stage (`Stage`).

### Provisioning

A machine has a domain (`running`: what it was booted from; `paused`: whether it
is alive in any other state than running), a document (`xml`) and a root volume
(`vol`: whose image, made for whom, complete or not).  A job is a goroutine; its
`pc` is the libvirt or HTTP call it makes next.  It holds the document it has
edited and not yet defined (`doc`), which may be out of date by then.  Each call
may fail when `Faults` names it: `Fail` is what the code does then
(end, go on, or delete the volume first).  The handlers are atomic here and
`Crash` restores what was saved, which is what `ForgeServer` shows of them.
A release deletes two volumes, and may fail or die between the two (`Delete`,
`Tidy`).  `Guest` is what happens to a domain without the server: it is paused,
resumed, or ends.

`stopDomainIfRunning` stops a domain in state running only.  Beside any other
live domain a job goes on: it replaces the volume that domain is alive on, and a
release then reports success, while a provision boots in vain, or takes the old
domain for the new one if it has been resumed by then.  Such a job is not
`clean`; nor is a release that passed over an error, which `ReleaseMachine` logs.
`settled` is history: the job that ended last on the machine, with its `clean`,
or `Failed`, also when the domain has ended by itself since.

`MachineService` is what is promised of a machine to callers who wait for their
jobs, without goroutines, libvirt calls and documents.  One piece of work at a
time is done on a machine.  A provision with an image stops the domain, wipes and
writes the volume while it is off, and boots it in the step that reports
success, from the volume it has completed itself.  A provision without one
reports success in a step in which the domain runs, or starts from what it
has.  A clean release ends with the machine off and empty.  Clean work touches
the volume only of a domain that is off.  What has passed over an error or a
paused domain (`PassOver`) is bound by neither, and a provision may then report
success for a domain it did not start (`Mistake`).  An error, or a crash, ends
the work wherever it is, between the two deletes of a release too, and touches
nothing that runs.  `Guest` changes the domain and no work.
`ImplementsMachineService` maps the one job of a machine to its work (`Work`)
and forgets the `pc`.

Environment assumptions: `Placeable`, one instance per machine (the cloud side
sees to it, the server does not check); `CallersWait`, in one run, callers leave
a machine alone until its job has ended.

### DomainXml

A document is whether `<os>` names boot devices, and the devices in document
order, each with kind, boot order and source (its own, or the root volume).
`SelectBootDiskIndex`, `PatchDomainBootDiskXML` and `StripConfigDriveDisks` are
the edits; `Definable` is what libvirt accepts (a boot order at most once, none
beside an `<os>` boot device) and `BootsVolume` what it then boots.  The code
gives the chosen disk order 1 and leaves other orders alone: a document with a
network card or CD-ROM of order 1 is refused, and the provision fails.  Every
CD-ROM is removed, one the operator put there too.

### Identity

`identityState[o]` has the two key slots, the active one, the expiry of the
other and the ttl; `0` is the ttl of a state without configuration.  A restart
makes a fresh key for the seeded organization and drops the rest.  `made` and
`until` are history: the keys of an organization since it was configured and
the expiry of the last token each has signed.  `GetPanics` is the nil
dereference of the get on a state whose first key generation failed.
`RotationsWait` restricts callers to one open overlap window at a time, which
the code does not enforce.

### SiteTables

`Tables` holds what the maps have in common: the id a create takes and the
entries of a batch.  `Networks`, `OsCatalog`, `ExpectedHosts` and
`TenantTables` are the handlers of one group of maps each, an action per
handler.  A refused call changes nothing and is a stuttering step, so that an
action states only when its handler succeeds and what it does.  Rows keep the
fields another call reads.

* **Networks.**  Deleting a VPC leaves its prefixes and peerings; a segment is
  made for any VPC id; a peering is compared with the others in both
  directions.  A CIDR is `[base, size]`, and `GenerateIPAddressInCIDR` is the
  set of addresses the random draw may give.  For a /31 the modulo is by zero:
  `AllocatePanics`, and the process dies.
* **OsCatalog.**  Creating or updating an image ensures an operating system of
  the same id; deleting it deletes that one, whoever made it.  An allocation
  looks for the image under the image id first and for the user data under the
  operating-system id first.
* **ExpectedHosts.**  Batches, in which a bad entry fails alone and the later
  of two wins; the linked list, in which the YAML's entries win for good, even
  without a `machine_id` and after an update or a delete.  A host has any
  number of interfaces, so that it may carry the MACs of several expected
  machines.  The list asks libvirt again for each entry: `seen[i]` is what it
  shows when entry `i` is linked, and the properties quantify over all `seen`.
* **TenantTables.**  No snapshot holds these maps.  Some creates replace
  silently (tenants, partitions), one update creates (tenants).

`SiteTables` adds what `DurableState` promises: a call is one step, its save
another that may fail, a crash may come between.  `ForgeServer` is where the
mutex, the temp file and the rename are shown to give that.  `cron` is the site
agent's inventory loop: `CronLists` keeps the ids of one call and `CronAsks`
uses them in a later one.  `Load` is `applySnapshot`, which skips a row without
an id; of these tables only the instances can hold one (`EmptyId`), because
`AllocateInstance` takes the id it is given.

An operator `Bug_X` in any module is the definition `X` with a plausible mistake;
no specification uses one.  Each property has one under which TLC refutes it.

## 3. The runs

| Run | Checks | Bounds |
|---|---|---|
| `ForgeServer_calls` | `OneOwner`, `ToldIsDurable`, `ImplementsDurableState`, `EveryCallAnswered`, `ShutdownCompletes`, `ReadyOrGone` | 2 calls, 1 instance, 1 machine |
| `ForgeServer_crash` | `TypeOK`, `NothingToLose`, `ToldIsAlwaysDurable`, `InstanceMachineKnown`, `NetworkAligned` | 1 call, 1 instance, 1 machine outside the inventory, 2 networks, 1 type, 1 group, id lists of 2 |
| `ForgeServer_told` (violated) | `ToldIsAlwaysDurable` | 2 calls |
| `ForgeServer_survives` (violated) | `StateSurvivesRestart` | 1 call, 1 group |
| `ImageCache_jobs` | `TypeOK`, `OneInside`, `OnlyVerifiedContent`, `FetchedOnce`, `NoSpuriousFailure`, `EveryJobEnds`, `ImplementsSharedDownload` | 3 jobs, any initial file, all faults |
| `ImageCache_stale` (violated) | `AtMostOneFetch` | 3 jobs, a stale file, no fault |
| `SiteTables_calls` | `TypeOK`, `TablesSurvive`, `PeeredOnce`, `ImageHasOs`, `NoneHidden`, `HostsNotShared`, `InventoryComplete`, `UserDataKept`, `HostAddressOnly` | 2 ids a map, 3 expected machines, 2 hosts of which one has two interfaces, 8 addresses with CIDRs of 8, 4, 2 and 1, 2 instance ids of which one is "", one in use at a time, batches of 2 |
| `Provisioning_faults` | `TypeOK`, `ProvisionedRunsItsImage`, `ReleasedIsOff`, `NoForeignBoot`, `ProvisionEnds`, `ImplementsMachineService` | 1 machine, 2 instances, 1 image, 1 job, all faults, crashes, domains that pause, resume and end |
| `Provisioning_attended` | `HalfImageIsAttended`, `DataDisksKept` | 2 jobs, all faults but in the cleanup, 5 shapes of domain, domains that pause, resume and end |
| `Provisioning_overlap` (violated) | `ReleasedIsOff` | 2 jobs, no fault |
| `Identity_rotate` | `TypeOK`, `TokensVerify`, `RetiredKeyHasEnd`, `DelegationNeedsIdentity` | 2 organizations, 3 keys, 5 instants, ttls 1-2, overlaps 2-3 |
| `Identity_ttl` (violated) | `TokensVerify` | the same, overlaps 1-2 |

Why the bounds are enough for the questions asked.  Two calls: the mutex
serializes, so that a third only waits behind the second; a reply needs one
other call to change its object.  One instance: the handlers touch one key at a
time, and lists of two exercise the repeated id.  One machine: machines share
no libvirt object.  Two instances on it: a tenant and the next; a volume is
told apart by the instance it was made for, so that both may have one image.
Three jobs in
the cache: a leader, a waiter, and one that comes between the leader's removal
of the key and the waiter's own look.  Three keys: seed, rotation, and one more
rotation, or a second organization, or a restart.

`SiteTables_calls` looks at one group of tables at a time (`MCSpec`,
`OneGroupAtATime`): the groups share no table and no handler reads two of them,
so that a second group adds nothing but products of states; a group is quiet
while its tables are as the first start leaves them.  Two ids let a
default id, a caller's id and a fresh one differ, and two peerings or two
prefixes meet.  The CIDRs are those the arithmetic tells apart: the whole space,
a common one, a /31 and a /32, in a space of 8 addresses for 2^32.
`LittleLost` bounds by `MaxLag` = 1 how many rows failing saves leave the file
behind memory; longer lags are the proofs' business.  `OneInstance` lets memory
and file together hold one instance id, "" or not: no handler of these tables
reads two instances.  `MCShapes` are a plain
domain, two disks and a CD-ROM, a CD-ROM and a network card that boot first, and
a domain without a disk: the choices and refusals of `DomainXml` all occur.

No run disables the deadlock check.  `Provisioning_attended` and the `Identity`
runs use symmetry; they check invariants and, the first, one action property
that treats all values alike, and no liveness.  `Provisioning_attended` has no
crashes, so that nothing in it depends on the state file or on how earlier jobs
ended: TLC compares states without those two (`Attended`, its VIEW).

`ImplementsSharedDownload` and `ImplementsMachineService` are checked by TLC
with every fault, the second also with crashes and guests acting at any point,
and proved for any
number of jobs, machines and images.  `DataDisksKept` looks at the documents of a machine before
and after each step: a disk other than the one a provision would have chosen
before is never on the root volume afterwards, and the choice never changes.

**Fairness.**  `ForgeServer`: weak fairness of the steps of a call that holds
the mutex and of its reply (goroutines run), strong fairness of taking the
mutex (a Go mutex in starvation mode hands itself to the waiter at its head),
weak fairness of the exit.  No fairness of `Start`, `Arrive`, `Signal` or of
saves that succeed.  `ReadyOrGone` adds what the clients must do, as the
antecedent `Polling`: keep calling, keep asking for each instance, restart the
process; and that it finally stays up.  `ImageCache` and `Provisioning`: a
goroutine takes its next step, because HTTP requests time out (two hours) and
libvirt calls return.

### What the violated runs show

* **Replies race with the next call** (`ForgeServer_told`).  The mutex is
  released before gRPC marshals the reply, and the reply is the map's own
  object.  A client can be told a state that is not on disk, and that a crash
  takes back.  `ToldIsDurable` is what remains true.
* **Some tables do not survive** (`ForgeServer_survives`).  Network security
  groups, and the other tables `exportSnapshot` leaves out, are empty after a
  restart although every save worked.  That is the one way this run shows.  By
  the code `StateSurvivesRestart` fails in two more, which other runs reach as
  exceptions of the properties that hold: deleting the last instance type brings
  the default types back (`NothingToLose` in `ForgeServer_crash`), and an
  instance allocated with the id "" is saved and skipped by the load
  (`TablesSurvive` in `SiteTables_calls`).
* **A stale cache file costs a second download** (`ImageCache_stale`).  The
  removal happens by name, outside the group, after a slow hash.
* **A release can overtake the provision it undoes** (`Provisioning_overlap`).
* **A shorter ttl** (`Identity_ttl`).  The overlap is compared with the ttl of
  the request, while the tokens in use were signed with the one before.

Weaknesses that the environment assumptions and the exceptions leave open:

* A second rotation inside an open window drops a key whose tokens are alive
  (`RotationsWait = FALSE` violates `TokensVerify`).
* A release that passes over a failed stop, or over a paused domain, reports
  success with the domain alive, and in the second case its volume deleted.
  `ReleasedIsOff` excepts both by `clean`; without it TLC refutes the property.
* A provision beside a paused domain replaces the volume the domain is alive
  on, and reports success if the domain is resumed before it looks again.
  `ProvisionedRunsItsImage` excepts it by `clean`; the next tenant of a machine
  with an image is not affected by any of these.

## 4. The proofs

| Theorem | Module | States |
|---|---|---|
| `TypeCorrect` | `ForgeServerProofs` | `[]TypeOK` |
| `MutualExclusion` | | `[]OneOwner` |
| `CrashLosesNothing` | | `[]NothingToLose` |
| `Refinement` | | `ImplementsDurableState` |
| `RepliesAreDurable` | | `[]ToldIsDurable` |
| `AloneRepliesAreDurable` | | `[]ToldIsAlwaysDurable`, with one RPC at a time |
| `InstancesHaveMachines` | | `[]InstanceMachineKnown` |
| `NetworkStaysAligned` | | `[]NetworkAligned` |
| `SomebodyCanGo` | | no deadlock among RPCs, the mutex and `GracefulStop` |
| `CallsGoForward` | | an RPC takes at most five steps; none begins while the shutdown drains |
| `TypeCorrect` | `ImageCacheProofs` | `[]TypeOK` |
| `SingleFlight` | | `[]OneInside` |
| `VerifiedImages` | | `[]OnlyVerifiedContent` |
| `DownloadedOnce` | | `[]FetchedOnce` |
| `NothingFailsAlone` | | `[]NoSpuriousFailure` |
| `SomebodyCanGo` | | no deadlock among jobs, waiters included |
| `JobsGoForward` | | each step of a job is one forward |
| `Refinement` | | `ImplementsSharedDownload` |
| `TypeCorrect` | `ProvisioningProofs` | `[]TypeOK` |
| `NoHalfImageLeft` | | `[]HalfImageIsAttended`, if the process does not crash and deleting the volume works |
| `OtherDisksKept` | | `DataDisksKept`, however jobs overlap |
| `OneDiskEver` | | once a disk uses the root volume, no other ever will |
| `CleanupIsAccepted` | | libvirt never refuses what the CD-ROM removal writes back |
| `JobsGoForward` | | each step of a job ends it or is one forward, of sixteen at most |
| `ProvisionsRun` | `PatientProofs` | `[]ProvisionedRunsItsImage`, if callers wait, whatever guests do |
| `ReleasesEmpty` | | `[]ReleasedIsOff`, the same |
| `BootsAreOwn` | | `NoForeignBoot`, the same |
| `Refinement` | `ServiceProofs` | `ImplementsMachineService`, if callers wait |
| `TypeCorrect` | `IdentityProofs` | `[]TypeOK` |
| `RetiredKeysEnd` | | `[]RetiredKeyHasEnd` |
| `DelegationsHaveIdentity` | | `[]DelegationNeedsIdentity` |
| `LiveTokensVerify` | | `[]TokensVerify`, if rotations wait and every overlap is at least every ttl |
| `TypeCorrect` | `SiteTablesProofs` | `[]TypeOK` |
| `RestartLosesNothing` | | `[]TablesSurvive`: all but an instance without an id |
| `PeeringsDiffer` | | `[]PeeredOnce` |
| `DrawIsExact` | | the draw reaches every host address of a CIDR and no other, with its exceptions |
| `DrawsHostAddresses` | | `HostAddressOnly`, in an address space of any size |
| `ImagesHaveOperatingSystems` | | `[]ImageHasOs` |
| `ImagesKeepUserData` | | `UserDataKept` |
| `NoExpectedMachineHidden` | | `[]NoneHidden` |
| `NoHostShared` | | `[]HostsNotShared`, for hosts with any number of interfaces |
| `InventoryIsComplete` | | `[]InventoryComplete` |

They hold for all values of the constants that meet the named assumptions of
the modules (`SetsAssumption`, `SpecialValuesAssumption`,
`ImageCacheAssumption`, `ProvisioningAssumption`, `SpecialValues`,
`IdentityAssumption`, `AbsentAssumption`, `DomainAssumption`, `IdsAssumption`,
`CidrAssumption`, `NetworkRowsAssumption`, `OsAssumption`, `ExpectedAssumption`,
`ValuesAssumption`, `NoFileAssumption`), which say that the special values
differ from the data and from each other, that CIDRs lie in the address space
and have sizes that are 1, 2 or at least 4, and that an operator's domains are
ones libvirt accepts; TLC evaluates them in the runs.  `NatSets` holds a fact
about naturals: a set of them has a least member.

* **ForgeServer.**  `NothingToLose` is not inductive: it speaks of states with
  the mutex free and no save failed.  The invariant (`Kept`, with `CallDirty`:
a call is between its handler and its rename) adds what holds in between: who is
  `handled`, `written` or `saved` owns the mutex; in `written` the temp file is
  the present memory; after the rename, unless the save failed, the file is; and
  no machine of the inventory is missing from memory, so that the overlay of the
  file on the inventory restores exactly what was saved.  The refinement then goes action by action:
  handlers and a start map to the abstract change and start, the rename to the
  commit, a failed write or rename to its loss, the rest stutters.  For
  replies, `Heard` says that no client was told more than the live instance
  holds, which a step can only raise or remove (`InstanceStep`); with `Kept`
  it gives `ToldIsDurable`.  If there is one RPC at a time (`Alone`) nobody
  changes an object between its unlock and its reply.  `Fit` says of memory and
  of the file together that machines and interfaces fit the instances, because
  a restart turns the one into the other.
* **ImageCache.**  A job inside the group is the registered one, from which
  mutual exclusion follows.  For the single download: while `calm`, no job is
  about to remove, the one about to download has seen that there is no file and
  nobody has downloaded, and whoever has downloaded is about to rename or the
  file is good.  That nothing fails while `calm` needs that a registered call
  has its leader inside (`CallRuns`), so that no waiter wakes to an error
  (`Smooth`).
  The refinement (`Refined`) adds that a job which joined a call waits for one
  that registered (`Calls`), and that nothing puts a stale file back
  (`NoNewStale`), so that between the digest check and the open the content
  cannot become wrong: it can only go, and then the open fails.  A rename that
  fails is forgiven in a step in which some file is there, which by then is a
  good one.
* **Provisioning.**  A job that makes or fills a volume is a provision with an
  image.  An unfinished volume has a job at `upload` or `drop`: the only step
  that creates one leaves its job there, and each step of that job that leaves
  the volume unfinished stays at one of the two.  For the disks
  (`DocsAgree`, `SameDisk`): in every document that is defined, and in every one
  a job has read, edited or is about to write back, only the disk the choice
  falls on uses the volume, and the choice is the same in all of them on a
  machine.  It stays the same because a patch gives the chosen disk order 1 and
  leaves the others alone, so that whatever made the choice fall on it still
  does (`PatchSame`), and because a cleanup removes no disk the choice could
  fall on (`StripKeeps`).  A document that is written back out of date is then
  harmless: it agrees on the disk.  Nor does a cleanup add a boot order, so
  that libvirt accepts what it writes back (`CleanupIsAccepted`).
* **Provisioning, when callers wait** (`Patient`).  Jobs on a machine do not
  overlap, so that a step of one cannot disturb the stage of another, and a
  guest can end a domain but not start one.  A provision with an image that is
  still clean has the domain off from the stop to the boot; every one has the
  volume whole and its own from the upload on, and a disk on it that boots
  first from the define on, in the document and then in the domain, which the
  removal of CD-ROMs keeps.  What the job that ended last left stays until the
  next begins, also through a crash, which forgets the result of a job it kills.
  With that (`ServiceStep`) every libvirt call maps to a step of
  `MachineService` or to none: the boot to the one that reports success, a
  lookup or the edit of a document to none, a failure to the end of the work or
  to `PassOver`, the look at a paused domain to `PassOver` too.
* **Identity.**  No token lives longer than the shortest overlap from now; a
  key with live tokens signs, or is the inactive one and its window covers them;
  a key that was never generated has no tokens.  A rotation keeps this because
  the old window has closed and the new one covers what the retired key signed.
* **SiteTables.**  `TablesSurvive` rests on what a load makes of an export: every
  row but that of the instance without an id (`ExportLoads`).  For `PeeredOnce` a new peering
  matches none in memory and only memory is saved.  For `ImageHasOs` memory
  satisfies more (`ImagesHaveStubs`: also images with a blank source), which
  the file then inherits.  `HostAddressOnly` is a fact about the draw for each
  kind of CIDR; `DrawIsExact` adds that the draw reaches every one, but the last
  of a /0, and none of a /31.  `NoneHidden`, `HostsNotShared` and `InventoryComplete` follow
  from the types and from what the readers return; they are stated over every
  reachable state because rows may change between any two calls, and over all
  that libvirt may show at each entry.  For `HostsNotShared`, a linked host is one
  of those seen and has the MAC it was looked up by (`LinkCarries`).
* **Progress.**  Liveness itself is out of the prover's reach; what is proved
  is the part of it that is safety.  `SomebodyCanGo` (`ForgeServer`,
  `ImageCache`): as long as somebody has something to do, somebody can.
  `CallsGoForward`, `JobsGoForward`: a step takes whoever makes it nearer to the
  end, on a scale with an end, whatever fails and whoever else moves.  What
  they leave to fairness is that whoever can go does.  In `ImageCache` the
  argument needs that a waiter's call is still to end or over (`Joined`), in
  `ForgeServer` that the holder of the mutex is `handled`, `written` or `saved`
  and waits for nobody.

Only model-checked: the liveness properties `EveryCallAnswered`,
`ShutdownCompletes`, `ReadyOrGone`, `EveryJobEnds` and `ProvisionEnds`, because
fairness and `ENABLED` are out of the prover's reach.  Every invariant, action
property and refinement of a passing run is also proved.

## 5. Not modelled

* Requests without the fields a handler dereferences: it panics and the process
  dies, which `Crash` covers.
* Power loss (the temp file is not synced before the rename): the crash in the
  models is that of the process.
* The text of the domain XML, and what only tests call in `domain_xml.go`:
  `updateDomainConfigDrive`, `patchDomainConfigDriveXML` and the choice of a
  CD-ROM target.
* The cloud-init seed and the config drive (`cloudinit_seed.go`,
  `configdrive.go`): temp files and external tools, a step of `Provisioning`
  that succeeds or fails.  A crash in it leaves a temp copy that no start
  removes; nobody reads it.
* The libvirt connection, the temp directory and the power filter's own calls:
  a failure of a step, or the argument `seen` of the linked list.
* Domain states one by one: suspended, shutting down and the others that are
  neither running nor off are one, `paused`.  A domain that somebody but the
  server starts.
* An expected machine that the YAML lists twice under one id, which `config.go`
  does not check: the linked list would have it twice.
* Reading the YAML inventory and the command line: no state; their outcome is
  constants (`InventoryMachines`, `Seed`, `SeedLink`).
* Names, metadata, status counters, SKUs, filtered reads other than the linked
  list (`FindMachinesByIds` completes a machine's discovery info, which nothing
  else reads), and `InvokeInstancePower` and `SetMaintenance`, which change
  nothing.
* Random MACs and uuids that collide; two instances may draw one address, which
  the code does not prevent and the models allow.
* The encodings: protobuf JSON, JWT, JWK, SHA-256.
* The Helm chart and the scripts.

## 6. Plan

1. (done) `DurableState`, `ForgeServer`, `ImageCache`, `Provisioning`,
   `Identity`, with their runs and first proofs.
2. (done) `Networks`, `OsCatalog`, `ExpectedHosts`, `TenantTables` under
   `SiteTables`, `DomainXml` in `Provisioning`; proofs of every safety property the runs check.
3. (done) `SharedDownload` and `MachineService` with their refinements; one
   disk for the life of a machine; the safety halves of the liveness properties.
4. (done) Paused domains and guests in `Provisioning` and `MachineService`, the
   second delete of a release, rows without an id, hosts with several
   interfaces, and the proofs again.
5. Next: an abstract specification for `Identity`; `rootVolumeCapacity` against
   a reference definition; the machine reads with their filters as one more
   reader in `ExpectedHosts`.  A weaker condition than `CallersWait` was looked
   for: for `ReleasedIsOff` neither a release that waits for the provision nor an
   allocation that waits for the release is enough by itself.
