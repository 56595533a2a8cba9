# OpsToolkit in TLA+

OpsToolkit is a web application (FastAPI, one process in a container) that runs
an operations team's installation network: PXE and ZTP services through the
host's dnsmasq, ISO images and offline repositories, network configuration of
installed nodes and devices, inspections and alerts. The protocols worth a model
are those in which the container and something it does not control (the host's
systemd, a browser, a mirror, a target machine, another process) take turns on
shared files and records.

This directory holds TLA+ models of those protocols, the TLC configurations that
check them and machine-checked proofs about them.

## Inventory

| Component | State it keeps | Operations | Talks to | What makes it hard | What makes it correct |
|---|---|---|---|---|---|
| Host dnsmasq reloader (`deploy/host/opstk-dnsmasq-reload.*`) | two state markers, `.dnsmasq-applied`, the version marker | one script run per edge: sample, test, restart, re-check, publish, record | reads the two files the deploys write; dnsmasq; systemd | edges lost while it runs, files that change under it, restarts that fail or are slow | an OK marker names the text dnsmasq has read; a bad text never stops dnsmasq |
| Configuration deploy (`it/pxe/server.py`, `ct/ztp/server.py`, `core/dhcp.py`, `core/filestore.py`) | the two files of `/etc/dnsmasq.d`, snapshots | preflight, probe, write, wait with rewrites, verify, roll back, undo | the reloader, through files only | two slots with two locks, one verdict for both; timeouts; failing writes | success means "this text is in force", failure "nothing has changed" |
| ISO transfers (`it/pxe/transfers.py`) | registry in memory, `.part` and `.iso` files | upload (init, chunk, finish), fetch with resume, cancel, sweep | browser, mirror, threads of the same process | event loop and threads, files removed by name, restart | one transfer at a time, nothing but whole images under the final name, the slot always comes back |
| Offline repository sync (`it/pxe/repo_sync.py`, `deploy/host/opstk-repo-sync.*`) | request, status, result files | request, run, report, remove request | level triggered path unit | a request while a run is under way | every request is run or reported, and the status is that of the request |
| Alert notification (`core/notify/*`, `core/oncall.py`) | `notifications` rows, on-call and token caches | deduplicate, look up, send with retries, record | on-call platform, Feishu | many coroutines between awaits | one message per window, no trigger uncounted, never an exception |
| Keys and tokens (`core/crypto.py`, `core/serve_token.py`) | `.env`, settings in memory, cached cipher | ensure a key, set a token | other processes through `.env.lock` | two processes starting at once, a crash in the rewrite | one key for all, no line lost |
| Inspection (`ct/inspection/service.py`, `api/inspection.py`) | tasks, results, output log | run in background, recover, stream events | devices (threads), alerts, WebSocket | restart, cancellation, partial results | a task ends in done or failed, with its results |
| Node plans (`api/nodeplan.py`, `it/nodeplan/*`) | plans, `change_id`, files on the target | apply (one-shot timer), sync, device push | target machines over SSH | lost answers, two changes pending, roll back on the target | the recorded state is the target's |
| Install records (`api/pxe.py`) | installs, `last-deploy.json` | finish, done callback, reset, automatic redeploy | deploy | state committed before the redeploy; unlocked read-modify-write | an installed machine is not offered an installation |
| ZTP positions (`api/ztp.py`, `ct/ztp/positions.py`) | positions with three unique keys | create, import, claim | leases of dnsmasq | check-then-insert | one owner per MAC and address, no silent change of owner |
| Setup wizard (`core/setup.py`) | `app_meta` markers | record, complete, freshness | database | racing first writers, half migrated databases | never shown on a used system, never skipped on a new one |
| Database start-up (`database.py`) | schema, seed rows | additive columns and indexes | SQLite | old databases, restart in between | idempotent |
| Disk part of a profile (`core/schemas.py`, `it/pxe/generator.py`) | a form, files, a machine's disks | save, make files, boot, pick disks, clear, format | installers of four families | two layers of rules; disks listed in any order; several declarations at once | a disk to keep is kept, nothing asked for is dropped |
| Network configuration (`core/schemas.py`, `it/netconfig/generator.py`) | a request, files or a script, NetworkManager's profiles | check, make netplan, ifcfg or nmcli, run, run again | the machine's network stack | three formats of one request; a script that is cut, or fails in places | what is asked for and nothing else; exit 0 means up |
| Plans, pools, red line (`it/pxe/ip_plan.py`, `it/netconfig/conflicts.py`, `core/dhcp.py`) | none | parse rows, intervals of addresses | – | boundaries of ranges | no address twice, no DHCP on a protected network |
| Other generators, parsers, ISO reader, repository verification, frontend, packaging | none or plain files | text and binary formats | – | – | not state machines; left out |

## Modules

| Module | Models |
|---|---|
| `HostReload` | the script, the path unit's edges, dnsmasq as far as the script sees it; offers the file operations the containers use |
| `Deploy` | EXTENDS `HostReload`: the deployers of the two slots, and the properties of the composition |
| `DeployPromise` | what a deploy promises the operator, without files, markers or scripts; `Deploy` implements it by `INSTANCE ... WITH` |
| `DeployProofs` | theorems about `Deploy` |
| `MCDeploy` | instances of `Deploy` for TLC |
| `IsoTransfer` | uploads and fetches of ISO images |
| `IsoTransferProofs` | theorems about `IsoTransfer` |
| `MCIsoTransfer` | instances of `IsoTransfer` for TLC |
| `RepoSync` | requests for a sync of an offline repository: `start_sync`, `sync_status`, the path unit and the script |
| `Inspection` | inspection tasks, their branches, events and clients |
| `JobsProofs` | theorems about `RepoSync` and `Inspection` |
| `MCJobs` | `RepoSync` and `Inspection` for TLC |
| `AlertNotify` | alerts that are deduplicated, addressed, sent and recorded |
| `EnvKeys` | secrets in `.env`, generated and rewritten by several processes |
| `ServicesProofs` | theorems about `AlertNotify` and `EnvKeys` |
| `MCServices` | `AlertNotify`, `EnvKeys` and `Installs` for TLC |
| `NodePlans` | the register of node plans, by hand and by file |
| `ZtpPositions` | the register of ZTP positions, by hand, by file and by claims |
| `RegistersProofs` | theorems about `NodePlans` and `ZtpPositions` |
| `MCRegisters` | `NodePlans` and `ZtpPositions` for TLC |
| `NodeApply` | one plan that is applied to its machine and synced |
| `NodeApplyProofs` | theorems about `NodeApply` |
| `MCNodeApply` | instances of `NodeApply` for TLC |
| `Installs` | install records, deployments of several profiles, automatic redeployments |
| `InstallsProofs` | theorems about `Installs` |
| `DiskForm` | the disk part of a profile and the rules of both layers, as operators |
| `DiskPlan` | EXTENDS `DiskForm`: a form on its way to the disks of a machine |
| `NetConfig` | a network request on its way to a machine |
| `FormsProofs` | theorems about `DiskPlan` and `NetConfig` |
| `MCDiskPlan`, `MCNetConfig`, `MCForms` | forms, machines and requests for TLC |

Four MC modules put components together that share nothing (`MCJobs`,
`MCServices`, `MCRegisters`, `MCForms`): a behaviour picks its part at the
beginning and the others stand still, so that the states are those of the parts side
by side, never their product.

`map` in `PROJECT.json` gives the source lines of every definition.

### The reload handshake: HostReload and Deploy

The container cannot command the host's systemd. It writes
`/etc/dnsmasq.d/opstk-{pxe,ztp}.conf` in place; a path unit starts the script;
the script tests the whole directory, restarts dnsmasq if a file differs from
what it recorded, and answers with a marker per slot that carries the sha of the
text in force. A deploy succeeds when it reads an OK with its own sha that is not
older than the deploy.

| Variable | Code |
|---|---|
| `conf` | the two files; a text stands for its sha256, `Absent` for a missing file (`-` in the script) |
| `daemon` | `systemctl is-active dnsmasq`, and the texts it read when it was started |
| `marker` | the two state files: status, sha, reason and the two outcomes of the time comparison |
| `applied`, `link`, `pending`, `run`, `sampled` | `.dnsmasq-applied`, the version marker, systemd's queued start, the script's position and variables |
| `pc`, `want`, `prev`, `nudges`, `held`, `result` | a deploy's position, text, snapshot, rewrites, bytes not yet written after the truncation, report |
| `vetted`, `restarted` | history variables for the properties; no action reads them |

One action of `HostReload!Script` is one command of the script; one action of
`DeployerStep` is one step of `_deploy_files_impl` or of a function of
`core/dhcp.py` that it calls. `Begin` to the end is the critical section of the
slot's `_DEPLOY_LOCK`; PXE and ZTP have a lock each, so that the constant
`Hazards` says whether they overlap (`"overlap"`).

Choices:

* Time. The code compares whole seconds. A marker carries `recent` (it may have
  been written in the current second) and `fresh` (it is not older than the
  deployer's `not_before`); `Tick` ends a second.
* Edges. `PutConf` queues a start unless the service is running: a path unit
  does not remember an event for a running service. `DropConf` may or may not.
* `Hazards` lists what the environment does beyond the protocol: overlapping
  deploys, a host so slow that waits expire, readers between truncation and
  write, a dnsmasq that needs more than 5 s, restarts that fail, restarts by
  others, failing writes. A wait can only expire on a host at rest unless
  `"slow"` is in it.
* `MaxNudges` bounds the rewrites of one wait; in the code the deadline does.
* Where writing fails (`"writefails"`), the rewrites of the probe and of the wait fail as
  well as the write of the deploy, with the file as it was or truncated (`RewriteFails`).
* The two markers are written in one step: no deployer reads the other slot's.
* Left out: the ERR trap, the lock timeout and a sha that cannot be computed
  (each ends in `fail` with a reason of its own, which the deployer treats like
  any failure that is not known to precede the restart), the DHCP red line
  checks, the menus and answer files (one step that works or fails), hosts
  without a container and the `sudo tee` path, an invalidation that fails.

### ISO transfers: IsoTransfer

`upload_init`, `start_fetch`, `_fetch_worker` and `cancel_transfer` run on the
event loop, each atomically from one await to the next. Chunk and finish requests
and the fetch's writes run in threads, so that they are split at every lock and
every file operation. Files are removed and renamed by name: `handle` says what
an open file has become by the time its owner writes to it.

| Variable | Code |
|---|---|
| `state`, `about`, `received` | the `_Transfer` records |
| `part`, `iso` | `.<name>.part` and `<name>`, as sequences of chunks |
| `call` | `upload_chunk` and `upload_finish` requests under way |
| `worker`, `job` | `_fetch_worker` and its `_append_chunk` in a thread |
| `sweeping` | the sweeper between settling an upload and removing its part |
| `publisher`, `restarted` | history |

Choices:

* All transfers are for one file name; transfers of two names share only the slot.
* Whether the length of a transfer is known (`about[t].sized`) is a choice: an upload
  declares its size, a mirror may send headers without one. Where it is not known, the
  end of the stream is the end of the file (`FetchCompletes`), also of a stream that was
  cut; with a size the client notices the cut (`FetchBreaks`), and a sha256 that is given
  does not match. `PublishedIntact` says for each of these what the published file is.
* An image is `Blocks` chunks. A failed write leaves a torn piece (index 0);
  torn pieces never add up to whole chunks. `MaxTorn` bounds them, `MaxTransfers`
  the transfers of a behaviour.
* The checks of state and offset at the beginning of `upload_chunk` are one step.
* `Allowed` lists the meetings a patient operator and an orderly browser do not
  bring about: two requests of one upload together (`twin`), a finish before all
  chunks are acknowledged (`early`), a cancel or sweep while a write is under way
  (`rush`), a transfer begun while a cancelled fetch still waits for its mirror
  (`probing`) or while anything else of an earlier one still runs (`overlap`).
  The frontend sends chunks one after the other; the API does not require it.
* Admission by disk space is the nondeterminism of `ProbeFails` and `FetchBreaks`.

### Repository sync: RepoSync

The container writes `request.json`; a path unit of the host (`PathExists`) runs
the script, which writes `status.json` and `result.json` and removes the request
by name. Unlike the reload's edges the unit is level triggered: a run that ends,
however it ends, is followed by another one while the file is there.

| Variable | Code |
|---|---|
| `request`, `status`, `result` | the three files; `Blank` is a file that was created and is not yet written |
| `platform`, `current` | the file operation at which `start_sync` or `sync_status` stands, the id `start_sync` was last given |
| `linked` | whether the file `start_sync` has open is still `request.json` |
| `seen` | what `sync_status` has read since the last `start_sync` |
| `script` | the run's position, the id it has read, its outcome |
| `kills` | killed runs, at most `MaxKills` |
| `asked`, `answered` | history |

Choices:

* `start_sync` and `sync_status` are plain functions called by `async` handlers:
  on the event loop they do not meet each other. The script meets them between
  any two of their file operations.
* A report that the script is just writing may read as none (`_read_json`).
* `Allowed` lists what a patient operator on a slow host does not bring about: a
  request while the last one is still there (`busy`; the web interface and the
  API permit it), a script that reads the request between its creation and its
  writing (`glimpse`), and a disk that is full as a report is written (`full`): the
  script runs without `-e`, the file is left truncated, and it goes on.
* Left out: the parameters of a request, the log file, the check that the file is
  still there at the start of a run, and the script's lock (systemd runs one
  instance of the service; the lock is for a run by hand).

### Inspections: Inspection

`run_task_in_background` fans one branch out per device under a semaphore,
judges the results, schedules alerts, and stores everything in one commit. A
websocket may watch, or `POST /tasks` starts the task without one.

| Variable | Code |
|---|---|
| `device` | what an inspection of each asset comes to: `inspect_one`'s returns and what it raises |
| `row`, `stored` | `inspection_tasks.status`, `inspection_results` |
| `job`, `branch`, `ended`, `taken` | the coroutine's place, `_run` of each device, and how far `inspect_many` has awaited them |
| `client`, `queue`, `told` | the websocket, its event queue, what it was sent |
| `alerted` | assets an alert was scheduled for |
| `faults`, `unmarked` | failing commits and restarts, at most `MaxFaults`; tasks whose failure could not be written down |

Choices: the semaphore is that of one `inspect_many` call, as in the code. What
the checks compute is part of `device`. `EarlyLeave` says whether a client may
be gone before it is greeted.

### Alerts: AlertNotify

One coroutine per trigger, started and not awaited; they meet at every await.

| Variable | Code |
|---|---|
| `rows` | the table `notifications` |
| `cache` | `oncall._cache` of the configured team |
| `alert` | each coroutine: its place, the start of its window, the row it merges into, when it asked the platform |
| `now`, `duty` | time in coarse units, and who was on duty at each |
| `suppressed`, `met` | history |

Choices: times are compared as the code compares them, in units in which
`Window`, `TTL` and `Timeout` are 1. An answer of the platform is of some moment
between the asking and its arrival. The Feishu token is part of an attempt.

### Secrets: EnvKeys

| Variable | Code |
|---|---|
| `file` | the lines of `.env`, by key |
| `lock` | the holder of `.env.lock`, the lock between processes |
| `proc`, `settings`, `fernet` | each process: its place, `settings`, the cached cipher |
| `made`, `crashes` | values generated so far, ended processes (`MaxValue`, `MaxCrashes`) |
| `used`, `wanted` | history |

The rewrite is three steps: read, truncate, write. A process may end before,
between and after them; `TornWrites` says whether also between the last two.

### Node plans: NodePlans and NodeApply

`NodePlans` is the register: settings, plans with their interfaces, jobs. Every
handler reads and checks (`Begin...`, `Check`), and writes later in one
transaction; SQLite lets one writer in at a time and the unique indexes decide.
`req` holds what a handler read, `met` the plans two handlers at a time were
about. A machine stands for its MAC and its install record too; `Unlabelled`
machines share one serial, `Bare` ones have none.

`NodeApply` is one plan and its machine. `apply_plan` renders, reads the
interfaces a second time for what to expect, starts a one-shot timer over SSH and
commits; 90 seconds later `run.sh` backs up, writes, applies, checks and keeps or
rolls back; `sync_plan` fetches the result. A switch is configured in one session.

| Variable | Code |
|---|---|
| `plan`, `req` | the row (what it asks for, status, `change_id`), the handlers' locals |
| `change`, `timers` | `/var/lib/opstk/netconfig/<change_id>` with the script of each change, the timers in the order of their starting |
| `disk`, `live` | the configuration the machine starts with, and the one it runs |
| `faults`, `edits` | restarts, lost replies, failing commits and failing copies; updates of the plan |
| `good`, `clean`, `met` | history: the last checked configuration; whether no change since then has met another, died half way or failed to copy; whether requests overlapped |
| `before`, `alone`, `slipped` of a change | history: what was on the disk when it began, whether another one's script met it, whether one of its copies failed |

Choices:

* A configuration is a value, `Mixed` one of which only a part arrived.
* `netplan`'s rollback restores the whole directory; `ifcfg`'s the files that were
  there before; `nmcli`'s nothing.
* The scripts drop the errors of `cp` (`|| true`, `apply.py` 121-122, 139-140). Where a
  copy fails, the backup, the configuration or what is restored may be in part there or
  not at all, and the script goes on (`FireSlips`, `RollbackSlips`).
* A switch's verification and the machine's own check compare whole configurations;
  what the real ones look at is under "limits" below.

### ZTP positions: ZtpPositions

The positions of one template: `rows` with the three unique keys, `handler` with
what each request read. An import reads, plans the final state, checks it, and
writes it through placeholders; `replace` deletes first. The reads of a handler
are one step (two SELECTs of an import included) and its writes another: a commit is
compared with the unique indexes as a whole. The code writes placeholders first
(`ztp.py` 453-465) since SQLite checks the indexes line by line; that this pass is
itself free of clashes is not modelled. `outdated` marks
rows written on the strength of a reading that was no longer true.

### Install records: Installs

dnsmasq has one file for all profiles, so each deployment writes it whole: its
own profile's records and those of the profiles in `last-deploy.json`.

| Variable | Code |
|---|---|
| `profiles`, `installs` | `pxe_profiles`, `pxe_installs` |
| `sealed` | profiles whose passwords cannot be decrypted |
| `deployed` | the keys of `last-deploy.json` |
| `web`, `conf` | what the web server hands to each machine, and `opstk-pxe.conf` with the flat menu |
| `req`, `begun` | handlers: operator's deployments, finish/done, reset, and the automatic redeployments after those |
| `mishaps` | deletions, lost keys, failed writes, at most `MaxMishaps` together |
| `listed`, `current`, `clean` | history |

Choices: how a deployment writes and reloads is `Deploy`; here it succeeds, is
undone or is refused. The reads of one generation are one step. The machine's own
netboot and callback are part of `Finish`.

Deployments of any profiles may overlap: generating reads the records, and the files are
written later. A handler is `sound` as long as what it has read holds: no other handler
has set the state of a record since (`Relying`), or saved a deployment that lists new
ones (`Unpublished`). Writing what is not sound makes `clean` false until something sound
is written, and so does saving a deployment that another one has overwritten (`Unsaved`).
The properties are about `clean` configurations, however many deployments overlap;
`SparedAsTold` is without that condition, as the program tells its operator.

### Disks: DiskForm and DiskPlan

A form passes the schema when it is saved (`Saves`) and the generator when files
are made (`Makes`); each rule of either is an operator of its own. A row an older
version stored reaches the second layer alone (`Inherit`). A machine then boots
the files: names are handed out in any order, `PickRhel`, `PickUbuntu`,
`PickDebian` and `PickOpensuse` follow the shell, awk and matchers written for
each family, `Write` clears and formats. `touched` is history. A disk name stands
for its place in the order of names, a size for gigabytes with the tolerance of
the awk function. A disk is inside, in a USB case (`TRAN=usb`) or a stick (`RM=1` as
well): some lists leave out both, some the stick alone (`Fixed`, `Lasting`). Debian's
by-path link may be missing: then serial and model decide, or nothing is installed.

### Networks: NetConfig

A configuration is a set of facts `<<what, device, value>>`, so that the three
formats can be compared with the request and each other. A gateway is the number
of leading bits it shares with its device's address. For nmcli the script itself
runs line by line against `profiles` and `active`, is cut (or one of its `add` and `modify`
fails, which `set -e` makes the same), corrected and run again. The machine begins
without a connection of the script's names (`NetInit`): what it had under such a name is
treated by the script like a connection of an earlier run, of which corrections are the
instance.

## Runs

| Run | Question | Instance |
|---|---|---|
| `deploy_calm` | Does the handshake keep its promises, and implement `DeployPromise`, when everybody does their part? | `Hazards = {}`, PXE deploys of a, b and a rejected text, ZTP deploys of b and a rejected text, ZTP file absent at boot, one rewrite per wait, fairness |
| `deploy_rough` | Can a success rest on an old verdict? | PXE deploys of b, a slow host, slow starts, failing and foreign restarts, torn reads, failing writes and rewrites, files removed by an operator, one rewrite per wait |
| `iso_orderly` | Is what is published whole, is nothing left behind or lost, is a verdict final, is the slot given back? | three transfers, two chunks, one request at a time, one restart, mirrors with and without a length, `Allowed = {}`, fairness |
| `iso_v_half` | Is half an image ever called an image? (yes) | two transfers, `Allowed = {}` |
| `iso_v_twin` | May two requests for one chunk spoil the image? (yes) | `Allowed = {"twin"}` |
| `jobs` | Is every sync request run to an answer and shown truly? Does every inspection end, with its results whole? | three requests, each after the last is gone, two killed runs; or one task on two devices of every kind, one at a time, two failing commits or restarts, `EarlyLeave = FALSE`; fairness |
| `services` | Are triggers counted and told, and whoever is mentioned on duty? Is there one key, and no line lost? Is no finished machine installed again, and no other profile's machine forgotten? | three alerts of one event, three moments, two persons, two attempts, one fault; or two processes, three values, two that end, `TornWrites = FALSE`; or two profiles, three machines, two records, two handlers at a time and three in all, one mishap |
| `registers` | Does a machine have one plan and a position one device, changed openly only? | two requests at a time on two plans of two machines, one without a serial; or on every register of two positions among three places, addresses and two devices, with files of two lines |
| `node_apply` | Does the machine end with a checked configuration, or the one before, does the plan say so, and does every change end? | two requests, two configurations, one edit, two faults, netplan and switches, fairness |
| `node_v_nmcli` | Does a rollback bring back what was there with nmcli? (no) | as `node_apply`, for nmcli |
| `forms` | Do disk forms and network requests become what they ask for? | 17 000 disk forms of four families, three machines with three disks (one of them inside, in a USB case, or a stick), two boots; 17 000 requests in three formats, one of them with a connection name twice, two runs and one cut of each script, corrections of addresses, modes and bond options |
| `disk_v_untouched` | Is a data disk that is not to be wiped never cleared? (no) | RHEL, the same forms |

Why the bounds are enough. Deploy: two accepted texts and a rejected one are what the
script's decisions distinguish (same as applied, other, refused), the empty text is the
truncated file; deploys go on for ever, so that sequences of any length are covered.
With one rewrite per wait both a lost edge and its repair occur. IsoTransfer: two chunks
distinguish the first write of a fetch from an append, and the middle of a file from its
end; the three transfers are one that leaves something, one that meets it and one after
the restart. What happens when requests of a transfer, or deploys of the two slots, meet
is covered by the proofs, which are for any `Allowed` and any `Hazards`. RepoSync: three
requests are one that leaves reports, one that replaces them and one more after a killed
run. Inspection: two devices under a semaphore of one have one branch wait for the
other; two faults are a commit that fails and then its own error path, or a restart
after either. Alerts: of three, two meet and one comes after. Keys: three values are the
two keys and a token, or a token set twice. NodeApply: two requests are two applies, or
an apply and its sync, with an edit before, between or after, and two faults are a
failing copy and a restart, or a copy that fails in the backup and again in the
restoring. Registers: two requests are what a check and a write can be torn apart by;
two lines are a swap. Installs: two profiles make one merge the other, and three
handlers are a deployment of each and a callback, with its redeployment, before, after,
or overlapping it (more of them are covered by the proofs). Forms: one element of every
equivalence class the rules distinguish, and every combination of them within a form.

Deadlock checking is on for Deploy; it is off where a model really stops: when
transfers, requests, handlers, alerts or time are used up, or a form is at its end.
Symmetry is used where every value is interchangeable and no liveness is checked
(alerts, persons, processes, machines and handlers in `services`, interfaces in
`registers`); in `node_apply` a plan asks for the first of its configurations first.
`registers` does not explore what follows a job, which changes nothing that a handler of
the register reads.

### Fairness

Deploy (`FairSpec`): the script runs to its end, a starting dnsmasq becomes
active, the thread of a deploy is scheduled (weak fairness of each). The service
has no start limit (`StartLimitIntervalSec=0`) and no loop without a bound.
Nobody has to begin a deploy, edit a file or restart dnsmasq. IsoTransfer: threads
and the loop run and a mirror answers, breaks off or times out (weak fairness);
the sweeper comes round, strongly fair, because the time it looks at is not
changed by requests that fail, while whether an upload has a request under way
may alternate. RepoSync: a handler that has begun runs to its end (the event loop)
and the script goes on (weak fairness of each; a sync ends, or is killed by
`TimeoutStartSec`). Inspection: the loop runs every coroutine that can run, and
devices are waited for with a timeout (`connect`'s and the reads'). NodeApply:
handlers and scripts that can go on do; a timer's script is started by systemd.
Nobody has to ask for anything, and nothing of the environment (restarts, losses,
clients that leave) is fair.

## What the violation runs show

Each is a disagreement between the code and a sentence in it, quoted in
`PROJECT.json`.

* `iso_v_half`: a stream without a Content-Length that ends early is a file like any
  other; without a sha256 only its first chunk is looked at, and it is published.
* `iso_v_twin`: check, write and count of a chunk are three sections.
* `node_v_nmcli`: the rollback applies the new configuration again.
* `disk_v_untouched`: the list the target is taken from has no sizes.

## Other disagreements and limits

Met while modelling; the instance that shows it is given where there is one: a
constant to set, or a property that is stated in its module and does not hold.

Deploy
* `Hazards = {"slowstart"}` violates `MarkerTruth`: the applied record is written
  only by a run that ends well, so a run that has restarted dnsmasq and then fails
  leaves a record that is no longer true, and the shortcut of line 120 trusts it.
* `Hazards = {"overlap"}` with PXE deploys of a and a rejected text and ZTP deploys
  of b violates `RollbackSafe` (the reason in the last FAIL marker says what the
  last run did, `dhcp.py` 428) and `StaysUp` (test and restart read the directory
  twice).

IsoTransfer, RepoSync
* A fetch that resumes the part of an earlier life of the program may publish what that
  left in it, unless a sha256 is given; `PublishedIntact` says so.
* `Allowed = {"probing"}` violates `AcknowledgedKept`: a fetch cancelled before it
  has a task gets its task later.
* `Allowed = {"busy"}` violates `OnlyAnsweredRemoved`: the script removes whatever
  is called `request.json` when it ends. With `glimpse` a script reads the request
  between its creation and its writing, and calls it bad.
* `Allowed = {"full"}` violates `OnlyAnsweredRemoved`: on a full disk, which
  `opstk-repo-sync.service` 12-13 names among the failures to be reported, the script
  (`set -u` without `-e`) cannot write the result, goes on, and removes the request
  (line 93): it is not answered and not asked for again.

Inspection, alerts, keys
* `EarlyLeave = TRUE` violates `Settles`: greeting a client that is gone leaves its
  task running until the next start.
* A credential that cannot be decrypted raises outside of `inspect_one`'s `try` and
  fails the whole task. A missing asset sends no event.
* Two alerts of one event that meet are both sent; `QuietAndComplete` is about
  those that do not. Two rules on one metric of one device always do.
* `TornWrites = TRUE` violates `NothingLost`: `.env` is rewritten in place.

Node plans
* An apply whose reply is lost answers 502, nothing was changed, though the timer
  may run. A machine that restarts in the middle of a change keeps a
  configuration nobody checked, and its plan says applying for ever.
* A sync that overlaps an apply writes the older verdict over the newer status.
* A change whose copies fail may leave half a configuration on the disk and report
  its rolling back all the same (`apply.py` 121-122, 139-140).
* A switch's verification reads the first 40 lines. The check on the machine looks
  at plain interfaces' addresses and the gateway only.
* ifcfg: a rollback leaves files that were not there before.
* `Unlabelled = {m1, m2}` violates `InterfacesAsSent`: a file's rows are grouped by their
  serial also where it is not trusted (`nodeplan.py` 830-840), so that the plan of the
  first machine gets the interfaces of both, contrary to `csvimport.py` 12.
* The unique index refuses a second plan with a serial that is not trusted. A plan's
  MAC has no unique index.
* An update that keeps the name of an interface meets the unique index and answers
  500; two overlapping updates leave the union of both; an import line for a plan
  deleted meanwhile is counted as created and lost.

ZTP positions
* `EmptyCellKeepsClaim` (`ztp.py` 476) and `NothingUsableNothingRemoved` (378-381)
  are stated in the module and do not hold: a line with a new address and an empty
  MAC clears the claim, and a file sent to replace the register, all of whose lines
  have a MAC that cannot be read, empties it.
* Two claims of one position at a time change its device silently. Conflicts found
  by the indexes in an import answer 500, not 409.

Install records
* `SparedAsTold`, what a finish is answered (`pxe.py` 1352), does not hold: a deployment
  of another profile generates (1245) before a record is set and writes (1250) after the
  redeployment, and offers the finished machine again; nobody deploys after that. A
  callback that arrives before the first deployment has saved `last-deploy.json`
  leaves its machine on offer as well; so do two redeployments that publish in the other
  order, since a session does not read rows again (`database.py` 13). Each writes what
  was outdated when it was written: `clean` leaves these deployments out and no others.
* A merge uses rows that were added after their profile's last deployment: menus
  that are not there. A record deleted and made again, or a reset whose redeployment
  failed, gives an answer file with an old callback, or none.
* Deleting a record or a profile deploys nothing. One profile that cannot be
  decrypted takes the whole merge out. A write of `last-deploy.json` that fails
  loses the reservations of its profile at the next deployment of another.

Disks
* Debian with a custom layout takes the largest disk and leaves no data disk out;
  its `wipe_disks` are cleared even when there is no target. Debian's and
  openSUSE's files hold no partitions, arrays or data mounts; openSUSE always takes
  `/dev/sda`.
* The mount point of a member of an array, even `/`, is dropped; `wipe = false`
  counts only on RHEL and in Ubuntu's custom layout; sizes are compared with a
  tolerance by which `300G` misses a disk of exactly 300 GB.
* `FoundLate` lists the forms that are saved and refused when files are made.

Networks
* A prefix of 0 is one for the schema and none for the generators. ifcfg turns bond
  mode 0 into active-backup, leaves IPv6 addresses of bonds, VLANs and bridges out,
  and loses the master of a port that is itself a bond or VLAN.
* netplan writes a default route for a device without an address, which
  `_has_default_route` does not count; bridges and bonds without an address ask
  DHCP in nmcli and ifcfg and have none in netplan; a static device with IPv6
  alone gets IPv4 by DHCP.
* An interface may be named like the connection of a port: `b1-slave-e2` fits
  `_IFNAME_PATTERN` (`schemas.py` 57) and is what `_bond` calls the connection of
  port e2 of b1 (402). `_idem_add` then skips the second `add`, e2 never gets its
  master and the script goes on. `forms` has this request; `AddSkipped` names what is lost
  by it, and `ExactlyWhatIsAsked` holds for the rest of the request.
* A port's `nmcli connection up` is not guarded, so that `set -e` ends the script
  there, contrary to 354-360. A ring through a VLAN is not found.
* `RerunOverwrites` (`generator.py` 347, 483) does not hold: the options of a bond are in
  its `add` (398-400), which a second run skips, so that a corrected mode or primary is
  never set though the script ends with 0 (`AddSkipped`). A corrected request also
  leaves the gateway, DNS, routes and IPv6 method of the first where it does not set
  them itself (`LeftBehind`).
* A connection of one of the script's names that was on the machine before the first run
  keeps what it was made with. `NetInit` leaves it out.

## Proofs

Each theorem is for every value of the constants that the module's `ASSUME` admits,
and holds under a further condition only where one is given. The assumptions say
that bounds are natural numbers, that the values standing for "nothing" are none
of the others, and that alerts, assets and requests are finitely many; TLC
evaluates them on the runs. Nearly every invariant below was checked by TLC on
the run's instance before it was proved.

| Module | Theorem | Statement | Condition |
|---|---|---|---|
| `DeployProofs` | `TypeCorrect` | `Spec => []TypeOK` | |
| | `SuccessIsVetted` | `Spec => []SuccessVetted` | |
| | `MarkersAreTrue` | `Spec => []MarkerTruth` | `Calm` |
| | `RollbacksAreSafe` | `Spec => []RollbackSafe` | `Calm` |
| | `DnsmasqStaysUp` | `Spec => []StaysUp` | `Calm` |
| | `PromiseKept` | `Spec => PromiseSpec` (refinement) | `Calm` |
| `IsoTransferProofs` | `TypeCorrect` | `Spec => []TypeOK` | |
| | `VerdictIsFinal` | `Spec => VerdictFinal` | |
| | `PublishedIsDone` | `Spec => []OnlyDoneIsPublished` | |
| | `PublishedIsIntact` | `Spec => []PublishedIntact` | `Allowed = {}` |
| | `NothingIsLeft` | `Spec => []NoLeftover` | `Allowed = {}` |
| | `AcknowledgedIsKept` | `Spec => []AcknowledgedKept` | `Allowed = {}` |
| `JobsProofs` | `RequestsAreAnswered` | `Spec => OnlyAnsweredRemoved` | `Allowed = {}` |
| | `NoOldAnswerShown` | `Spec => []NoOldAnswer` | `Allowed \subseteq {"full"}` |
| | `AnswersAreWhole` | `Spec => []ShownTruly` | `Allowed = {}` |
| | `TasksTypeCorrect` | `TaskSpec => []TaskTypeOK` | |
| | `ResultsAreWhole` | `TaskSpec => []ResultsWhole` | |
| | `VerdictsAreFinal` | `TaskSpec => SettledForGood` | |
| `ServicesProofs` | `OneHolder` | `EnvSpec => []EnvTypeOK` | |
| | `KeysAgree` | `EnvSpec => []NothingLost` | `TornWrites = FALSE` |
| | `AlertTypeCorrect` | `Spec => []TypeOK` | |
| | `NobodyOffDuty` | `Spec => []OnDutyRecently` | |
| | `AlertsAreCounted` | `Spec => []CountedAndTold` | |
| `NodeApplyProofs` | `MachineTypeCorrect` | `Spec => []TypeOK` | |
| | `BetweenChanges` | `Spec => []VerifiedOrRestored` | |
| | `ReportsAreTrue` | `Spec => []ReportedIsTrue` | |
| | `BackIsBack` | `Spec => RolledBackIsBack` | `Backend \subseteq {"netplan", "device"}` |
| `RegistersProofs` | `PlansAreUnique` | `Spec => []OnePlanPerMachine` | |
| | `PlansAreWhole` | `Spec => []InterfacesAsSent` | one machine in `Unlabelled` at most |
| | `DevicesAreClaimed` | `ZtpSpec => []DeviceIsClaimed` | |
| | `OwnersStay` | `ZtpSpec => OwnerChangesOpenly` | |
| | `OutcomeDecides` | `ZtpSpec => FinalStateDecides` | |
| `InstallsProofs` | `RecordsTypeCorrect` | `InstallSpec => []InstallTypeOK` | |
| | `DoneIsDone` | `InstallSpec => []NoSecondInstall` | |
| | `MergingKeepsAll` | `InstallSpec => []NobodyIsForgotten` | |
| | `WaitingIsServed` | `InstallSpec => []InstallEndsTheWaiting` | |
| `FormsProofs` | `DisksTypeCorrect` | `Spec => []TypeOK` | |
| | `DisksAreProtected` | `Spec => []ProtectedStay` | |
| | `OrderIsNothing` | `Spec => []OrderMakesNoDifference` | |
| | `FormsAreWhole` | `Spec => []SavedIsMadeWhole` | |
| | `NetTypeCorrect` | `NetSpec => []NetTypeOK` | |
| | `ZeroMeansUp` | `NetSpec => []ExitZeroMeansUp` | |
| | `CheckIsExact` | `NetSpec => []LoadsOrRefused` | |
| | `RoutesWork` | `NetSpec => []DefaultRoutesWork` | |
| | `ConfigurationsAreExact` | `NetSpec => []ExactlyWhatIsAsked` | |

The conditions of the table are needed: the runs that expect a violation, or the
instances under "Other disagreements and limits", refute the statements without them.
Some properties carry a condition of their own; what it leaves out is said beside the
property and in the sections above.

### Deploy

`SuccessVetted` alone is not inductive: the invariant adds that the sha of an OK
marker is in the slot's `vetted` set (the set is emptied together with the marker)
and that a PXE deploy that has read its OK and still verifies the file has its text
in `vetted`. From there `PollOk` and `Verify` are the only steps that report a
success, and `Invalidate`, the only one that empties `vetted`, is a step of a deploy
that has not reported.

`Calm` says: no hazards, no edits by an operator, a host whose configuration passes
its test when the service is installed, and at least one rewrite per wait (without
it an edge that is lost leaves a deploy waiting for nobody). `CalmInv` then ties the
three parties together. Deploys come one at a time (`OneAtATime`), so that one file
at most differs from what dnsmasq has read; what the script has sampled is the file
as it is or what dnsmasq has (`Sampling`), though the deploy may have written in
between; dnsmasq serves the text in force or the new one (`Serving`), and the
markers say which (`Markers`). `Nudged` is what makes a timeout safe: after a rewrite
an edge is pending or a run has begun that samples the new text. The refinement
maps a slot to the text in force, the one served, the one being deployed and the
answer; each step is one of `DeployPromise` or changes none of the four.

### ISO transfers

Whatever meets: `TypeOK` is not inductive. A request names a transfer that exists
and is an upload, a worker belongs to a fetch that is running or cancelled
(`Owners`); a chunk to be written lies in the image (`Bounds`); an open file is
there, under whatever name (`HandleSound`): without them a write could be to no
file, beyond the image or for nobody. Every step that writes an end state goes
through `Settle`, which writes only while the transfer runs, and `Rename` happens
only in a step that settles a running transfer as done.

In orderly use, two layers. `Order` is about who works: everything that is under way
works for one transfer (`Single`), who has the part open holds it under its own name
(`OpenFiles`), a chunk request is for the next offset of a running upload and a finish
comes after the last one (`Requested`). `Content` is about the part, and needs `Order`
at every step to know whose it is: an upload's part holds the chunks counted, one after
the other, unless a torn chunk of a failed write is among them (`Uploaded`), which the
comparison of sizes then finds (`Measured`); what a fetch has hashed is what the part
holds (`FetchedBy`), from the first chunk on in the program's first life. So where the
length or the hash is known a fetch that completes has all chunks, and otherwise at
least one and in their order; a part belongs to somebody who will rename or remove it
(`Left`).

### Repository sync

The invariant relates the two sides: the request that is there is the last one
asked for; a run is under way only while it is there, and works on its id
(`Current`); the reports are of that id unless `start_sync` is about to clear
them (`Fresh`). `NoOldAnswerShown` follows on a full disk too; the other two theorems
do not hold there. `AnswersAreWhole` adds the order of the two files: the script
writes the result before the status that says it is over, and `sync_status` reads
them the other way round.

### Alerts and keys

`EnvInv`: who is past the lock is its holder and nobody else, so the lines the
holder has read are those of the file, or while the file is empty those it is about
to write (`Kept`); a key is generated only when a fresh reading has none (`Careful`),
and whoever uses a key uses the one of these lines (`Agreed`).

`AlertInv`: the cached answer was true at a moment within its time to live, in
whatever order answers came (`CacheSound`); records are in the order of their times
(`Written`); alerts of an event that never meet are under way one at a time
(`Alone`), and each then merges into the newest message or comes more than a window
later and reports what was merged into it (`Mine`). `EveryTriggerCounted`
compares the number of merged alerts with a sum, which `MergedIn` folds over the
records in an order of the library's choosing. `Total` is that sum; `AnyFirst`
shows, by the least set for which it would fail (`LeastSet`), that any element may be
taken first, so that a merge adds one and a new record nothing (`Tally`).

### Inspections

The parts of the invariant speak of one task each: what its job has behind it at each
step (`Stage`), branches that end once (`Endings`), no more at a time than the
semaphore admits (`Crowd`), rows that come with the verdict (`Rows`), and what a
client has been or will be sent (`Hears`, `Told`).

### Node plans

`NodeApplyProofs`: a backup is what the change found when it began, unless a copy failed
(`Copies`), and nothing overwrites it: with netplan, whose directory is removed before
the backup is copied back, this is `BackIsBack`, whatever other changes meet it. Who is
under way with whom is `Company`: a change that is alone is the only one, and while the
machine is clean there is no other. Of a change that is alone, what is on the disk
follows from where its script is (`Lonely`). What changes leave that meet, die or fail
to copy is still what one of them installed or found, or, where a copy failed, a part of
it (`Suspicious`); it stays accounted for, since such a change remains disturbed for
good (`KeepsTraces`), until one that is alone passes its check (`Accounted`). For the
reports (`Turns`): while requests do not overlap, the changes they leave behind are
started in their order (`InTurn`), so the plan knows the last one (`Known`), and if it
stayed it is on the disk (`Stays`).

`RegistersProofs`, plans: uniqueness is the indexes' doing and needs that two
handlers about one plan have been noted as having met (`Meeting`); that interfaces
are those of one request needs that an update which has met no other still reads
the plan as it is (`ReadIt`), and that a file appends only to plans it has made
itself, for the same machine (`Made`). Positions: a handler that no other has
overtaken knows the register as it is (`Knows`), so its verdict on a device is still
right when it writes.

What an import computes is three folds, over the lines of the file, over what is
planned and over the register, and `FinalStateDecides` compares them with what the
file wants in the end. `FoldExists` shows, by the least step for which it would fail,
that a fold has the value its steps say (the library defines it by a choice), and an
invariant of the steps then gives what the folds compute: of the lines about a place
the last (`ByPlace`, `PlanOf`), and, where what is wanted is consistent, none is
dropped as a clash (`Apart`, `Against`, `NothingClashes`, `PlannedIs`). What
is left to compare is what is wanted with the register (`Taken`), which is the
verdict, because the register's own rows are unique (`IndexesHold`).

### Install records

Deployments overlap in any order, and `Inv` speaks of each that is not outdated. The
state such a handler holds is the state there is (`Sees`), so the configuration it has
generated spares the machines that are done, reserves those of all deployed profiles and
sends the waiting ones to their installer (`Prepared`). What keeps this true while others
are at work is that it only speaks of the records there were when it was generated
(`Filed`): a record made later is none of its, a record whose state is set, or a
deployment that is saved with new records, makes it outdated, and a deletion only takes
from it. So it is still true when it is written, and from then on of what is in force
(`Given`). A deployment that is saved after it wrote lists its records only now: their
reservations are still there if nobody has written since (`Saving`). `OthersKeep` says
once for all actions what a step of one handler leaves true of another.

### Disks

`TypeOK` needs `Progress`: what boots was made from the form, and where the
installer goes on there is a disk for the system. For `ProtectedStay`, whatever an
installer has picked is spared (`Kept`) before it touches anything, family by family:
RHEL's and Ubuntu's rules count or match what Debian's and openSUSE's leave alone.
For `OrderMakesNoDifference`, a form that is determined admits one disk for each
declaration (`Same`), so the order in which the disks are found cannot matter.
`SavedIsMadeWhole` compares two layers of rules, one after the other (`RulesAgree`).
This proof found a form that `FoundLate` did not list and no instance contained: a
system disk to be found by its name, without a name, is saved (`schemas.py`) and
refused when the files are made (`generator.py` 811). Both have it now.

### Networks

A script is put together from pieces by `FlattenSeq`. `FlattenStays` shows by
induction that what holds of every piece, and of two pieces one after the other, holds
of the script; here that each connection is added before any other line of it, and
that some line brings it up (`Framed`). While it runs, what lies behind the line
is there and up, or the failure is noted (`Progressed`).

`CheckIsExact` is about the walk along the masters in `_check_reference_closure`. A
chain has fewer and fewer ports ahead (`LessAhead`), so that `Chain` is defined
(`FollowExists`); a walk that closes has found a ring, and one that enters a ring it
has not seen closes (`FollowFinds`). Over all ports, in whatever order, what has been
seen contains no ring as long as no cycle was found (`Explored`), and in the end
everything has been seen (`CyclesAreRings`). The rest compares the names
that are declared with the keys of the file (`KeysOnce`).

The three formats are compared with the request by way of a middle that none of them
mentions. A device is its place in `Ordered(q)`, not its name: `Sections` says what
stands at which place, and since an accepted request declares each name once
(`DevicesApart`), a name has one place (`PlaceIs`). Of the device at a place, every
format writes `Written(q, i)` and nothing else, apart from the omissions that
`MayBeSet`, `IfcfgLeavesOut` and `AddSkipped` list; `Settled`, `Joined` and `OnlyJoined` say
so of a set of facts. That this is what the request asks for is proved once
(`SettledIsAsked`, `PartMayBe`), and that the set is of this kind once for each
format:

* netplan: by the algebra of the sets that are put together (`NetplanSettles`).
* ifcfg: files are written one after the other and the last of a name is what counts
  (`Lasts`). The files of ports come before those of bonds, VLANs and bridges, which
  is how a port that is itself a bond or VLAN loses its master.
* nmcli: line by line. Whatever is in a profile stands in some line of the script, or of
  the one before the correction; what a line behind the present one modifies is in its
  profile (`Told`), and replaces what was there (`Overwrites`). Every `add` has left its
  facts, unless another line adds a connection of the same name, or the options of its
  bond were corrected (`Added`, with the exceptions of `AddSkipped`). What is left of the
  request before the correction is then routes, bond options and what the one after it
  does not set (`ScriptMayBe`, `LeftBehind`): a correction is of the same devices, so a
  setting that both have is modified again.

For `DefaultRoutesWork` the metric of a device is 100 times the number of routed devices up
to its place, and this number grows from one routed place to the next
(`MetricsRise`); that a gateway is reached from its address is the check of `_check_l3`.

### Only model-checked

* Liveness under fairness: `GoodDeploySucceeds`, `SlotFreed`,
  `EveryRequestAnswered`, `Settles`, `ChangesEnd`. Beyond the proof system.

Every safety property that a passing run checks is stated by a theorem. Where a proof is
about a fold or a recursive function it goes by the least counterexample, a
first-order fact about numbers or finite sets (`LeastNat`, `LeastSet`), since the
library's induction theorems cannot be used.

## Plan

Written: all modules of the table above, with proofs for each of them and no safety
property left to prove. What could follow is breadth: ZTP configurations per vendor
and IP plans as pure functions, compared with what their schemas accept.

## Not modelled

ZTP configurations per vendor, the parts of PXE files that are not about disks,
menus and reservations, parsing of command output, the ISO 9660 reader, repository
verification, plain records, the web interface and packaging: they keep no state
that two actors share. The setup wizard, the schema's start-up, IP plans and pools
and the DHCP red line are short, sequential or pure; `Deploy` and `Installs` take
the red line's verdict as a choice. What a modelled component leaves out is in its
note in `PROJECT.json`.
