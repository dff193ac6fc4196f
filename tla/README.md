# Formal models of libvzctl's cgroup core

This directory holds TLA+ models of `src/lib/cgroup.c`, the cgroup
management core of libvzctl, the TLC configurations that model-check them,
and TLAPS proofs about them. `PROJECT.json` lists the components, runs,
mutants, findings, hazards and theorems. Its `map` ties every definition
that models code to the source lines it translates.

## 1. The system

`cgroup.c` (1254 lines) maps a container id (ctid) to one directory per
cgroup controller and reads and writes the controllers' control files.
Its parts and how they interact:

| Part | Functions (lines) | State it changes |
|---|---|---|
| Mount resolver | `get_mount_path`, `find_cg_ctl`, `cg_get_ctl` (87-165) | `cg_ctl_map[i].mount_path`, a per-process cache guarded by `cg_ctl_map_mtx` |
| Slice name, paths | `cg_get_slice_name`, `get_cgroup_name`, `cg_get_path` (234-280) | a static slice buffer, initialised on first use without the lock |
| Parameter I/O | `do_write_data`, `write_data`, `cg_read`, `cg_set_param`, `cg_get_param`, `cg_set_ul`, `cg_get_ul` (167-356) | control files |
| Tree removal | `rmdir_retry`, `goto_next_dir`, `rm_tree` (368-509) | the container's directory subtree |
| Hierarchy lifecycle | `cg_create`, `cg_destroy`, `cg_new_cgroup`, `cg_destroy_cgroup` (358-366, 511-523, 557-595) | the container's directories under every controller mount |
| Env parameter | `cg_get_cgroup_env_param` (526-555) | a caller's buffer |
| Task attachment, accessors | `cg_attach_task`, `cg_env_set_*`, `cg_env_get_*`, `cg_set_veid` (602-1000) | `tasks`, `cpu.*`, `cpuset.*`, `memory.*`, `beancounter.*`, `ve.*` files |
| Bind-mount setup | `get_cgroups`, `do_bindmount`, `create_perctl_symlink`, `cg_bindmount_cgroup` (1000-1199) | mounts under the container root |
| Freezer | `cg_set_freezer_state`, `cg_freezer_cmd` (1218-1253) | `freezer.state` |

The functions are synchronous, but a process may call them from several
threads. Two pieces of state are shared in memory. The mount-path cache
is guarded by a mutex. The static slice-name buffer is not guarded. Everything else lives in the kernel: the
directories, files and mounts outlive the process. The resolver feeds
every other part: each controller operation first calls `cg_get_ctl`. The
lifecycle calls `rm_tree` for every controller on destroy and on the
rollback of a failed create.

The behaviours that are hard to test, and that the models aim at:

- the kernel refuses `rmdir` with EBUSY while tasks drain;
- another process removes directories during the walk;
- `fstatat`, `openat` and `/proc/mounts` fail;
- a process is killed between or during calls, and its successor starts
  with an empty cache;
- a rollback runs over co-mounted controllers that share a directory;
- threads of one process resolve a controller, or the slice name, at
  the same time;
- two processes suspend and resume one container at once, and the kernel
  is still FREEZING when a poll reads the state;
- an `snprintf` truncates an entry by exactly its last character.

`PROJECT.json` lists each such hazard at its line.

## 2. Modules

### CgTreeRemoval: `rm_tree`, `goto_next_dir`, `rmdir_retry`

The file system is a fixed tree of directory inodes, given by the
constants `Par` (the `..` link), `DirName` and `Depth`. `Sub` is the
subtree of `Root`, the directory `rm_tree(path)` is asked to remove.
`TreeAssumption` characterises `Sub` by an equation rather than by
recursion, so that the proofs can use it.

State:

- `present`: the directories that exist;
- `busy`: directories the kernel still refuses;
- the handles `fd` and `parentfd`;
- `name`, the entry recorded by the last descent;
- `level` and `ret`;
- `pc`, one of `open`, `walk`, `finish`, `done`;
- the auxiliary variable `leaked`, used by `StreamsReleased`.

Actions, one per piece of the code:

- `Open` is the `open`/`fstat` of the root (452-463).
- `Descend` is a successful `goto_next_dir` (395-442) together with the
  `level++` (466-469).
- `NextDirFails` is its -1 path (401-403, 420-426, 470-472).
- `Ascend` is the body of the loop when no subdirectory is left:
  - `AscendAtRoot` is the inode check (475-480);
  - `AscendFails` is a failed `openat(parentfd, "..")` (482-486);
  - `AscendUp` is the handle rotation, followed by
    `rmdir_retry(fd, name)` if a name was recorded, then the clearing of
    `name` and the `level--` (488-499).
- `RmdirRetry` covers the three outcomes of `rmdir_retry`'s EBUSY
  back-off (368-388). The empty target is removed. A target still busy
  when the 30 s budget ends fails. An ENOENT or ENOTEMPTY target fails.
- `Finish` is the closing `rmdir(path)`, whose result is ignored
  (501-508).

The environment has two actions, `Drain` (tasks leaving) and
`ExternalRmdir` (another process removing an empty directory). Both are
enabled only while `rm_tree` runs.

### CgMountResolver: `cg_ctl_map`, `get_mount_path`, `cg_get_ctl`

The controllers are the indices `1..N` of `cg_ctl_map`. `Mount[i]` is
what `/proc/mounts` lists for controller `i`, or `NoMount`. The variable
`cache` holds the `mount_path` fields of this process. The component
modules that call `cg_get_ctl` EXTEND this module. `GetCtl(c, r)` is one
call with result `r`:

- 0 from the cache;
- 0 after finding the mount and caching it;
- 1 when there is no mount line;
- -1 when `/proc/mounts` cannot be opened or `xstrdup` fails (the
  `mounts` fault).

### CgCtlThreads and CgCtlAtomic: threads calling `cg_get_path`

CgCtlThreads runs a set `Threads` of threads. Each thread makes one
`cg_get_path` call for the controller `CtlOf[t]`. The call has two parts.

First comes `cg_get_ctl`, statement by statement under `cg_ctl_map_mtx`:

| Action | Code |
|---|---|
| `Lock` | `pthread_mutex_lock` |
| `Check` | the `mount_path != NULL` test |
| `Scan` | `get_mount_path`: -1 (no `/proc/mounts`), 1 (no line), or a path copied into the local buffer `buf` |
| `Dup` | `xstrdup` into the cache |
| `Unlock` | `out:`, which releases the mutex; the caller then reads `ctl->mount_path` into `got` |

Then, for a shared controller, comes `get_cgroup_name`, with
`cg_get_slice_name` statement by statement:

| Action | Code |
|---|---|
| `SliceCheck` | `!inited` |
| `SliceParam` | `get_global_param`, which copies `Override` when it is set |
| `SliceCat` | `strcat` of `Default`; `slice` is the sequence of strings written into the buffer |
| `SliceInited` | `inited = 1` |
| `Name` | the `snprintf` that reads the buffer into `sname` |

`Remount` is the environment: an administrator moves a mounted controller
to another path, at most `MaxRemounts` times. It uses the live table
`mounts`, which starts as `Mount`.

CgCtlAtomic is the promise the other modules rely on. Each call is one
`Resolve` step, which is `GetCtl` of CgMountResolver. CgCtlThreads maps
onto it through `Atomic`:

- a thread is in its call until it passes `Check`, a failing `Scan` or
  `Dup`;
- `aret` is `ret`;
- both fault kinds become the resolver's `mounts` fault.

The mutex makes that one step. Every other step maps to a stutter.
`CgCtlThreadsProofs` proves the refinement (section 5).

### CgHierarchy: `cg_new_cgroup`, `cg_destroy_cgroup`, `cg_attach_task`

`Kind[i]` is the naming rule of `get_cgroup_name` (private, slice or
systemd scope). A directory is the pair `<<Mount[i], Kind[i]>>`, so co-mounted controllers
share one directory, as they do on disk.

State:

- `cache`, from CgMountResolver;
- `dirs`: the directories that exist;
- `pc`, `i` and `ret` of the running call;
- `lastOp` and `lastRet`: what the last call returned to this process;
- the auxiliary `made` and `rbLeft`, used by `CreateFailedClean`;
- the auxiliary `dLeft`, used by `DestroyReported`. It is set when the
  running destroy skips a controller on -1, or when `rm_tree` returns 0
  over a directory that is still there. Those are the two ways a destroy
  can leave a directory without seeing an error;
- `tasks`: the directories that hold the container's task;
- `exc` and the auxiliary `placed` of the running `cg_attach_task`: the
  excepted controller (0 for NULL) and the directories it has written the
  pid to.

`CgDestroy` models `cg_destroy`. It does nothing when the mount path is
unset, and otherwise calls `RmTree`. `RmTree` is `rm_tree` taken by its
outcomes as CgTreeRemoval establishes them:

- a missing directory is success;
- the directory is removed;
- the final rmdir is refused and ignored (`rootbusy`);
- the walk fails, with or without having removed the root (`rmtree`).

A directory that holds a task cannot be removed: `rmdir` gives EBUSY,
which `rm_tree` ignores on the root, so the directory stays and 0 is
returned.

`CreateStep` is one iteration of the loop of `cg_new_cgroup` (562-573).
`RollbackStep` is one iteration of the `err:` loop (575-577).
`DestroyStep` is one iteration of `cg_destroy_cgroup` (587-593).
`Restart` models the process exiting between calls, or being killed
during one when `crash` is in `Faults`. The new process has an empty
cache and no returned call. `make_dir(path, 1)` succeeds on an existing
directory, so a `mkdir` fault applies only to a missing one.

`StartAttach`, `AttachStep` and `AttachDone` model `cg_attach_task`
(623-642). An iteration skips the excepted controller. Otherwise it calls
`cg_set_ul(..., "tasks", pid)`, which is `cg_get_ctl` and then
`write_data`:

- -1 from `cg_get_ctl` returns -1 at once;
- a controller without a mount is skipped ("Skip non exists");
- a missing directory is skipped too, since `write_data` returns 1 on ENOENT;
- otherwise the pid enters the directory;
- under the `attach` fault, an open, write or close failure returns -1.
  The pid may already be in the directory, since a close fails after the
  kernel took it.

`TaskExit` is the environment: the task exits, and the kernel drops it
from every cgroup.

### CgBindMount: `cg_bindmount_cgroup`, `do_bindmount`, `create_perctl_symlink`, `get_cgroups`

A mount point under the container root is one of:

- `"sys"` (sysfs on `<root>/sys`);
- `"cg"` (the tmpfs on `<root>/sys/fs/cgroup`);
- a host mount path `m`, whose mirror `<root>m` receives the bind mount.

State:

- `mnt[p]`: how many mounts are stacked on `p` (saturating at
  `MaxStack = 2`, enough to see a second mount);
- `slaved`: the host mount points remounted `MS_SLAVE`;
- `head`: the list of mount paths handled in this call;
- `pc`, `i` and `ret`. `ret` follows the C variable, so the `err: if
  (ret)` after the loop tests what the last iteration assigned.

`Umount(m, p)` is `umount(2)`. It removes the top mount of `p`. It does
nothing when `p` is not a mount point (EINVAL) or when a mount lies below
it (EBUSY: the tmpfs while a bind is mounted, sysfs while the tmpfs is).
The code ignores its result.

Actions:

- `SysDir`, `SysMount`, `CgDir`, `CgMount` and `GetCgroups` are the five
  early statements (1111-1129). Each can fail and return at once.
- `LoopStep` is one iteration of the loop (1131-1169): `GetCtl`, then
  the skips (private, not listed and not systemd, mount path already in
  `head`), then `BindController`. `BindController` does the slave
  remount, `add_str_param`, `DoBindmount` (999-1015) and
  `PerctlSymlink` (1023-1067). A controller that is bound although its
  `GetCtl` returned 1 uses a NULL `mount_path`. That is undefined
  behaviour, modelled as either a crash (`segv`) or a failing call.
- `LoopDone` is the end of the loop.
- `UnwindList` and `UnwindSkeleton` are the `err:` block (1170-1183).

`Init` allows any cache a process can hold (unset or the real mount
point per controller) and an empty container root. The directories that
`make_dir` creates are not tracked. The symlinks live in the tmpfs and
go with it.

### CgFreezer: `cg_freezer_cmd`, `cg_set_freezer_state`

A set `Callers` of vzctl processes act on one container. `Cmds[p]` is the
sequence of commands process `p` issues: `resume`, `suspend` or any other
number. Each process has its own mount-point cache (`cached[p]`). The
kernel's freezer is the cgroup-v1 state machine. A write of `FROZEN`
makes a thawed cgroup `FREEZING` until `Freeze` has frozen every task. A
write of `THAWED` thaws at once. Both of those, `KernelWrite` and
`Freeze`, belong to the kernel and are modelled from its documented
behaviour.

Actions of process `p`:

- `Unsupported` is the `-1` return of `cg_freezer_cmd` (1253).
- `Start` picks `THAWED` or `FROZEN` (1246-1251) into `tgt[p]`.
- `Write` is `cg_set_param` (1224-1226). Its outcomes are:
  - `cg_get_path`'s result (`Resolve`: cached, `mounts` fault,
    `nomount`);
  - `open`'s ENOENT when the directory is missing (`nodir`);
  - a failing `open` or `write` (the `write` fault), or a failing `close`
    after the kernel took the write;
  - success.
- `Poll` is one `cg_get_param` and `strncmp` (1229-1237). `PollFail` is
  `cg_read` failing (the `read` fault).
- `Sleep` is the `sleep(1)` (1238).

The auxiliary `holds` is the set of processes whose last call returned 0
and after which no write reached the kernel.

### CgEnvParam: `cg_get_cgroup_env_param`

The text is abstracted to lengths. `p` is the offset of the C pointer,
`Size` the buffer's size, `PrefixLen` the length of
`VE_CGROUP_MOUNT_MAP=` and `EntryLens` the lengths an entry can have.
`Snprintf(n)` is `p += snprintf(p, ep - p, ...)` for a text of `n`
characters, by what the C library does:

- with `room = ep - p` positive it stores `min(n, room - 1)` characters;
- with `room` zero it stores nothing;
- with `room` negative (a huge `size_t`) it stores all `n` past the end
  and sets `overrun`.

In every case it adds `n` to `p`. `written` is how far the buffer really
holds the text. `Prefix` is the unchecked first `snprintf` (534).
`Entry` is one iteration of the loop (535-552): `GetCtl`, the -1 return,
the private and unmounted skips, then the entry and the `p > ep` test.
`Done` is the `return 0` (554).

### CgCpuConversion: the CPU accessors' arithmetic

These are operators, not a state machine:

- `CpuShares(u)` is `cpuunits * 1024 / 1000` in 32-bit unsigned
  arithmetic (645-648);
- `CpuRate(l)` is `cg_env_set_cpulimit`'s truncated quotient (650-655);
- `CpuLimitOf(r)` is `cg_env_get_cpulimit`'s (657-669).

The float arithmetic of `cg_env_set_cpulimit` is taken for whole
percentages below 2^14 (`Percents`). The module's comment shows why the
float quotient truncates to the integer quotient there.

## 3. Runs

| Run | Module / cfg | Expect | What it shows |
|---|---|---|---|
| `tree` | MCCgTreeRemoval / .cfg | pass | With open failures, EBUSY and a concurrent rmdir, `rm_tree` never leaves the subtree (`OutsideIntact`). Its handles stay a directory and its parent (`WalkConsistent`). It returns 0 only when nothing below the root remains and the root is gone or still busy (`SuccessMeansEmpty`). It always returns (`Terminates`). |
| `tree_streams` | _streams.cfg | violation | `StreamsReleased`: the `fdopendir` streams are never closed (spec §5). |
| `tree_stat` | _stat.cfg | violation | `SuccessMeansEmpty` under fstatat failures: `rm_tree` returns 0 over a surviving subtree. |
| `hierarchy` | MCCgHierarchy / .cfg | pass | Under every fault, a successful create leaves the full hierarchy (`CreateOkMeansAll`). A failed create removes every directory it made, unless a rollback `rm_tree` left it (`CreateFailedClean`). A destroy that returns 0 leaves nothing, unless it skipped a controller on -1 or an `rm_tree` reported success over a directory that remains (`DestroyReported`). So every `rm_tree` error is reported, co-mounted directories included. A `cg_attach_task` that returns 0 has put the pid into every existing directory of a controller other than the excepted one, the shared directory of the excepted cpu included (`AttachOkMeansAttached`). The task is attached with no exception and with cpu excepted. |
| `hierarchy_faults` | _faults.cfg | violation | `DestroyOkMeansGone` fails under the two faults that `DestroyReported` sets aside. When a fresh process cannot read `/proc/mounts`, every controller is skipped and 0 is returned. When the final `rmdir(path)` is refused, 0 is returned too. Each fault alone is enough; TLC shows the shorter trace. |
| `bindmount` | MCCgBindMount / .cfg | pass | Under every failure inside the loop (`mounts`, `slave`, `nomem`, `bind`, `symlink`), a failed setup leaves nothing mounted (`SetupAllOrNothing`). A successful one has sysfs, the tmpfs and every active shared controller and systemd bound (`SetupOkAllBound`). No point is mounted twice (`NoStackedBind`). |
| `threads` | MCCgCtlThreads / .cfg | pass | Three threads, with `/proc/mounts` and `xstrdup` failures and a remount, agree on the mount point of a controller (`ResolvedAgree`). No step scans a controller that is already cached (`NoScanWhenCached`), and every call returns (`Terminates`). |
| `threads_slice` | _slice.cfg | violation | `SliceNameStable` without the parameter: two first uses both `strcat` `machine.slice`, and a path is built under `machine.slicemachine.slice`. |
| `bindmount_early` | _early.cfg | violation | `SetupAllOrNothing` fails when a step between the sysfs mount and the loop fails: sysfs stays mounted (spec §4.5, §8). |
| `bindmount_null` | _null.cfg | violation | `NoNullMountPath`: an active controller with no host mount reaches `find_str`/`mount` with a NULL `mount_path`. |
| `freezer` | MCCgFreezer / .cfg | pass | Two processes suspend and resume one container in every interleaving, under every fault. A call that returned 0 leaves the cgroup in the state it asked for until the next write reaches the kernel (`ReturnedStateHolds`). So a suspend never returns while the cgroup is still FREEZING. A polling call eventually returns, unless another process's write asks for the opposite state (`Settles`). |
| `envparam` | MCCgEnvParam / .cfg | violation | `CompleteOnSuccess`: entries of 20, 12 and 8 characters fill the 40-byte buffer exactly. The last `snprintf` stores 7 of its 8 characters and `p` lands on `ep`, so `p > ep` does not fire and the call returns 0 with a truncated map. |

Bounds:

- **Tree.** The tree has a top, a slice `sl`, the container `r`, a
  sibling container `o`, two children `a` and `b` of `r`, and two
  children `c` and `e` of `a`. The subtree therefore has two levels below
  the root and a directory with two subdirectories, the smallest shape in
  which a revisit, a handle rotation above a removed child, and an
  escape to a sibling can all happen. Names repeat across levels (`a`,
  `c` and `r` are all `n1`), so an `unlinkat` relative to the wrong
  handle would find something to remove.
- **Hierarchy.** There are five controllers: cpu and net_cls co-mounted
  on `m1`, the private `ve` on `m2`, `perf_event` without a mount, and
  `systemd` on `m3`. The failing controllers come after controllers that
  made a directory, so every rollback has work to do. The co-mount makes
  one directory the target of two rollback steps. The unmounted entry
  exercises the "skip non exists" path. `cg_attach_task` is called with
  no exception, and with cpu excepted. Cpu's directory is shared with
  net_cls, so the exception does not exempt the directory.
- **Bind mounts.** The same five controllers appear in the code's order,
  with systemd last. `/proc/cgroups` lists cpu, net_cls and ve. The
  co-mounted pair on the joined path `m1` tests the once-per-mount-path
  rule and the symlink step. The private `ve` tests the private skip.
  The `_null` run adds the unmounted `perf_event` to the active list.

- **Threads.** There are three threads: two ask for the shared cpu
  controller and one for `perf_event`, which has no mount. Two threads on
  one controller are the least that can race on the cache and on the
  slice buffer. The third adds a waiter on the mutex and the "no mount
  line" result. One remount of cpu is enough to make a scan after
  another scan read a different table. The refinement is proved, not
  run, and only for runs without a remount.
- **Freezer.** Process `p1` suspends and then resumes; `p2` suspends and
  then issues an unsupported command. Two processes are the least that
  can overtake each other. A suspend followed by a resume in one process
  makes every order of opposite writes reachable. The initial state is
  either THAWED or FROZEN, so a suspend of a frozen cgroup is covered,
  as is one that must wait for FREEZING to end.
- **Env parameter.** There are four controllers: two mounted, one
  private, one with no mount. The entry lengths 8 and 12 and the sizes 20
  and 40 let the map end before the end of the buffer, exactly at it,
  or past it.

The pass runs fire every action and every disjunct:

- the `tree` run uses the faults `open`, `ebusy` and `external`;
- the `hierarchy` run uses all six of its faults;
- the `bindmount` run uses every fault of the loop;
- the `threads` run leaves `VE_CGROUP_SLICE` unset, so it fires the
  `strcat` step, and it uses both faults;
- the `freezer` run fires every caller action, the kernel's `Freeze` and
  all five faults.

`CgEnvParam` has only a violation run, and `CgCpuConversion` is proved,
not run.

Each property of a pass run has a mutant in `PROJECT.json`: a plausible
bug in a mapped definition that TLC must then catch. Examples are a
rotation that keeps the recorded name, a rollback that starts or stops
one controller off, a `cg_get_ctl` error skipped like a missing mount,
and a destroy result that is dropped. Others are the skeleton unmounted in
the wrong order, the co-mount check lost, the systemd exception lost,
and a stale `mount_path` recorded in the list.

## 4. Fairness

`Spec` of CgTreeRemoval has `WF_vars(RmTree)`: `rm_tree` is a sequential
function that keeps running while its process lives, and each of its
waits is bounded (the 30 s budget of `rmdir_retry`). The environment
actions (`Drain`, `ExternalRmdir`) get no fairness, because nothing in
the code makes them happen. CgHierarchy and CgBindMount check only safety, so their `Spec` has no
fairness: a caller may never call again, and a process may be killed at
any point. CgCtlThreads has `WF_vars(Thread(t))` for every thread,
because the scheduler runs every runnable thread. `Remount` has no
fairness. Weak fairness is enough for `Terminates` even though a thread
at `Lock` is enabled only while the mutex is free. Each thread makes one
call, so the mutex is eventually free for good.

CgFreezer has `WF_vars(Step(p))` for every process and `WF_vars(Freeze)`.
`Step(p)` excludes `PollFail`. A failing read is an outcome the
environment may produce, not one the scheduler must produce. With fairness
on it, a polling process would be forced to fail. `Freeze` is fair
because the kernel completes freezing a cgroup whose tasks can be
frozen. Without that, `Settles` would fail for a reason outside
libvzctl. A mismatching poll moves to `sleep`, so a process in the loop
always has an enabled non-stuttering step.

## 5. Proofs

The inductive invariants below (`IInv`, `EInv`, `HInv`, `SInv`, `TInv`)
are means to the proofs, not properties of the code in their own right.
Each restates checked properties together with the bookkeeping its
proof needs. TLC checked each on its run's instance before it was
proved. The runs leave them out, and adding one to a cfg's
`INVARIANTS` repeats the check.

`CgTreeRemovalProofs` proves, for every tree, every root and every fault
set that `TreeAssumption` allows:

- `TypeCorrect`: `Spec => []TypeOK`;
- `SubtreeConfined`: `Spec => []OutsideIntact`;
- `HandlesConsistent`: `Spec => []WalkConsistent`.

None of the three invariants is inductive alone. `OutsideIntact` needs
to know which directory the handles hold when `AscendUp` removes
something. `WalkConsistent` needs the type facts and needs `OpenClean`
(before the walk starts, `level = 0` and no name is recorded). The proofs
therefore use `IInv == TypeOK /\ OutsideIntact /\ WalkConsistent /\
OpenClean`, which the `tree` run also checks.

- `InitIInv` proves `Init => IInv`.
- `NextIInv` proves `IInv /\ [Next]_vars => IInv'`, with one case per
  action.

The argument rests on three lemmas:

- `SubFacts` draws from the characterisation of `Sub` that the subtree
  is closed under `..` below the root and contains the children of its
  members.
- `EntryIsSelf` says the entry `DirName[d]` of `Par[d]` is `d` itself,
  because names are unique within a directory.
- `RmdirRetryEffect` says `rmdir_retry` removes at most that entry.

So the only directory an ascent can remove is the one it has just left,
which lies in `Sub \ {Root}`. Each theorem then follows by `PTL` from the
two lemmas.

`CgBindMountProofs` proves, for every controller table, every set of
private and active controllers and every fault set that
`ResolverAssumption` and `BindMountAssumption` allow:

- `BindTypeCorrect`: `Spec => []TypeOK`;
- `SingleMounts`: `Spec => []NoStackedBind`.

`NoStackedBind` is not inductive alone. A bind adds one mount, and
that is safe only if nothing is mounted on the mirror yet. The code
ensures this with the `find_str(head, ...)` check, so the invariant must
relate the mounts to the list. The strengthening `IInv` of CgBindMount
says four things:

- every mounted mirror is listed in `head`;
- every listed path has been slaved;
- nothing is stacked;
- sysfs and the tmpfs are unmounted before the statements that mount
  them.

The proof splits `IInv`
into three parts: the mount counts (`MountsOK`), the skeleton conditions
and the control state. Three lemmas carry the mount reasoning:

- `SameMounts`: a step that leaves the mounts alone keeps the counts
  right;
- `FreshMount`: `mount(2)` on an empty point leaves one mount there;
- `Shrinks` with `UmountShrinks`: `umount()` never adds a mount.

`GetCtlFacts` says `cg_get_ctl` keeps the cache typed and, on 0,
returns a real mount path. Each action then has its own lemma
(`EarlyStep`, `BindStep`, `LoopIInv`, `UnwindIInv`).

`CgCtlThreadsProofs` proves `RefinesAtomic`: if `MaxRemounts = 0`, then
`Spec => AtomicSpec`. This holds for every set of threads, every
controller table and every fault set. The hypothesis is needed: the
abstract `GetCtl` reads the table as it was at the start. The proof
rests on the invariant `RInv`, which says:

- the type facts hold, and the live table is `Mount`;
- every cached path is the controller's mount point;
- only the owner of `cg_ctl_map_mtx` is between `Check` and `Unlock`;
- a thread at `Scan` or `Dup` finds its controller uncached;
- the buffer a thread at `Dup` copies is the controller's mount point.

The lemmas are:

- `RInvInit` and `RInvNext`: `RInv` holds initially and is kept, with
  one case per action.
- `InitMaps`: the initial states map to the abstract initial state.
- `StepMaps`: every step maps to a `Resolve` step or a stutter.
  - `Check` of a cached controller is the first disjunct of `GetCtl`.
  - A `Scan` with the `mounts` fault is the second.
  - A `Scan` that finds no line is the third.
  - A `Dup` is the fourth, or the second under `nomem`.
  - Every other step changes neither the cache nor the results. It moves
    its thread within one side of the mapped `apc` (`SameSide`).

`PTL` combines the four.

`CgHierarchyProofs` proves, for every controller table (`Mount`,
`Kind`), every exception set and every fault set that
`ResolverAssumption` and `HierarchyAssumption` allow:

- `HierarchyTypeCorrect`: `Spec => []TypeOK`;
- `CreateOkComplete`: `Spec => []CreateOkMeansAll`;
- `CreateFailureRolledBack`: `Spec => []CreateFailedClean`;
- `DestroyReportsFailures`: `Spec => []DestroyReported`;
- `AttachOkComplete`: `Spec => []AttachOkMeansAttached`.

All five follow by `PTL` from `HierarchyInvariant`, `Spec => []HInv`.
The four properties speak only about the state after a call has
returned, so none is inductive alone. The step that returns must know
what the loop did for every controller before it. `HInv` adds one
progress conjunct per loop, each about the controllers `1..i-1`:

- `CreateProgress`: every mounted controller has its directory, and
  every directory in `made` belongs to a controller that the call
  resolved (`cache[j] # NoPath`);
- `RollbackProgress`: unless an `rm_tree` left its directory, every
  directory of `made` that still exists belongs to a controller at or
  below `i`, which the rollback has yet to visit;
- `DestroyProgress`: while `ret = 0` and nothing was left, no mounted
  controller before `i` has a directory;
- `AttachProgress`: every existing directory of a mounted controller
  before `i`, other than the excepted one, holds the pid.

It also adds `CacheSound`: a cached path is the controller's own mount
point. Without it the rollback could not tell that a directory it
removes through `cg_get_ctl`'s cached path is the one `made` records.
TLC checked `HInv` on the `hierarchy` instance before it was proved.

`InitHInv` and `NextHInv` carry the proof, with one lemma per action
(`CreateStepHInv`, `RollbackStepHInv`, `DestroyStepHInv`,
`AttachStepHInv`, and one per start, return, exit and restart). They
rest on a few helper lemmas:

- `GetCtlFacts`: `cg_get_ctl` keeps the cache typed and sound, returns
  0 only for a mounted controller, and never changes a cached entry;
- `RmTreeFacts`: `rm_tree` removes at most its own directory;
- `CgDestroyFacts`: the same for `cg_destroy` of one controller.

The type invariant is split into its numeric and set part (`TypeNum`,
for SMT) and its Boolean part (`TypeBool`, for Zenon).

`CgFreezerProofs` proves, for every set of callers and every command
list that `FreezerAssumption` allows:

- `FreezerTypeCorrect`: `Spec => []TypeOK`;
- `ReturnedStateProved`: `Spec => []ReturnedStateHolds`.

Both follow from `FreezerInvariant`, `Spec => []IInv`, where `IInv ==
TypeOK /\ KInRange /\ ReturnedStateHolds`. `KInRange` says a caller
that has not finished is on one of its commands. Without it, the step
that takes `Cmds[p][k[p]]` could not be typed. `ReturnedStateHolds` is
inductive alongside it. A process joins `holds` only by leaving the poll
loop with the state it asked for. Every write to `freezer.state` by any
process empties `holds`. So no step can change `state` under a process
in `holds`, and the kernel's own step only moves FREEZING on to FROZEN.
There is one lemma per action (`StartIInv`, `PollIInv`, `PollFailIInv`,
`SleepIInv`, `FreezeIInv`, `WriteIInv`, `UnsupportedIInv`). The type
invariant is split into a Boolean part for Zenon and the rest for SMT.

`CgTreeRemovalProofs` also proves, under the hypothesis that `fstatat`
never fails (`"stat" \notin Faults`):

- `SuccessEmpty`: `Spec => []SuccessMeansEmpty`;
- `EmptyInvariant`: `Spec => [](IInv /\ EInv)`.

The `tree_stat` run shows the hypothesis is needed. A failing `fstatat`
makes a directory look empty, and `rm_tree` then returns 0 with part of
the subtree left. `EInv` is `ParClosed /\ EmptyAtEnd`:

- `ParClosed`: a present directory below the top has its parent present;
- `EmptyAtEnd`: a walk that ends with 0 has left the root with no
  subdirectory.

From an empty root, `NoneBelow` concludes that nothing of `Sub \ {Root}`
is present. Its argument takes a present directory of least depth below
the root, through `WFMin` and `NatLessThanWellFounded` of
WellFoundedInduction. That directory's parent is present by `ParClosed`.
If the parent is the root, the root is not empty. Otherwise the parent
has a smaller depth, which contradicts the choice. Further lemmas say
that `rmdir_retry` and the other processes keep an empty directory empty
(`RemoveEmpty`, `StaysEmpty`, `RmdirRetryEmpty`), and `NextEInv` has one
case per action. TLC checked `EInv` on the `tree` instance first.

`CgBindMountProofs` also proves:

- `SetupInvariant`: `Spec => [](IInv /\ SInv)`;
- `SetupOkProved`: `Spec => []SetupOkAllBound`;
- `AllOrNothingProved`: `Spec => []SetupAllOrNothing`, when neither
  the mkdir of the cgroup directory, its tmpfs mount nor the read of
  `/proc/cgroups` fails.

The `bindmount_early` run shows that without this hypothesis sysfs is
left mounted. That is the finding, not a gap in the proof. `SInv` adds:

- `CacheSound`: every cached path is the controller's mount point;
- `SetupProgress`: what each statement of the call has mounted so far.
  Past `sysfs`, /sys is mounted. Past `tmpfs`, the tmpfs is. In the
  loop, every listed path is mounted, and so is every non-private
  controller already visited that has a mount point. On the unwinding
  path `ret # 0`, and after `umount1` no mirror is left.

`LoopSInv` carries the loop and `UmountEmpties` the unwinding.
`MountedGrows` says that a mount keeps the earlier ones in place.

`CgCtlThreadsProofs` also proves, with remounts and for every set of
threads:

- `ThreadsInvariant`: `Spec => []TInv`;
- `ThreadsTypeCorrect`: `Spec => []TypeOK`;
- `AgreeProved`: `Spec => []ResolvedAgree`;
- `NoScanProved`: `Spec => NoScanWhenCached`.

`TInv` of CgCtlThreads is `TypeOK /\ MutualExclusion /\ CallState`:

- `MutualExclusion`: only the owner of `cg_ctl_map_mtx` is between
  `Check` and `Unlock`;
- `CallState`: a thread at `Scan` or `Dup` finds its controller
  uncached, and the buffer at `Dup` is a mount path. A thread at
  `Unlock` with 0 sees its controller cached, and a thread past the call
  with 0 holds the cached path.

The cached entry is written once, by `Dup` under the mutex, and never
changed afterwards. So two calls that returned 0 for one controller hold
the same path, even when a remount moved the controller between them.
Unlike `RefinesAtomic`, this needs no `MaxRemounts = 0`. The inductive
step has one lemma per action. Lemma `TDup` uses `MutualExclusion` to
rule out another thread that already returned on the entry being
written. `TQuiet` covers every step of `cg_get_slice_name` at once.
`NoScanWhenCached` follows because `CallState` holds before every step.
TLC checked `TInv` on the `threads` instance first.

`CgCpuConversion` proves three facts about the arithmetic for every
input:

- `RateRoundTrip`: `CpuLimitOf(CpuRate(l))` is `l` when `l` is a
  multiple of 25, and `l - 1` otherwise. Setting 10 % reads back 9 %,
  although the spec calls get and set symmetric. Its example, 50 %,
  happens to be a multiple of 25.
- `SharesMonotone`: below 4194304 cpuunits the shares are the scaled
  weight, and monotone.
- `SharesWrap`: 4194304 cpuunits get 0 shares.

Only TLC checks the following:

- `Terminates` and `Settles`. They are liveness under fairness, which
  needs `ENABLED` and the fairness conditions, and TLAPS 1.4.5 cannot
  reason about them.
- `DestroyOkMeansGone`. It fails (run `hierarchy_faults`), so there is
  nothing to prove.
- `SuccessMeansEmpty` and `SetupAllOrNothing` with the faults left out
  of their theorems. They fail then (runs `tree_stat` and
  `bindmount_early`).
- The violation runs `tree_streams`, `bindmount_null`, `threads_slice`
  and `envparam`. They are counterexamples.

## 6. Not modelled (yet)

- **Parameter I/O.** It is modelled only by its outcomes, as
  `Write`/`Poll` of CgFreezer use it. `cg_read`'s one-byte underread on
  an empty file (226) needs a caller that reads an empty control file,
  and none of the modelled callers does.
- **The multi-file setters** (`cg_env_set_ub`, `cg_env_set_io`). Each is
  a short sequence of `cg_set_param` calls that returns at the first
  failure. `PROJECT.json` lists the partial writes as hazards without a
  property.
- **The mask setter.** It rests on the bitmap library, which is not in
  `src/`.
- **The ve accessors, the ip list readers and `cg_env_get_pids`.** They
  are single reads and writes, or file parsing.

Logging, message text and path formatting are left out throughout. A
path is identified by its controller mount and naming rule.

## 7. Plan

1. A refinement: CgTreeRemoval implements a one-step abstract `rm_tree`
   whose outcomes are the ones `RmTree` of CgHierarchy assumes.
2. Action properties proved from the existing invariants: an ascent of
   `rm_tree` removes only the directory it has just left, and a
   `cg_freezer_cmd` write only ever asks for its own caller's command.
3. Models of the multi-file setters (`cg_env_set_ub`, `cg_env_set_io`)
   and their partial writes.
