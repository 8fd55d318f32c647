# A TLA+ model of Nightwatch

Nightwatch puts Kubernetes nodes to sleep and wakes them: it cordons and drains a
node, waits until its iSCSI sessions are gone, shuts the operating system down
through Talos and waits for its BMC to report off; or it powers a machine on,
waits until it is back and uncordons it. The same two state machines are driven
by a Kubernetes operator, an HTTP API and a command line.

This directory models that code in TLA+, checks the models with TLC on small
instances, and proves the most important properties with TLAPS for every size.
`PROJECT.json` lists the runs, mutants, source map, findings, hazards and theorems.

    tlc -workers 2 -config MCApi.cfg MCApi      # one run
    tlapm ApiProofs.tla                         # the proofs of one module

## 1. Inventory

| Part | State | Operations | What makes it hard |
| --- | --- | --- | --- |
| `internal/lifecycle` | step records | DrainShutdown, PowerOn | each phase can fail, time out or lose its reply; the gate is read long before power goes |
| `internal/operate` | none | Lookup, kubeName, DrainShutdown, Wake, RealBuilder, BuildStorageGate | connections opened one after the other, with an error path after each |
| `internal/api` | the actuator locks | three routes, auth, lock, answer, Serve | concurrent requests, disconnects, SIGTERM with operations in flight |
| `internal/controller`, `api/v1alpha1`, `cmd/nightwatch-operator` | ElasticNode spec and status | Reconcile, observe, writeStatus, the intent watcher | stale caches, update conflicts, edits during an operation, failover |
| `internal/iscsi`, `internal/truenas` | a websocket and its request id | WaitClear, login, Call, Close | event pushes, replies that are late or never come |
| `internal/bmc` and its drivers | none | GetPowerState and four power actions | transitional states, actions that are accepted after the client gave up |
| `internal/k8s` | none | cordon, uncordon, drain, node reads | the drain lists pods once and skips terminating ones |
| `internal/talos` | a connection | New, Shutdown, Reachable, Close | an API that answers until late in a shutdown |
| `internal/store` | JSON files | leases; operation records; desired power, observed state, last success | read-decide-write without a lock, death between two file operations |
| `cmd/nightwatch` | an exit code | status, power, drain-shutdown, wake; serve | takes no lock and runs beside a server; signals and kills at any moment |
| `internal/inventory` | none after start | load, validate | each command reads the file anew |
| `internal/sim`, `cmd/nightwatch-sim` | test doubles | | not part of the product |

What each part has to get right: the lifecycle must never stop a machine that
has not been drained and detached, must leave a failed node out of service, and
must not claim what is not so. The API must keep two requests off one machine and must
always free its lock. The operator must converge from any state it finds,
must not act unasked, and must not lie in the status. The gate must not take
silence, an event or an error for "clear". A BMC driver must not make up a state.
The file store must give a lease to one holder, lose no update it reported as stored, and show
no half-written file. A command's exit code must tell what became of the machine.

## 2. Modules

| Module | Models | Extends |
| --- | --- | --- |
| `NodeWorld` | machines, node objects, pods, storage sessions (external) | |
| `NodeContract` | what a machine's workloads and volumes are promised (abstract) | |
| `Lifecycle` | `internal/lifecycle` with the `k8s`, `talos` and gate calls it makes | `NodeWorld`; instantiates `NodeContract` |
| `Operate` | lookup and assembly of `internal/operate` | `Lifecycle` |
| `Api` | `internal/api` | `Operate` |
| `Inventory` | `inventory.Load` and its validation | |
| `Cli` | the commands of `cmd/nightwatch` | `Operate`; instantiates `Inventory` |
| `FrontEnds` | the server and terminals on the same machines | `Api` and `Cli` |
| `Operator` | `internal/controller` | `Lifecycle` |
| `Backends` | `operate.RealBuilder`, `iscsi`, `truenas` | |
| `Adapter` | the promise of `bmc.Adapter` (abstract) | |
| `Bmc` | `bmc/amtwsman` and `bmc/redfish` | instantiates `Adapter` |
| `JsonFile` | `readJSON` and `writeJSON` of `internal/store` | |
| `Leases` | the node leases | `JsonFile` |
| `Records` | operation records, desired power, observed state, last success | `JsonFile` |
| `Record` | an atomic register (abstract) | |
| `FileStore` | one record of any kind and its clients | `Leases`, `Records`; instantiates `Record` |
| `LifecycleProofs` | lemmas about `Lifecycle` for any front-end | `Lifecycle` |
| `ApiProofs` | theorems | `Api` and `LifecycleProofs` |
| `OperatorInvariant`, `OperatorProofs` | the invariant, its preservation action by action, theorems | `Operator` and `LifecycleProofs` |
| `FrontEndsProofs` | theorems | `FrontEnds` and `LifecycleProofs` |
| `BackendsProofs`, `BmcProofs`, `FileStoreProofs` | theorems | the module they are about |
| `MC*` | constants for TLC | the module they run |

`Lifecycle` is a library of actions over a *runner*, one invocation of
DrainShutdown or PowerOn; `Api` composes it with requests, `Cli` with commands and
`Operator` with reconciles. Thus one model of the state machines is checked under
all three.

**NodeWorld.** A machine has power, an OS state and storage sessions; its node
object has Ready (which lags the kubelet), GPU capacity, the cordon and the pods.
Machines and node objects have separate name spaces, joined by `KubeNodeName`.
Assumptions about the world, all outside the repository:

- no pod is bound to a node after the cordon is stored. A scheduler that had chosen the
  node just before may do so in reality; nothing in the code closes that window;
- an OS that shuts down stops its pods and logs out of its sessions before it
  powers off;
- nothing but Nightwatch turns a machine on: `OffStatusTrue` says for how long a reported
  Off is true, and a power button in between would end that until the next reconcile;
- pods that mount no storage, DaemonSet pods and static pods are left out.

**Lifecycle.** `pc[r]` is the name of the phase that comes next, as in the step
records. A phase that makes a call has three outcomes: done, done with a lost
reply (recorded as failed), not done. A wait reads its condition at one moment:
true, it passes; false, it may still be false at the deadline and fail. A done
context makes every call fail. `stable` becomes TRUE at some point of a behaviour
or never; before it, any call can fail. `Matches` gives, for each machine, those
whose rows of the session table contain its token, since the gate matches substrings.
A power action takes effect at once; `Adapter` has the delayed case.

**NodeContract.** The lifecycle as its workloads see it: a machine is open or closed,
loaded or empty, has volumes or not, and is up, stopping or off. It is told to stop only when
closed, empty and (behind a storage gate) detached, and loses power only after that or by an
outage. `ImplementsContract` maps cordon, running pods, sessions, power and OS to these.

**Operate.** What the API and the command line share: look the name up, build the backends
(only the dial and the login at the storage target use the context there), run. `Backends` has the inside
of the build. `OnlyContextEnds` names the calls that have no deadline of their own.

**Api.** Some runners, `Connection`, are connections to the server. `inFlight` is the lock table, `server` goes
through up, draining, exited. Authentication, decoding and dry runs end a
request without the lock (`AnswerWithoutLock`). `Kill` and the deadline of
`srv.Shutdown` lose every request; the world stays.

**Inventory and Cli.** A raw inventory maps the names it lists to the fields their entry
sets; every command loads one, which need not be the one the server has. The runners
in `Shell` are terminals: usage errors, failing loads, unknown nodes, `status` and dry runs only set the
exit code; a `power` command is one BMC call without a gate; `drain-shutdown` and `wake` run
an operation that SIGINT or SIGTERM cancels and a kill cuts off. A reset may leave
a machine that was off as it was or turn it on, as controllers do either.

**FrontEnds.** The runners are the connections and the shells (`Connection` and `Shell` are
disjoint), over one set of lifecycle variables. The lock table is local to the server process, and commands take no lock, so
both interleave freely. Nothing in the code stops a wake, or a raw `power` command, from undoing a
drain of the same machine at the same time, and then no promise survives; `FENext` therefore
excludes such *opposed* operations. For the rest, the run and the theorems show that the missing
lock costs none of the promises. Backends never become reliable there and the server is not restarted (`Api` has that).

**Operator.** The work queue serialises a key, so the runner of an object is its
node. Resource versions are abstracted to freshness: `cacheFresh` and `enFresh`
say whether a copy has the latest version, and a write with one that has not
conflicts. `askedOff` remembers of which nodes some stored version asked for Off. "unset" and "none" stand for the empty string. `MaxGeneration` bounds the edits of the spec. Delete-and-recreate under
one name is left out.

**Backends.** One operation after another on one machine. `table` is the target's
real session table, `seen` what it has shown during the wait. `MaxCalls` bounds the
ids of a connection. The target may answer an old request at any time, with a
result or an error; that it never sends a success with an empty result is
assumed (the client reads that as an empty table). A dial or a login may stay without
an answer for ever; only the caller's context ends it.

**Adapter and Bmc.** `Adapter` says: an OK reading was true at some moment of
the call; an OK action was accepted; a failed action may have been accepted or
may be accepted later; what is accepted takes effect in its own time or not at all.
`Bmc` has the HTTP exchange of either driver, and the same variables, so the
refinement mapping is the identity on them. Assumed: a controller that refuses an
action says so by its HTTP status or by a ReturnValue; a 2xx without one, which the AMT
driver counts as accepted, comes only from a controller that did accept.

**JsonFile, Leases, Records and FileStore.** One record, whose kind is chosen at the start.
One action per file operation of a call: read, remove, flock, write the temporary
file (which leaves it torn until it is complete), rename. Each of those of a write may fail
(`WriteFails`): the flock is released and the caller, told of the error, lives on with the lease it had. A document is new by its maker and a
serial number; a lease has its id and expiry, any other record the set of the changes it carries.
`Die` is the death of a process anywhere, `overlapped` remembers whether two calls were ever in
progress at once, `stored` the changes whose writers were told they are stored. A power loss of the
store's own machine is not modelled; the two clock reads of one AcquireLock are one.

## 3. Runs

| Run | Question | Bounds |
| --- | --- | --- |
| `api` | is the lock exclusive and free after every request, is success true, failure safe, power pulled only when detached? | two connections, one machine, one pod, crashes |
| `front_ends` | with a server and a shell on one machine and no lock between them: is success true, is a failed node cordoned, is only a drained and detached machine stopped, do exit codes tell the truth, is every accepted request answered unless it hangs in a call without a deadline? | one connection, one shell, one pod |
| `api_exit` (violation) | does the server exit only when drained? | one connection |
| `operator` | is an Off status true, is nobody disturbed unasked, does success hold, is only a drained and detached machine stopped, does a failed one stay cordoned, is the contract refined? | one pod, one edit, deletion |
| `operator_converges` | does it reach what is asked, does the status come to rest? | an object created Off, one edit, crashes, no pod |
| `operator_remapped` (violation) | the same contract with a remapped node name | an unmanaged node with the object's name |
| `operator_uncordon` (violation) | is only a machine that is up uncordoned? | one edit |
| `operator_converged` (violation) | does Converged mean what the API types say? | crashes |
| `backends` | is clear true, is everything closed, does every operation end unless its dial or login is never answered? | four calls per connection |
| `bmc` | do the drivers implement the adapter, does each call return? | reading, power-on, hard-off |
| `filestore` | while calls do not overlap, is the lease exclusive and no update lost; is a file never torn, is writeJSON an atomic register, does each call return? | two clients with two documents each, TTL 1, two ticks |
| `filestore_race` (violation) | is the lease exclusive when calls overlap? | two clients |

One machine is enough for what the front-ends share: operations on different
machines meet only in the lock table and the session table, and the theorems of
`ApiProofs`, `FrontEndsProofs` and `OperatorProofs` hold for any number. Two writers are what it takes to race for
a file, and two documents each let one of them read what it wrote before. Two connections are what it takes to contend for
a lock. One pod takes every path of the drain, since pods do not interact. Two
generations allow an intent to change while an operation for the earlier one is
under way and its status is still to be written. Four calls on a connection are the login
and three polls, so a reply to an earlier poll can arrive during a later one.

The liveness run of the operator has no pod and no deletion, and an object that is
created Off, to keep the behaviour graph small: a drain's pods and a deleted object
are in the safety run, and an object that starts and stays On asks for nothing.
Neither run of the operator has a GPU node; the wait for the device is in `api`.
`bmc` calls three of the five methods; SoftOff and Reset differ from HardOff and
PowerOn in a parameter only, and `BmcProofs` covers all five.

Deadlock is checked in `api`, `front_ends`, `backends` and `bmc`. It is off for the operator
(an object that was deleted and a machine at rest leave nothing to do) and for
the file store (the clock is bounded).

**Fairness.** `FrontEnds`: weak fairness of a request's own steps, except where it is in a call
that only its context ends (`OnlyContextEnds`): dial and login at the storage target, the patches of
Cordon and Uncordon, the drain's pod list and Talos' Shutdown have no deadline of their own, so nothing
makes them return while the client stays connected. Every other call and every wait has a deadline.
`RequestAnswered` accordingly says that a request is answered or stays in one of these calls for ever;
a client's disconnect ends those too. `Operator`: weak fairness of the watcher's poll, of the informer
and of a machine that boots, joins or halts once asked to, and of a reconcile once `stable` holds.
That backends come to answer (`stable`) is the premise of the liveness properties, not an
assumption; it covers the call that is pending at that moment, so a worker that hangs in a dial before it
gets on after it. `Backends` and `Bmc`: the goroutine and its timer; nothing of the target or the controller.
`OperationEnds` thus names the two places where the build and the gate can hang, the dial and the
login at the storage target, and shows that a cancelled operation ends there too. The phases that are
not the gate's are one step in `Backends` and taken to end; `FrontEnds` has those that may not.
`FileStore`: a call goes on, and that fairness is strong because the kernel wakes flock waiters in
turn; only a call that waits for the flock is ever disabled. A failing file operation is never assumed.

## 4. Findings

Five runs show the code doing something other than its documentation or tests say:

1. The operator uses the object's name as the Kubernetes node name and ignores
   `kube_node_name`, which the CLI and the API apply (`operator_remapped`).
2. A wake after an aborted drain can uncordon a machine that is still shutting
   down, as Talos and Ready still answer (`operator_uncordon`).
3. `Converged` can be True beside an observed power that contradicts the spec (`operator_converged`).
4. The server exits after 30 seconds with operations in flight (`api_exit`).
5. Two overlapping `AcquireLock` calls can both succeed (`filestore_race`). No
   command of the repository uses the file store today.

Smaller ones, seen in reading and without a run of their own: `docs/http-api.md:35` gives `500` for a
"backend assembly or lifecycle failure", while `writeOpResult` (`internal/api/api.go:241`) answers a
lifecycle failure, which always has a step, with 409 and keeps 500 for what fails before the first step
(`OpResultCode`); and the `409` of `docs/http-api.md:34`, "operation stopped", is also the answer to a request that finds
the lock taken. UpdateOperation can lose one of two overlapping updates, which no text denies.

## 5. Proofs

**LifecycleProofs** is what the proofs of the three front-ends share. `RunnerInv` says, for each runner,
what its phase may rely on: after the cordon its node is cordoned, after the drain no
pod runs there, after the gate the machine has no session. A step of one runner
keeps these facts of the others if their machines differ (`OthersKept`), and a step of the world keeps
them because a cordoned node gets no pod and without a running pod nothing attaches
(`WorldKeeps`). `ContractOp` and `ContractWorld` map each step to one of `NodeContract` or a stutter.

**ApiProofs**, for any nodes, pods, connections and constants that satisfy the
named assumptions (`WorldAssumption`: node names are injective;
`LifecycleAssumption`: a token matches its own row; `OperateAssumption`;
`ApiAssumption`: connections are runners): types,
`OneActuatorPerNode`, `LockHasOwner`, `SuccessHolds`, `FailedDrainStaysCordoned`,
`PowerPulledDetached`, `ShutdownOnlyDrained`, `ShutdownOnlyDetached`
and `ImplementsContract`. None is inductive. `IInv` adds to `RunnerInv` that the lock of a machine
is held exactly while a request works on it. This is where the lock is needed: without it a
wake could uncordon the node under a drain.

**FrontEndsProofs**, for any machines, connections, shells and pods (also `CliAssumption`: shells
are runners, `FrontEndsAssumption`: no connection is a shell): `FETypeOK`, `SuccessHolds`,
`FailedDrainStaysCordoned`, `ShutdownSafeUnlocked`, `ExitCodeTrue`. There is no lock to keep two
operations off one machine, so `OthersKept` does not apply to a pair that shares its machine.
What takes its place is their direction, which `~Opposed` makes the same: a drain step reopens
no node, starts no pod, opens no session and undoes no shutdown (`DrainEffect`), which is all that another
drain relies on (`DrainsTogether`), and a wake relies only on the uncordon at its end
(`WakesTogether`). `IInv` is therefore `RunnerInv` for every runner, `~Opposed`, and for each shell
that its command works on a machine of the inventory by the name found there and has no exit code
yet (`ShellInv`). That name is the server's because `validateNode` refuses an entry without
`kube_node_name`. TLC checked `IInv` on the instance of `front_ends` and with a second
shell before it was proved. Two more theorems have the premise that nobody runs `nightwatch power`
(`[]NoPowerCommand`), which goes round every gate: then any mix of requests and commands implements
the contract (`ContractUnlocked`) and the power goes only when the sessions are gone
(`PowerPulledUnlocked`).

**OperatorProofs**, for any nodes, objects, pods, workers and edits, provided the inventory
renames no node (`Unmapped`: the run `operator_remapped` shows that the properties fail otherwise):
types, `OffStatusTrue`, `NoDisruptionUnasked`, `SuccessHolds`, `FailedDrainStaysCordoned`,
`ShutdownOnlyDrained`, `ShutdownOnlyDetached`, `ImplementsContract`. (The operator never asks for the
hard-off, its `main` leaves `ForceBMCOff` unset, so that power is pulled from a detached machine only follows from the world's own halt.) In place
of a lock there is the work queue, which gives a key to one worker. `IInv` adds that versions are seen in
order (object, cache, the copy of Reconcile, status: `ObjInv`), that the operation under way is
the one that copy asks for (`RunInv`), that an off once observed still holds when the
status is written (`SeenInv`), what the stored status says of the machine (`TruthInv`), and that any copy
which asks for Off was once stored (`AskedInv`).
`OperatorInvariant` states it and proves it kept by the API server, the informer and Reconcile up
to its decision, `OperatorProofs` by the operation and its return, the status and a failover.

**BackendsProofs**, for any bound on calls: types, `ClearWasTrue`, `NoLeak`. `IInv`
says that every answer under way carries an id not above the current one, that an
answer with the current id answers the current method, and that an answer "absent"
to the current call was true at some moment of the wait.

**BmcProofs**: types and `Spec => A!Spec` for any set of called methods. `IInv` says which
request belongs to which method and driver, that a reading under way was
true during the call, and that an action answered as accepted has been accepted;
`Simulation` maps each step to a step of `Adapter` or a stutter.

**FileStoreProofs**, for any clients, documents, clock bound and TTL: types, `NeverTorn`,
`ExclusionWithoutOverlap`, `NoLostUpdate`, `ImplementsRecord`. The first and the last rest on
`FlockInv`: who holds the flock is in the middle of writeJSON, and before the rename the
temporary file is exactly that writer's document. The two statements about calls
that do not overlap rest on `SoloInv`: a live lease is the one in the file,
what a call has read is still there, and what is about to be written contains what is
stored. Each step is then a begin, commit, abort or removal of `Record`, or a stutter (`EffectIsStep`).

Every safety invariant and action property of the passing runs is thus proved. Only model-checked:
liveness under fairness, which is outside the prover's reach (`RequestAnswered`, `ConvergesOff`,
`ConvergesOn`, `StatusSettles`, `OperationEnds`, `CallReturns`).

## 6. Not modelled

- The simulators (`internal/sim`, `cmd/nightwatch-sim`): test doubles that take part in no
  operation. The models' own environment refuses, delays and garbles where they answer.
- Generated deep copies and scheme registration; metrics, dashboards and manifests.
- `ApplyBMCCredentialsFromEnv`, and what `status` and the plans print: nothing in the models depends
  on them.
- `ListOperations` and `ListDesiredPower`, which read a directory record by record and change nothing.
- Message texts, XML, JSON and URLs beyond the value they carry.
- Power actions that take effect long after the call, in `Lifecycle` (`Adapter` has them): an AMT job
  that starts during a later operation could contradict it, and no code waits for it except
  `waitPowerOff`.
- Two objects that compete for one worker: safety is proved for any number, but the behaviour
  graph of a liveness run with two machines is too large for TLC.
- An operator beside a server or a command on the same machine. It would add an actor that reverses
  the others whenever its object asks for the opposite; what is checked of `FrontEnds` holds only
  without opposed operations.
