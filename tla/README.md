# A verification of celily in TLA+

celily runs a command in a fresh LXD/Incus instance whose network is closed:
the instance's only NIC is on a bridge of its own, whose ACL lets out traffic to
an HTTP proxy and a DNS proxy that run inside celily, and to the TCP
destinations of the configuration. When celily exits, everything it created is
deleted by RAII guards. This directory models the parts where the order of
steps, failures and concurrent runs decide whether that is true, checks the
models with TLC on small instances, and proves the main properties with TLAPS
for every value of the constants.

## The system

| Component | State it keeps | Operations | What it talks to | Hard because | Correct when |
|---|---|---|---|---|---|
| Instance lifecycle (`celily-lib/src/instance`) | a typestate: Prepared, Initialized, Running | init, start, exec, drop | LXD backend, network isolation | concurrent branches, errors anywhere, kills, shared names | an instance is never up off its closed bridge; a launch settles; nothing leaks |
| RAII guards (`guard.rs`, `bridge.rs`, `acl.rs`, `proxelar.rs`, `util.rs`) | one resource each | drop | LXD, file system | order of drops against what the daemon refuses | each resource deleted by its owner only |
| Network isolation (`network/mod.rs`, `lxd/network.rs`) | bridge, ACL, rules, proxies | setup | LXD, secrets, proxies | `join!` with a failing branch | no half-configured bridge is used |
| LXD backend (`backend/lxd`) | none | one `lxc` command per call | the daemon | failing commands | - |
| HTTP handler (`network/handler.rs`) | rules, secrets, a counter per rule | handle_request, handle_tunnel | proxelar | clones on many threads, a non-monotonic clock, hostile-looking paths, overlapping rules | only what a rule permits goes out; quotas hold; a secret goes with its rule only |
| DNS handler (`dns_handler.rs`) | allowed names | handle_query | proxelar, the bridge's dnsmasq | a proxy that stops, a resolver behind it | only names of HTTP rules resolve |
| ACL rules and subnet (`network/rule.rs`, `params.rs`, `backend/lxd/acl.rs`, `backend/mod.rs`) | the ACL of the bridge | build_rules, has_instance | LXD | an empty list of ports means any port; a mask of no bits | TCP rules and the proxies, nothing else |
| Proxy startup (`proxelar.rs`) | two tasks | start, wait, abort | proxelar | tasks that stop around a check, a port that is taken | a stopped proxy is noticed; waiting ends |
| Sandbox remote (`celily/src/git_remote.rs`) | a section of the host's git config | register, unregister | git, other runs, the user | a section written one command at a time by several writers | hardened while used, removed after, the user's left alone |
| Orchestration (`main.rs`) | - | the whole run | everything | order, any step failing | a session runs where and as it was checked |
| Worktree (`validate.rs`, `main.rs`, `worktree-init.sh`) | the host's branch, a clone in the instance | check, clone, switch, fetch | git, the remote, other sessions | git settings of several scopes, the user's environment, a branch that changes meanwhile | the command runs in its clone; a fetch loses no commit; no URL git was not to run |
| Configuration (`config/mod.rs`) | files | select a profile, walk its inheritance, merge | file system | unordered tables, cycles, opposite precedence of options and lists | the deepest directory's profile, all it inherits, the child's values |
| Mounts and sockets (`context.rs`, `validate.rs`) | files | canonicalize, check | file system, LXD | symlinks that earlier sandboxes left behind | what is mounted is what the owner listed, nothing forbidden |
| Network rules as configured (`config/network.rs`) | none | check, convert | the handler | lists that read as "none" where a missing one is a default | every rule converted or the launch refused, and only for a rule without use |
| Secrets | resolved values | resolve | `rbw` | one of several failing | in the header of their rule |
| Command runner, naming, limits, distro | none | one call each | processes | - | - |

Components share little memory: the runs of celily are processes that share
the LXD daemon and the git config, and inside a run the proxies' tasks share
one mutex per rule with nobody else.

## The modules

| Module | Models | Source |
|---|---|---|
| `LxdDaemon` | what each `lxc` command does to instances, bridges and ACLs | `backend/lxd/{instance,network}.rs`, the daemon |
| `Guards` | the guards a run holds, their order, and what dropping each does | `guard.rs`, `bridge.rs`, `acl.rs`, `proxelar.rs`, `util.rs` |
| `Isolation` | `NetworkIsolation::setup` and `create_bridge`, step by step | `network/mod.rs`, `lxd/network.rs`, `proxelar.rs` |
| `Lifecycle` | runs from `init` to the last guard; composes the three above | `prepared.rs`, `initialized.rs`, `main.rs` |
| `Sandbox` | the promise of a run: an instance that is up behind closed walls only, and nothing left behind | (abstract) |
| `RequestQuota` | the promise of a quota: windows, at most so many requests in each | (abstract) |
| `QuotaWindow` | the mutex, the clock reading and the counter that implement it | `handler.rs` |
| `RequestPath` | which paths a rule with `path_prefixes` lets through, and how servers read them | `handler.rs` |
| `PathPrefix` | every path, a symbol at a time, against the prefixes of the rules | `handler.rs` |
| `ProxyStartup` | `wait_until_ready` against the two proxy tasks | `proxelar.rs` |
| `EgressPolicy` | the network rules from the configuration file to the proxy's handler, the DNS proxy and the ACL, and the traffic they meet | `config/network.rs`, `handler.rs`, `dns_handler.rs`, `rule.rs`, `params.rs`, `backend/mod.rs`, `lxd/acl.rs`, `lxd/network.rs`, `network/mod.rs` |
| `SandboxRemote` | `register` and `unregister` of several runs, and the user | `git_remote.rs`, `util/git.rs`, `main.rs` |
| `WorktreeSession` | a whole run in worktree mode: the checks on the host, the environment, the script in the instance, fetches | `main.rs`, `validate.rs`, `context.rs`, `lxd/instance.rs`, `worktree-init.sh` |
| `ProfileChain` | the selection of a profile, the inheritance walk and the merge | `config/mod.rs`, `main.rs` |
| `MountPolicy` | the project's mount and the checks on the other mounts and proxied sockets, over sessions whose sandboxes plant symlinks | `validate.rs`, `context.rs` |
| `MCLifecycle`, `MCQuotaWindow`, `MCSandboxRemote` | symmetry for TLC | |
| `MCEgressPolicy`, `MCPathPrefix`, `MCWorktreeSession`, `MCMountPolicy` | the rule lists, requests, prefixes, git settings, places and layouts of the runs | |
| `LifecycleProofs`, `QuotaWindowProofs`, `RequestPathProofs`, `PathPrefixProofs`, `ProfileChainProofs`, `EgressPolicyProofs`, `WorktreeSessionProofs`, `MountPolicyProofs` | theorems and proofs | |

`LxdDaemon`, `Guards`, `Isolation` and `Lifecycle` extend one another in that
order: each adds its variables and its actions. `EgressPolicy` extends
`ProxyStartup`, whose steps are its `Proxies`, and `RequestPath`, whose operators
`PathPrefix` is about too; `WorktreeSession` extends `SandboxRemote`, whose steps are its
`Register` and `Unregister`. `QuotaWindow` instantiates `RequestQuota` with
`window <- index, returns <- descents`, and `Lifecycle` instantiates `Sandbox`
with what a run's instance (`BoxOf`), network (`WallsOf`) and end (`OverOf`) come
to: an instance is made once its creation succeeded, its walls are what its NIC
is on, or what is built of the bridge before there is one.

How state corresponds. In `Lifecycle`, `pc[r]` is the typestate and the await
the run is at, `iso[r]` the await inside `setup`, `pending[r]` and `failed[r]`
the branches of the two `tokio::join!`s, `held[r]` the guards alive, `order[r]`
the order they will fall in, `inst`, `net` and `rules` the daemon. One action is
one command or one await with its success and its error: `Create`,
`SetupIsolation` (which is `CreateBridge` ... `WaitUntilReady` and
`UnwindIsolation`), `AddDevice`, `Joined`, `Attach`, `Start`, `Poll`,
`Provision`, `Leave`, `Teardown`. In `QuotaWindow`, `Lock`, `ReadClock` and
`TryTake` are the three moments of the quota check in `handle_request`; the
argument `unix_now_secs()` is evaluated after the receiver is locked. In
`SandboxRemote`, each `git config` is an action: `Look`, `Replace`, `Write`
(one setting), `LookAgain`, `Remove`. In `ProxyStartup`, `Check`, `Connect`,
`Recheck` and `Sleep` are the iterations of the loop. In `ProfileChain`,
`Consider` is an iteration over the `HashMap` of entries (any entry not seen
yet), `Walk` one of the loop that collects `chain`, `MergeNext` one of the loop
that merges it from its end; what a file holds is chosen when it is read. In
`MountPolicy`, `link` is the file system's symlinks, `FollowOne` one step of
the kernel's path resolution (a symlink or `..`), `Canonicalize` the whole of it
for a path as it is written, with a slash at its end (an empty last component) or
without, `Ancestors` the walk of `canonicalize_in_home`, and `ReadAllowlists`,
`CheckMount`, `CheckSocket` the parts of `resolve_context` that may refuse;
`Create` and `Connect` are LXD resolving the accepted paths again.

In `EgressPolicy`, `setup` is what a launch is configured with. `Convert` is
the loop of `resolve_context` over `[[network.allow]]`, `SetUp` stands for
`NetworkIsolation::setup` (of which `Isolation` has the steps). Then the
instance acts: `Handle` is `handle_request` on a request, with its early returns
in the order of the code (`Refusal`), the first rule that matches (`Position`),
that rule's quota, and the headers the request leaves with (`Forward`); `Send`
is a packet past the proxy meeting the ACL; `Lookup` a query through the
dnsmasq of the bridge to `handle_query`. `out` is the one event that is on the
network, `used` what each rule's quota has counted. In `WorktreeSession`,
`phase[r]` is where `run` is before and after the remote's commands, `Check`
what `validate_worktree_preconditions` and the identity decide, `Prepare` the
launch and the pre-run scripts, and `ShowRef` ... `Switch` the commands of
`worktree-init.sh`; `Fetch` is the user's `git fetch celily/<name>`.

The variables marked "history" (`broken`, `descents`, `granted`, `verdict`,
`faulty`, `raced`, `missed`, `setters`, `reached`, `served`, `base`) exist for the properties:
no action of the code reads them, and they restrict no step. `setBacks` also
carries the bound MaxSetBacks on the clock.

Assumed of LXD: a name is taken once, a command on something that is not there
fails, a failing command changes nothing, and a bridge with a NIC on it or an
ACL a bridge applies cannot be deleted. Assumed of git: a command takes effect
at once or fails and changes nothing. Assumed of proxelar: a proxy binds, then
serves, and may stop or hang at any time.

## The runs

| Run | Instance | Checks |
|---|---|---|
| `lifecycle` | 2 runs, 1 name, 2 rules, 1 device, 1 poll, kills, `--keep` or not | `UpIsConfined`, `NoLeak`, `OwnerInv`, `DeletesOnlyOwn`, `ImplementsSandbox` |
| `lifecycle_live` | 1 run, 2 rules, 2 devices, 2 polls, kills, an instance that disappears under the run | `NicIsConfined`, `LeakInv`, `LaunchSettles`, `UnwindEnds` |
| `quota` | 2 handlers, 2 requests per window of 2 s, 5 s, 2 set-backs | `QuotaInv`, `QuotaBound`, `ImplementsQuota` |
| `egress` | lists of up to 2 rules out of 14, subnets of 0 to 4 bits on addresses of 3, a provider of secrets or none, a timeout of 1 pause | `StopIsNoticed`, `PolicyInv`, `OnlyConfiguredEgress`, `SecretsToTheirRule`, `NoSecondChance`, `RefusesOnlyDead`, `ServedIsInstance`, `SetupEnds` |
| `worktree` | 2 runs of one worktree name, the user, failing commands, kills; every pair of 36 git settings | `RemoteInv`, `Hardened`, `NoStaleRemote`, `UserRemoteKept`, `SessionInv`, `CommandInClone`, `SessionAsMeant`, `ExtPolicySound`, `FetchedKept` |
| `paths` | every path of up to 7 symbols that starts `/x`, 11 symbols, 6 prefixes | `StaysUnderPrefix`, `RefusedForAReason` |
| `profiles` | 3 valid names, 1 invalid, 2 entries, depth 2 | `SelectsDeepest`, `MergesLineage`, `ChildWins`, `ChainInv`, `RefusesOnlyUnsound`, `LoadingEnds` |
| `mounts` | any number of sessions, 1 mount besides the project's, a socket or none, 3 layouts, 4 allowlists, 3 forbidden directories, 2 planted symlinks at a time | `MountsAsListed`, `NothingForbidden`, `SocketSettled` |
| `remote_replaced` | 2 runs, no failing commands | violates `RemovesOnlyOwn` |
| `remote_half_registered` | 1 run, failing commands | violates `RemovedOnExit` |
| `worktree_git_writable` | as `mounts` | violates `GitNeverWritable` |
| `mounts_trailing_slash` | as `mounts` | violates `ListedOnly` |

Why the bounds are enough. Two runs of one name have every conflict the code
can have: one creates first, the other fails, or comes after the first is gone.
Runs meet only in an instance name, so a second name would add only runs that
do not interact. Two rules make "some but not all rules" occur; one device and
one poll are enough for both outcomes of each loop where liveness is not the
question. Two handlers contend for the mutex while the clock crosses two window
boundaries, a third would wait like the second; two requests make a window
that is partly used, and two set-backs come before and after a boundary. A path of
seven symbols holds `/x/` and a dot segment half of which is escaped twice; the
symbols are the characters the code tells apart, one other, and the escapes of
the former; the prefixes end with a slash or not and hold an escape, a `\` or a
parameter, which servers read differently.
Three valid names and an
invalid one make every shape of an inheritance table: straight, cyclic, cyclic
after a tail, ending in an invalid name; two entries make every order and every
tie. In `mounts` the places are one of each kind the code tells apart (a
directory to mount, one inside it, three forbidden ones, one that a symlinked
layout puts one of them in, the directories that hold one, a file, sockets in and out of the mount, a symlink outside of the
home directory), and the paths go through each of them, `..` included; two
allowlists have an entry that ends in a slash, one where a sandbox can replace what
it names and one where none can, and a mount is written so too; mounts
are checked one by one against the same lists, so one besides the project's is
enough; two symlinks at a time let one lead through another, and since every
session ends where the next begins, they may come from different sessions. In
`egress` the rules pairwise overlap, repeat a host in another case, share a
secret's header or differ in one field; a second rule is what can shadow or
take over from the first, and a third would be to the second what that is to the
first. Each rule that has to be refused comes alone and with every other one.
Three bits hold every relation of a subnet, its gateway and a client; prefix
lengths go from none of the bits to more than there are. Some combinations are
left out: subnets vary with one rule only, which no part of the code relates.
In `worktree` the settings are the two keys in three scopes (one a submodule
does not read, two it does), with the three values, another case of two of them
and a value git does not know; two settings show every order and every hiding.
Only one setup goes through the whole session, with an environment in which the
user sets every variable the script reads; what the others vary is decided
before the remote exists.
Two runs and the user are everyone who can come between two git commands of one
run; the proofs cover any number. Symmetry is used over runs, names and
handlers, which no definition tells apart, and never in a run with a liveness
property.

What they show. An instance is up only on its own run's closed bridge - default
reject, ACL applied with every rule, DNS filtered - at every point of every
interleaving, after a kill too. Every deletion that the daemon refuses is
refused for good only if a command failed by itself: the declared order of the
fields is right, and both the reversed one of `LxdBridgeGuard` and a guard made
before its resource are caught. A run never deletes another's instance while
nothing disappears under live runs. Quotas hold with one more allowance per
set-back of the clock. A path a rule lets through stays under its prefix for
every way of reading it that `may_escape_prefix` names. A registered remote
always carries all of its settings. A run gets the profile of the deepest
directory that has one, merged over everything it inherits, or nothing at all.
Whatever sandboxes left behind, a later session mounts only what its owner
listed, where the owner put it, as long as no directory that is a symlink, or that a
sandbox can replace by one, is listed with a slash at its end; with such an entry or
without, it never mounts what holds,
or lies in, a forbidden directory, and the socket it reaches is the one that was
checked. What leaves an instance - a
request, a packet, a name - a rule of the file permits, also when a proxy has
stopped; the first rule that matches decides, and no later one lets out what its
quota stopped; a secret leaves in its rule's header only, whatever the client
sent; the proxy serves its subnet and nobody else, for every prefix length; a
rule is refused only if nothing could have matched it. A worktree session starts
only where git runs the ext URL it is given and none that it finds; its command
runs in the clone that the remote fetches from, whatever the environment; and a
fetch drops nothing the host's branch had when the session began, unless the
branch changed while it was cloned.

Where code and text differ (the four violation runs): `canonicalize_in_home`, said
to refuse a path that goes through a symlink in the home directory, does not see one
at the last name of a path that ends in a slash (`absolute` keeps the slash, `lstat`
follows the name before it, and the next ancestor is the parent already), so a sandbox
that may replace a directory listed as `~/work/sub/` chooses what the next session
mounts for it; `unregister` may remove a
remote that another run has just put there; a registration that fails half-way
leaves its remote behind; a worktree session, said never to mount `.git`
read-write, does when a mount of the configuration names the project again. Met
while modelling, without a run of their own:

* the manual's bound of a quota, "Maximum number of HTTP requests allowed in the
  time window", does not survive a clock that is set back: the count starts again,
  and `QuotaBound` says that each set-back costs at most one more allowance;
* the comment on the drop order of `LxdBridgeGuard` ("acl drops first, then
  bridge") is the wrong way round; the code's order is the one that works, and
  the commented one is the mutant of `NoLeak`;
* `NetworkIsolation`'s doc asks that the instance guard be dropped first, and
  when `init` fails after the isolation is set up the bridge is dropped before
  the instance (harmless: the instance is not attached then, and `NoLeak`
  covers it);
* `start` is documented to return once the HTTP proxy accepts connections, but
  another process that listens on the port may accept the connection while
  celily's own task has not yet failed to bind (`ProxyStartup` has that step);
* a comment in `config/network.rs` says that `path_prefixes = []` "would allow
  all of them"; `rule_matches` would let no path through, as the doc of
  `NetworkRule` says. The configuration refuses the empty list anyway;
* the manual says that the ports of a TCP rule must be non-empty; a rule without
  ports is accepted and left out of the ACL, which lets nothing out
  (`AllowTcp`, and `OnlyConfiguredEgress` when it is not left out).

### Fairness

`LaunchSettles` and `UnwindEnds` assume weak fairness of each run's own steps:
a process that is not stopped goes on, and every command ends. It is not
assumed of `Leave` (the user's command may run for ever), of `Kill` or of
`Disappear`. `SetupEnds` assumes weak fairness of celily's own steps, which
are the conversion of the rules, the setup and the task that waits for the
proxies; the proxies may hang. `LoadingEnds` assumes that a sequential program
goes on. The daemon and git are assumed to answer; the code sets no
timeout on a command.

## The proofs

Every theorem holds for any number of runs, names, rules, handlers, entries,
sessions, mounts and symlinks, any timeout, any window and any limit, any rules,
paths, requests, clients, git settings and file systems, within the assumptions named
below. TLC evaluates the assumptions for the instances of the runs.

* `QuotaWindowProofs`. `QuotaInv` is the inductive invariant: the holder of
  the mutex is the only handler past `Lock`; every move of the index to an
  earlier window, done or due, is paid for by a set-back; and what a window
  was granted is bounded by the allowances since. The bound on `granted`
  alone is not inductive: it needs `DescentsPaid`, which looks at readings
  taken and not yet counted. `QuotaBounded` and `QuotaRefinement` follow. The
  abstract quota gets one more allowance per set-back, which `DescentsPaid`
  says is enough.
* `LifecycleProofs`. `NetInv` says what is built of the network at each stage
  of setup (`BridgeBuilt`), where the two state machines can be together
  (`StagesAgree`), and `NicIsConfined`; the last is not inductive by itself,
  because `AddNic` is safe only if `iso = "ok"` means a closed bridge. It
  holds with instances disappearing at any time. `OwnerInv` adds that a guard
  means ownership, and needs `Vanish = "ended"`; `UpConfined` and `DeletesOwn`
  follow from it. The assumption is a real limit: the guard deletes by name.
  `NoLeak` speaks of runs that have exited, so it says nothing
  of a step. `LeakInv` does: whatever the daemon or the host has of a run, the
  run holds a guard of (`Guarded`), until the guard has fallen or a deletion has
  failed by itself; a bridge is deleted after the NIC of its instance and before
  its ACL, because the order in which guards are held allows no other. It is
  inductive with `NetInv`, whoever deletes instances. A step of one run leaves
  what `Guarded` says of the others as it was or makes it less (`Framed`), so each
  action is looked at for its own run only. `NothingLeaks` follows. Then every run
  implements `Sandbox` (`SandboxImplemented`), step by step, by `LeakInv` and
  `OwnerInv`, hence with `Vanish = "ended"`. `SandboxNeverExposed` is what that is
  good for: an abstract sandbox that is up has closed walls, also after its run.
* `ProfileChainProofs`. `ChainInv` has three parts. `SelectInv`: every entry
  read so far is no deeper than the best match. `WalkInv`: the names met are on
  the line of inheritance (in every set that holds the profile and is closed
  under parents), and they are closed but for the name the walk is at.
  `MergesLineage` follows when the walk ends at a root, since a closed set
  holds the line; `RefusesOnlyUnsound` when it meets a name again, since then
  the names met are a closed set without a root. `MergeInv`: no profile still
  to be merged has set anything, which makes `ChildWins` inductive; it needs
  that no name is on the chain twice.
* `RequestPathProofs`. `PrefixHolds` is about every path and prefix and each of
  the readings of both. Splitting and decoding go piece by piece
  (`SegmentsJoin`, `DecodeJoin`): cut a path at a slash, and what they make of the
  whole is what they make of the parts, put together (`ReadJoin`). A dot segment that
  a server finds has a separator or an end of the path on either side, and so
  has what it is decoded to (`SegmentAround`, `ParamsAround`, `DecodeAround`),
  whether the server decodes first or splits first; since no `%` is left after decoding
  once, decoding twice is decoding once (`DecodePlain`). So `may_escape_prefix` finds the
  dot segment too (`DotFound`, `DotAround`), and a path it lets through has none
  for any server (`NoDots`). Without one, resolving a path appends its segments
  (`PlaceDirect`), those of the prefix first, because the prefix ends where a slash
  does (`SlashAfter`). The recursion is written out: a recursive function exists
  by the least place where it would not (`Least`, `Recursion`), and two that go alike are
  one (`OneFunction`). `EscapesAssumption` says that a digit pair is not one of the
  characters that the code tells apart.
* `PathPrefixProofs`. The visited path is a path (`PathInv`). `StaysUnderPrefix`
  is then `PrefixHolds`; `RefusedForAReason` names the server that decodes once, then splits
  at both slashes and drops parameters (`RefusedFor`).
* `EgressPolicyProofs`. `PolicyInv` has four parts: the library's rules, the
  ACL and the directives are those of the file from the moment they are set up
  (`Configured`); what a quota counted is what went out in its window
  (`QuotaKept`, which gives `NoSecondChance`: the rule a request belongs to by
  the manual is the rule whose counter it moved); what has left belongs to
  a rule (`SentByRule`); and what was answered was answered by its address
  (`ServedByAddress`). `EgressConfigured` adds what servers make of a path, by
  `PrefixHolds`. `InstanceServed` compares the mask of `has_instance` with an
  interval of numbers, bit by bit from the lowest (`Compared`): in the bits
  past the prefix length the network is 0 and the address less than the next power
  of two; from there up the address is in the interval as long as the bits agree, and beyond
  it, on one side, once they do not. `SecretsStay` needs that the headers
  are built in the order of the code: a client's header of the same name is
  replaced, whatever its case. It is proved under `SecretsUnknown` (no client and
  no static header has a secret for its value). `OnlyDeadRefused` is about
  `Valid`: what the conversion refuses, no request matches, with and without a
  port. `StartupInv` is the invariant of `ProxyStartup` (what had stopped when the
  connection was accepted has still stopped at the second look); a run implements
  `ProxyStartup` (`RunImplementsStartup`), so `StopNoticed` holds for it too
  (`RunNoticesStop`). `EgressAssumption` types the launches; `RequestAssumption`
  says that a request's headers are a function on all names the rules may set, and
  that the host in a URI has no colon outside of brackets, as its grammar has it.
* `WorktreeSessionProofs`. First the remote by itself. `RemoteInv` says that the
  settings a run has written since its URL are there as long as the URL is.
  `Hardened` follows; `NoStaleRemote` and `ActsOnOwn` (what a run is about to act
  on is not the user's) are inductive with it, and the latter gives
  `UserRemoteKept`. Then every step of a session is a step of `SandboxRemote`
  or leaves its variables alone (`SessionImplementsRemote`), so what is proved
  of the remote holds in a session (`SessionHardened`, `SessionLeavesNoRemote`,
  `SessionKeepsUserRemote`). `SessionInv` is
  inductive as stated; it ties the phase to the clone and says that the clone
  holds what it is based on, from which `CommandConfined` and `FetchKeeps`
  follow. `MeantSession` is about the environment the script reads, in any order
  in which the user's variables and celily's are set. `TransportChecked` compares
  the two `git config` commands of the check with what git does of its settings
  in all scopes, for any number of settings in any order: the last setting of the
  scopes that count is the one of both. `SessionAssumption` says that comparing
  without case leaves `user`, `always` and `never` alone.
* `MountPolicyProofs`. The danger is the next session: a symlink left behind that
  a listed path, a forbidden directory or a socket then goes through. `MountInv`
  says that the links differ from the owner's only below places that may be mounted
  (`LinkInv`), that what is checked or attached may be mounted (`SourceInv`), and
  that nothing the session can write holds its socket (`SocketInv`). What
  makes it inductive is the way to a forbidden directory (`WayIsSafe`): each place
  on it is above the directory, which `Forbidden::check` refuses for a mount where
  the directory is, and where the owner has it behind a symlink, the exact
  entries (the home directory, the configuration, `~/.local`, `~/.local/share`)
  refuse what holds the symlink. So no sandbox ever touches that way, forbidden
  directories stay where the owner has them (`ForbiddenStays`), and
  `NeverForbidden` follows. Without the exact entries the invariant is false: a mount
  of `~/.local/share` lets a sandbox swap the symlink to the keyrings for
  another, and the next session looks for them elsewhere.
  `MountsListed` and `SocketStays` need that a path that goes through no symlink in
  the home directory (`Crosses`, which looks at every name) leads where it leads by the owner's layout (`LeadsAsMeant`),
  through symlinks outside and `..`; the proof follows both
  resolutions side by side, one turn at a time (`NextStage`), and needs the first
  turn of a path, which exists by well-foundedness of the natural numbers
  (`Least`). `ListInv` adds to `MountInv` that a session that is past its
  allowlists has no owner's symlink in an entry that the walk of
  `canonicalize_in_home` finds. Where a path ends in a slash, that walk stops before the
  last name (`LastName`): what is before it leads where it is meant to, and the name
  is a symlink only where the owner has one or a sandbox may put one
  (`MayBeFollowed`). That is the exception `MountsAsListed` makes, and
  `CanonicalAsMeant` proves that there is no other; without an entry that ends in a
  slash the theorem says what `ListedOnly` does. A socket written so is a directory,
  which no connection reaches (here the proof alone says so: the run's sockets have no
  slash).

  Its assumptions are its limits. `MountAssumption`: the places are a tree of
  directories, files and sockets, the configuration directory is right below the home directory or outside of it.
  `OwnerAssumption`: the owner has a forbidden directory where its name says, or
  behind one symlink of that name (not behind two, nor behind one of a parent); a
  symlink outside of the home directory leads to the home directory itself or stays
  outside of it. `ListsAssumption`: what the owner lists is there,
  and so is what holds it. The model has
  these owners only, for TLC as for the proofs.

Only model-checked are the liveness properties (`LaunchSettles`, `UnwindEnds`,
`SetupEnds`, `LoadingEnds`): fairness and ENABLED are beyond the prover. The
violation runs are counterexamples and need no proof.

## What is left

Every safety property that a passing run checks has a proof. A proof of the liveness
properties is left to a prover that handles fairness.

Not modelled, and why:

* the command line, which clap parses, and the text of `lxc` commands and their
  output: wording, without state of its own;
* the mock backend, a test double;
* the command runner, user, image and instance names, limits and the distro
  table: one call or one string each, of which the models take only that a
  command may fail and that names may collide;
* certificates, terminal handling and `handle_response`, which change nothing
  the properties tell apart;
* the proxies themselves, git, LXD and dnsmasq, which are not in the repository;
  what is assumed of them is stated where it is used;
* in `context.rs`, the options that are one value with a default;
* changes of the git configuration during a session: the transport's policy is
  checked once, with two `git config` commands, before anything else;
* two sessions at a time in `MountPolicy`: a sandbox that is still up can swap
  an entry between a check and LXD's use of it, a limit that
  `canonicalize_in_home` names itself.
