# Artemis-Switch in TLA+

Artemis-Switch is a GameStream client (Sunshine, Apollo, GFE) for the Nintendo
Switch and other platforms. It finds and pairs hosts, reaches them on the LAN or
through a tunnel (WireGuard, NetBird, Tailscale), launches an application and
shows the decoded video. This directory models the parts of it where threads,
callbacks and failures meet, checks them with TLC, and proves the central
invariants with TLAPS. `PROJECT.json` is the machine-readable index: components,
runs, mutants, the map from definitions to source lines, findings, hazards and
theorems.

Paths below are relative to `src/app/src` unless they start with `src/`.

## 1. The system and its parts

| Component | State | Operations | Interacts with | Module |
|---|---|---|---|---|
| `remote_access/RemoteAccessManager` | active provider id, provider generation, map of reference-counted route entries, three kinds of mutex, one condition variable per entry | select/stop a provider, activate, join, release, prepare a route | called by leases from worker threads and by settings/start-up/exit; calls the provider | `RemoteAccessManager` |
| `remote_access/RemoteRouteLease.hpp`, `RemoteRouting.cpp` | one lease: provider, peer, address, active, refused | acquire, move, assign, release, prepare | `GameStreamClient`, Add Host probe → manager | `GameStreamRoutes` |
| `streaming/GameStreamClient` | `m_server_data`, `m_active_addresses`, `m_active_routes` | connect, wake_up_host, cancel pairing, prepare stream, start, quit, quitNow | worker threads (`brls::async`), UI completions (`brls::sync`) | `GameStreamRoutes`, `StreamSession` |
| `add_host_tab.cpp` peer probe | probe generation | probe a peer through a short lease, connect | manager (`hasActiveRoute`), client | `GameStreamRoutes` |
| `streaming/AVFrameHolder` | frame deque, cell pool, frame on screen, pacing state, statistics | configure, push, pushTransferred, pop, acquire/recycle write frame, cleanup | decoder thread pushes, UI thread pops and draws outside the lock | `FrameQueue` |
| `streaming/MoonlightSessionLegacy.inc` | `m_active_session`, `m_is_active`, `m_is_terminated`, `m_restart_in_progress`, `m_stop_requested` | start, stop, restart, destructor, Limelight callbacks | owned by the view, found by Limelight threads through the global pointer | `StreamSession` |
| `streaming_view.cpp` | terminated, teardownStarted, pending flags | open, connect/start completions, terminate, finishTeardown, focus loss, window close, destruction | owns the session | `StreamSession` |
| `streaming/ffmpeg/FFmpegVideoDecoder` | decoder, zero-copy flag | get_frame, drain_frames, cleanup, submit_decode_unit | frame queue; restarts the session on an error | `FrameQueue`, `StreamSession` (its use of both) |
| `vpn/WireGuardManager`, `vpn/wg_nx_real`, `remote_access/providers/WireGuardProvider` | tunnel status, relay, active target, media ports | enable, disable, activate, prepare, deactivate | called under the manager's `operations` mutex; binds the loopback ports | `WireGuardProvider` |
| `remote_access/providers/NetBirdProvider`, `utils/NetBirdManager` | provider state with active peer, peer cache, the library's list and proxies | start, stop, pump, refresh, activate, prepare, deactivate; redirection of `gs_init` | two clients of one libnetbird; binds the same loopback ports | `NetBirdProvider`, composed in `TunnelProviders` |
| `remote_access/tailscale/TailscaleCore`, `TailscaleControlSession`, `TailscalePeerDirectory` | control session, home region and endpoints told to the server, peers, active route | connect, register, poll, reconnect, advertise, publish, activate, stop | worker thread, route calls under the provider's mutex, path thread | `TailscaleCore` |
| `remote_access/tailscale/TailscaleStateStore` | state file, `.bak`, `.tmp` | save, load | the worker, before the first session | `StateStore` |
| `remote_access/tailscale/TailscaleWgxRoute`, `wgx_adapter`, `relay/TsLwipRelay`, `TailscaleDerp` | tunnel, DERP session, loopback relay, published peer, media flag | activate, prepare, release, stop; read, reply, inject, send | route calls under the provider's mutex; DERP reader, UDP thread, WireGuard's worker | `TailscaleRoute` |
| `remote_access/tailscale/TailscaleDisco` (`DirectPath`), `TailscalePathManager` | candidates, outstanding pings, best endpoint, reported path | start and stop of a route, heartbeat, pong, report | UDP thread, DERP reader, control loop | `TailscaleDirectPath` |
| `streaming/StreamConfigProfileStore`, `utils/Settings`, the session backup in `streaming_view.cpp` | profiles, profile per host, settings files and their backups | create, duplicate, import, remove, select; backup, apply, restore | view, settings pages, in-game overlay | `ProfileSession` |
| discovery, pairing, input, telemetry, benchmark, UI, forwarder, crypto | see `PROJECT.json` | | | not modelled (section 8) |

What makes these parts hard, and what they promise:

* **Route manager.** A blocking provider call runs between two critical sections
  of `mutex_`; meanwhile the entry may be retired by an activation for another
  peer, or the provider restarted. Correct means: the map never holds an entry
  of a stopped provider; an exclusive provider has one route; every waiter is
  woken; every proxy that runs has an owner; counts and leases agree.
* **Client routes.** Leases travel between worker jobs, maps and a clearing
  worker, while the manager may lose every route at any time. Correct means: no
  route outlives its leases, and the address and the lease of a host agree.
* **Frame queue.** `AVFrameHolder::get` draws outside the lock. Correct means: a
  cell has one owner, the drawn cell is not reused, frames play in order, every
  frame is accounted for, memory is bounded, and a held frame is released.
* **Stream session.** Limelight threads find the session through a raw global
  pointer while the UI thread tears it down, and a start in flight survives the
  view. Correct means: no session under destruction is published, a stopped one
  stays inactive, a dead stream closes, a restart settles.

* **Tunnel providers.** NetBird's provider and `NetBirdManager` drive one
  library without a common lock, and both tunnels want the same loopback ports.
  Correct means: one provider at a time, an answer that is true of the relay,
  a route only to the peer that holds the address now, no proxy left after a stop.
* **Tailscale core.** Three threads write to a session that a fourth party may
  drop and that `stop` interrupts. Correct means: an update goes to a live
  session, core and server agree on the advertised region, the login key is sent
  once, `stop` returns.
* **Tailscale route.** A call builds and takes down what three threads are using.
  Correct means: an activation that answered true is served by the packet path,
  nothing is freed or closed under a thread, replies of a handshake are accepted,
  and no teardown waits for a thread that waits for the network.
* **Tailscale identity.** Losing the file registers a new device. Correct means:
  whatever fails or crashes, a registered identity is still on disk and used.
* **Direct path.** UDP answers are lost, late or come from elsewhere. Correct
  means: packets leave the relay only for a proven endpoint, and the reported
  path is the used one.
* **Profiles.** A stream changes global settings for its duration. Correct means:
  it gives them back, and a kill does not lose the user's values.

The hazards at their source lines, each with the properties that would catch it,
are listed in `PROJECT.json`; the ones without a property say why.

## 2. Modules

| Module | Contents |
|---|---|
| `RemoteAccessManager` | the manager with its locks, clients inside calls, lifecycle threads, providers |
| `RemoteAccessManagerProofs` | theorems about it |
| `GameStreamRoutes` | leases, jobs and maps of the client; a manager call is one step here |
| `FrameQueue` | the decoded-frame queue, decoder and drawing thread |
| `FrameQueueProofs` | theorems about it |
| `StreamSession` | view, session, starts in flight, Limelight threads, decoder restart |
| `StreamingProofs` | theorems about `StreamSession` and `GameStreamRoutes` |
| `WireGuardProvider` | tunnel and relay of the WireGuard provider |
| `NetBirdProvider` | NetBird provider, its pump and cache, `NetBirdManager`, libnetbird |
| `LoopbackPorts` | the GameStream ports of 127.0.0.1 both compete for |
| `TunnelProviders` | the two providers composed under the manager's selection |
| `RouteProvider` | abstract: what the manager takes an exclusive provider for |
| `TunnelProvidersProofs` | theorems about the composition, the refinement of `RouteProvider` included |
| `TailscaleCore` | worker, control sessions, Hostinfo updates, routes, stop |
| `TailscaleCoreProofs` | theorems about it |
| `TailscaleRoute` | route calls step by step, DERP reader, UDP thread, WireGuard's worker |
| `TailscaleDirectPath` | candidates, pings, pongs, best endpoint, path report |
| `TailscalePathProofs` | theorems about `TailscaleRoute` and `TailscaleDirectPath` |
| `StateStore` | the identity file, operation by operation, with crashes |
| `DurableCell` | abstract: one value that a save replaces atomically |
| `StateStoreProofs` | theorems about `StateStore`, the refinement included |
| `ProfileSession` | profile store, settings files, backup and restore around a stream |
| `ProfileSessionProofs` | theorems about it |
| `MC*` | instances for TLC: model values, the topology functions, symmetry sets |

`GameStreamRoutes` and `TailscaleDirectPath` name their parts `RoutesInit`,
`RoutesSpec`, `PathInit`, `PathSpec` and so on, because a proof module covers each
of them together with its neighbour.

### RemoteAccessManager

A *client* is a slot that owns a lease; its `pc` is where it stands in
`activateRoute`, `deactivateRoute` or `prepareRouteForStreaming`. One critical
section of `mutex_` is one action, since `mutex_` is innermost and never held
across a blocking call: `JoinRoute`/`CreateRoute` (up to the provider call),
`ActivateAtProvider` (the call, under `operations`, retired routes included),
`CommitRoute` (validation against entry, provider and generation, notification,
clean-up of a stale activation), `ReleaseRoute`/`ReleaseAtProvider`,
`PrepareRoute`/`PrepareAtProvider`/`FinishPrepare`. Waiting is explicit: a joiner
is `asleep` until `NotifyAll` makes it `woken`; `SpuriousWakeup` wakes it for
nothing. `BeginSelect`, `StopAtProvider`, `StartAtProvider` and
`PublishProvider` are `selectAndStartProvider`/`stopActiveProvider`.
`shared_ptr` lifetime is modelled: an entry cell is reused only when neither the
map nor a thread refers to it (`Live`), so a reused address is covered.

### GameStreamRoutes

A *job* is a worker of `connect_to_addresses` or `wake_up_host`, or a probe. It
acquires a lease for each candidate address (`AcquireDirect`, `AcquireRoute`),
dials, and delivers lease, address and server data into the maps. A refused
route comes back as the empty lease, exactly as `acquireRouteFor` does it, and
the address is dialled without one. `Deliver` includes the MAC alias written by `cache_server_data`. `CancelPairing` erases the entries of an
address and moves their leases to a worker; `releasing` counts the moved leases
of each peer, which the workers release in any order (`ReleaseMoved`).
`StopProvider`/`StartProvider` lose all routes and keep all leases. `PeerOf`
gives a peer one tunnel address; a lease is therefore named by its peer.

### FrameQueue

Every public operation of `AVFrameQueue` is one action, because it runs under
one mutex. `writing` is the cell the decoder fills between `acquireWriteFrame`
and `pushTransferred`; `rendering` is the cell drawn after `pop` returned. Time
is abstracted: on the low-latency path a queued frame becomes `due` and the
present lead may release it earlier; on the legacy path `DueFrames` ranges over
every result the frame-credit arithmetic can have. `outcome` names how the last
pop ended, for `HeldFrameReleased`. A stream ends in two
ways: an ordinary stop has cleared the active session, so `video_decoder_cleanup`
reaches no decoder and the queue keeps its frames until the next stream
(`EndStream`, on the UI thread, which is not drawing then); a restart by the
decoder still has a published session, so `LiStopConnection` runs the cleanup on
the decode thread whether or not the UI thread draws (`Cleanup`). A frame drawn
at that moment is freed under the renderer: `rendering` is then `Dangling`, which
no property mistakes for a cell. `SetupFails` is the cleanup of a decoder that
could not be set up.

### StreamSession

`view` is the StreamingView, `start[i]` a call of `MoonlightSession::start` from
its launch request on (`Launch` on a worker, `Launched` on the UI thread, then
`Dialed`, or `LinkFails` and its completion `LinkFailed`).

What other threads can see half done is cut into steps. `view.ui` is how far the
UI thread has got in `stop` and in the destructor: `BeginStop` sets the flags
(part of `FinishTeardown`, `WindowShouldClose` or `DestroyView`), `Unpublish`
clears `m_active_session`, `Quit` cancels the host app, `StopReturns` comes back
from `LiStopConnection`; `DeleteMembers` and `DeleteSession` are the destructor,
which deletes decoder and renderers first and stores the null pointer last.
`callback[c]` is a thread inside `connection_started` (a worker of
`LiStartConnection`) or `connection_terminated` (the receiver): `TestActive` is
the test at its entry, and `UseActive` one statement after it, which loads the
pointer again and reads or writes one flag. Since load and use are two accesses,
a statement may still work on what was published when the statement before it
ended (`ptr`), although the pointer has been cleared or the session deleted since.
`UseNull` is a statement that loads null: `crashed = "null"`. A use of a deleted
session (`Touch`) crashes (`"freed"`) or continues.

The decode thread goes through `DecodeFails`, `LoadForRestart`, `Restart`,
`StopInDecoder` and `RestartStarts`. `StopInDecoder` is `LiStopConnection` called
on the very thread it has to wait for: it returns or hangs for ever, and a stop
on the UI thread then waits behind it.

### WireGuardProvider, NetBirdProvider, TunnelProviders

Every WireGuard call runs under `WireGuardManager`'s mutex and is one action;
only `RelayDies` comes in between. `wgLast` keeps the last call and its answer,
which is what `RouteProvider` constrains. NetBird calls are cut where other
threads can come in: `NbActivate` stops the old proxy and `NbOpen` starts the new
one, `ScanPeers` reads the list and `StorePeers` fills the cache, `NbStop` joins
the pump and `NbShutdown` resets. `MgrConnect`, `MgrDial`, `MgrOpen` and
`MgrOpenMedia` are `NetBirdManager` redirecting a dial. The library's calls
(`ProxyStart`, `UdpStart`, `LibInit`, `Sync`) are external and follow the patched
source the build stages. A target is an identity and an address, `list` the
library's live list of them, `cachedPeers` the provider's older copy: `Admits`
compares both parts with the live list, as `activateRoute` does. `granted` is the
target of the last true answer that was not released since, `moved` that a list
has arrived after the check; a later list is not looked at again until the next
activation. `TunnelProviders` adds the selection:
`Select` stops the old provider, `StartSelected` starts the new one.

### TailscaleCore

`worker` is where `workerMain` and `runControlSession` stand, from the dial
through handshake, registration and map request to the poll loop and its end.
`transport` is the published transport: `fresh` before it has a socket, `shut`
after `interrupt`, `lost` when the network dropped it. `sending` is a Hostinfo
update being written while `advertiseMutex_` is held, by the worker, a route call
or the path thread; everything that takes that mutex waits for it. `hint`,
`advertised` and `connected` are the three fields behind the mutex, `server` what
the control server has been told. Route calls hold the provider's mutex, so a
stop begins only between them.

### TailscaleRoute

`call` is the route call in progress and where it stands: first
`RealWgxBackend::stop` (`StopUdpThread`, `JoinUdp`, `Interrupt`, `LockDerp`,
`CloseDerp`, `JoinReader`, `ResetDerp`, `StopTunnel`), with which every
activation, release and provider stop begins, then, for an activation,
`CreateTunnel`, `ConnectDerp`, `EchoTest`, `AddPeer`, `Handshake`,
`StartTcpProxy` and `StartDirectPath`. `ActivateFails` and `DerpFails` leave behind
what is up by then, as the code does. `ConnectDerp` and `DerpFails` need an answer
of a relay server (`DerpAnswers`): its upgrade header and its two handshake frames
are read without a timeout, and no session is published yet that a stop could
interrupt. `reader` and `udp` are the two threads, cut where they
load shared state or take `derpWriteMutex_`; `Egress` is WireGuard's worker
calling back into `sendEgress`; `lock` is who holds `derpWriteMutex_` during a
write or the close. `promised` is the target the last activation was answered
true for. A target is a peer and a host, because a subnet router fronts several.

### TailscaleDirectPath

Time is a tick; the state keeps ages, capped where the code stops telling them
apart. `Housekeeping` is one round of the UDP thread under `directMutex_`: expired
pings are forgotten, due candidates pinged, the best endpoint taken and a change
noted; the outstanding pings are a set, of which the oldest make room when the
list is full (`Remember`); `Notify` is the observer called after the unlock. `Answer`, `Lose` and
`ReceivePong` are the network; `answered` remembers when each endpoint was last
proven by the peer of this route, independently of `best`.

### StateStore

One action per file operation of `save`: `WriteTemporary`, `ClearBackup`,
`StashPrimary`, `InstallTemporary`, `UndoStash`, `DropBackup`, each with the
failures the code handles or ignores; `Crash` between any two. `StartWithSaved`,
`StartRefused` and `Generate` are the three ways `workerMain` leaves `load`. Two
failures are invisible to the code: the flush in the destructor of the stream
that wrote the temporary, and a file that exists but cannot be opened. They set
`unseen`, and the properties say what holds without them.

### ProfileSession

`file`, `bak` and `memory` are the settings files, their session backups and what
the stores hold, each abstracted to whose value it is: the user's, a profile's,
the default, none or a torn one. `BackupFile`, `ApplyProfile`, `RestoreFile` and
`ReloadStores` are the loops of `streaming_view.cpp`, one file at a time; the
overlay may save in between and a late connect may apply the profile after the
teardown. `settings.json` differs from the other files: `Settings::load` keeps
what an unreadable file does not give, the stores fall back to defaults.
`exposed` records that a copy failed, that the settings page's own write was cut
off, or that backups were taken again after a kill.

## 3. Runs

| Run | Instance | Shows |
|---|---|---|
| `manager_routes` | 2 clients, 1 operator, 1 exclusive provider, 2 keys, 2 entry cells, 4 generations, fair | map currency, exclusivity, wake-ups, no orphan proxy, reference counts, failed entries stay failed, every call returns |
| `frame_queue` | 5 cells, queue sizes 1 and 2, headroom 1, 4 counted or unboundedly many pushes, fair | ownership, stable drawn frame, order, accounting, a held frame is released |
| `client_routes` | 2 keys of one host (by MAC, by address), 3 addresses, 2 peers, 2 jobs, 2 leases being cleared | no leaked route, address and lease agree |
| `stream_session` | 1 view, 1 start at a time, 1 connection worker, 1 receiver, the decode thread, Sunshine host, fair | no session under destruction published, stopped stays inactive, dead stream closes, restart settles |
| `tunnel_providers` | 2 addresses, 2 identities, 3 peer lists (one reassigns an address) | one provider up, routes to the requested peer only, no proxy left by a stop, WireGuard implements `RouteProvider` |
| `tailscale_core` | 2 peers, 2 regions, 1 endpoint list, 5 kinds of netmap message, fair | updates on live sessions, agreement with the server, one login, stop returns |
| `direct_path` | 2 peers, 3 endpoints, 2 transaction ids, 2 candidates, trust window of 3 ticks | proven egress, report follows path |
| `tailscale_route` | 1 subnet router with 2 hosts, 1 other peer, fair | answered routes are served, media relays, safe teardown, accepted replies, calls return |
| `state_store` | 5 identities (1 weak), 2 passphrases, unbounded crashes and failures | complete files, registered identity saved and kept, files implement `DurableCell` |
| `profile_session` | 2 files, 2 profiles, 1 host, 1 user value, 1 kill | valid references, settings restored, user values on disk |
| `reconnected_route` | 3 hosts, 1 job | violated: `ConnectKeepsProxy` |
| `late_launch` | 1 view, 1 start at a time | violated: `HostNotLeftRunning` |

**Why the bounds are enough for the cases they are for.** Two clients and two
keys give every pair of calls on the same and on different routes; two entry
cells allow a retired entry that is still referenced next to its successor (the
theorems cover any number); four generations allow two complete restarts. Queue
sizes 1 and 2 give targets 0 and 1 and limits 2 and 3, so four pushes overflow,
resync and reconfigure a non-empty queue. Two keys of one host with a tunnel and
a LAN address give overwritten leases, aliases and cancelled pairings; the third
address is the other peer the probe can take. One start cell is enough for
one view: the view's own start is over when its connection is up, a decoder can
only fail on a connection that is up, and the start of its restart is the only one
until it is up again; so no two overlap, and the completion of a success changes
nothing (the theorems cover several views and any number of starts). Each of
the callback threads runs one callback at a time; the stop, the loss report of
the old connection and the start report of the new one do overlap. The peer
lists of `tunnel_providers` contain the hard case, an address that moves to
another identity while a call runs. The netmap messages of `tailscale_core` have
each part of an update on its own: full list, moved and offline peer, removal,
keep-alive, a list that is rejected. Two transaction ids and one answer under way
let an answer cross a restart of the route and two pings of one heartbeat; the
windows keep the order heartbeat < ping timeout < trust of the code. A subnet router
with two hosts and another peer give a route change with and without a change of
the peer. Four sound
identities let generations follow each other. One kill hits every step of a
stream; later streams run after it (the theorems cover any number of kills).
Every bound is a named constant in a guard or a finite set: `MaxGeneration`, `MaxPushes`, `MaxReleasing`, `MaxSessions`,
`MaxCandidates`, `MaxFlying`, `MaxCrashes`. The initial state
chooses whether pushes are counted and bounded by `MaxPushes` (`counting`) or go on
for ever, since a bound would hide starvation.
Symmetry is used for cells, jobs, profiles, peers, endpoints and transaction ids
in runs without temporal properties; runs with them use none.

`CHECK_DEADLOCK FALSE` is set for `StreamSession`, which ends when the
application exits, crashes or has opened its last view, and for `TailscaleCore`,
which models one life up to its stop.

**Fairness.** `RemoteAccessManager`: strong fairness for each thread inside a
call, since most of its steps take a mutex and a blocked thread gets it
eventually; nobody has to begin a call. `FrameQueue`: the UI thread draws while
a stream runs, and time passes for the oldest queued frame; the decoder need not
produce. `StreamSession`: the main loop runs draws, completions and delayed
tasks, or the rest of a stop or destructor it is in; requests answer or time out,
and worker, Limelight and decode threads are scheduled; the user and the network
are never forced, no frame has to fail, and `LiStopConnection` need not return on
the decode thread.
`TailscaleCore`: the threads run, a write ends, and a connect is answered or
refused; the server owes no message, so a silent poll is ended by the interrupt
and by nothing else. `TailscaleRoute`: weak fairness for steps that need the
processor only, for the handshake, which has its timeout, and for a write, which
ends at the latest when TCP gives up; strong fairness for whoever waits for
`derpWriteMutex_`. The reader's frames, the answers of a relay server to a connect
(`DerpAnswers`) and the calls themselves are never forced, so `RouteCallsReturn`
lets a call wait in that one step.

Each property of a passing run has a mutant in `PROJECT.json`: a plausible bug
in a mapped definition, defined next to it, under which TLC reports exactly that
property violated.

## 4. Findings

With a run and a trace:

1. `reconnected_route`: after a provider restart, reconnecting a host overwrites
   its stale lease with the new one; the assignment releases the stale lease
   first, which drops the only reference of the route just activated
   (`streaming/GameStreamClient.cpp:690`).
2. `late_launch`: HOME or exit during a launch cancels the host app before the
   launch request takes effect; the app then runs without a client
   (`streaming/MoonlightSessionLegacy.inc:440`).

Behaviours of the code that the modules contain and that no run states as a
property. The first group contradicts a comment or a document:

* `acquireRouteFor` returns `{}` for a refused route
  (`remote_access/RemoteRouting.cpp:60`), so `refused()` is never true at its
  caller and the overlay address is dialled (`RemoteRouteLease.hpp:61`).
* An activation that was retired by a later one may run at the provider last,
  replace the later one's proxy and stop it as stale; the later route stays
  Active and unserved (`remote_access/RemoteAccessManager.cpp:260`).
* The Add Host probe tests `hasActiveRoute` and then activates; a connect in
  between loses its route (`add_host_tab.cpp:368`, `:384`).
* NetBird: a failed start of a new proxy leaves `activePeer` at the old peer, so
  the next activation for it answers true without a proxy
  (`providers/NetBirdProvider.cpp:473`); `NetBirdManager` may replace a granted
  proxy when it redirects a dial. This is why only WireGuard is shown to
  implement `RouteProvider`.
* The Tailscale core ends on a rejected netmap even after productive sessions
  (`tailscale/TailscaleCore.cpp:312`, against the comment at `:300`).
* A region chosen by a route while a control session connects is told by no
  update of that session (`tailscale/TailscaleCore.cpp:371`).
* `prepareRouteForStreaming` compares peer ids only, where `activateRoute` also
  compares the host ("a subnet router peer can front several LAN hosts",
  `tailscale/TailscaleCore.cpp:132`): a preparation that races with an activation
  of another host behind the same router answers true (`:177`).
* The reader marks a dropped relay dead so that "the next route activation
  reconnects" (`tailscale/TailscaleWgxRoute.cpp:1815`), but the next activation of
  the same route answers true without looking (`tailscale/TailscaleCore.cpp:134`).
  `RouteServed` therefore lets the session of an answered route be down.
* The decoder restarts the session on its own thread
  (`streaming/ffmpeg/FFmpegVideoDecoder.cpp:968`), although
  "GPU teardown (LiStopConnection) and reconnect must never run on that worker
  thread" (`streaming/StreamDisconnectPolicy.hpp:6`, of the connection callback).
  The cleanup it reaches frees the frame the UI thread may be drawing
  (`streaming/AVFrameHolder.cpp:525`), and `LiStopConnection` may wait for the
  thread it runs on.
* A loss during a restart is taken for "Planned restart: the old socket died with
  error 0" whatever its error code (`streaming/StreamDisconnectPolicy.hpp:11`). If
  it is the new connection that was lost before `connection_started` cleared
  `m_restart_in_progress`, or if the old connection's `connection_terminated`
  writes `m_is_active = false` after the new one's `connection_started` set it, the
  session is neither active nor terminated: the screen stays black and nobody
  closes or restarts it. `RestartSettles` speaks of restarts with no callback
  running beside them.
* A settings file that did not exist before a stream may be left behind by an
  overlay save, since no backup restores its absence (`streaming_view.cpp:81`).

The second group has no rule in the repository to be held against: a callback
dereferences null when `stop` clears the pointer between two of its loads, or
writes to a session that was deleted after the load, for one statement;
`start` and `connection_started` take back a stop request that another thread has
just made; a DERP server that accepts a connect and stays silent holds the
activation, and with it the provider's mutex and every later call, for ever
(`tailscale/TailscaleWgxRoute.cpp:1426`, `tailscale/TailscaleDerp.cpp:181`); a peer
refresh that stores after a stop leaves the old peers in the cache
(`providers/NetBirdProvider.cpp:355`);
the MAC alias of `cache_server_data` moves a host's active address away from its
lease; a failed copy back still removes the settings backup
(`streaming_view.cpp:85`); after a kill nothing reads left-over backups and the
next stream with a profile overwrites them; the flush of the temporary identity
file is unchecked and an unopenable file counts as missing
(`tailscale/TailscaleStateStore.cpp:276`, `:315`); a full candidate list evicts
its oldest entry even if that is the path in use (`tailscale/TailscaleDisco.cpp:317`);
a failed activation leaves the tunnel, the DERP session and its reader up until the
next activation or stop (`tailscale/TailscaleWgxRoute.cpp:2168`); a stop joins the
UDP thread before it interrupts the DERP session, so a write of that thread that
TCP holds back delays the disconnect (`:1857`).

## 5. Theorems

Every invariant, action property and refinement that a passing run checks on its
small instance is also a theorem, proved with TLAPS for every value of the
constants. `PROJECT.json` names the theorem of each property.

**What is assumed.** Only the named `ASSUME` of each module, which TLC evaluates
on every run: the markers (`None`, `Absent`, `NoSession`, `Missing`, `Torn`) are
none of the identifiers; functions such as `ProviderOf`, `PeerOf`, `MacKey` and
`ConnectionAddresses` have their types; bounds are natural numbers; what is
counted is finite (`Clients`, `Starts`, `HostKeys`, `Jobs`, `QueueSizes`); netmap
messages have the shape the codec produces and each peer list gives an address
one identity; `Heartbeat < PingTimeout < Trust`, as the constants of
`TailscaleDisco.hpp` have it. A bound in a guard (`MaxGeneration`, `MaxPushes`,
`MaxCrashes` ...) may be any number, so the theorems cover behaviours of every
length.

**How the proofs go.** None of the properties is inductive as it stands. Each
proof module states a stronger invariant (`RouteInv`, `FrameInv`, `CoreInv` ...)
as a conjunction of named parts; shows that the initial states satisfy it; has
one lemma per action, or per group of actions that change the same variables,
with one step per part the action can disturb; and combines them. The property
then follows from the invariant, an action property from the invariant and a
case analysis of the next-state relation.

**RemoteAccessManagerProofs.** That a sleeping joiner will be woken depends on
the entry it sleeps on being the mapped one, which depends on who owns the entry.
`RouteInv`: types; where the locals of clients and operators are defined; no two
keys share an entry; the creator of an entry either finds it Activating under
its key or it has failed and left the map; creators are distinct; a waiter of an
Activating entry finds it under its key; and the invariants `RouteMapCurrent`,
`ExclusiveRoute`, `NoLostWakeup` and `ActivatingHasOwner` (an Activating entry
has a creator that will settle it). `ProxyInv` adds that providers serve and
clients retire only their own provider's keys, and gives `NoOrphanProxy`.
`ReferenceInv` adds that a client inside an activation has no lease yet, that the
entry a client waits for is mapped under its key or not at all, and that an entry
which is not Active yet has one reference; it gives `ReferencesHeld`, with
cardinality lemmas for one holder more or less. The action property
`FailedIsFinalAlways` follows from `RouteInv`.

**StreamingProofs**, `StreamSession`. `PublishedInv`: types; an existing view has
a session number in range; a restart under way has a session to work on
(`DecoderHeld`); stop requests are of sessions that were opened; and as long as a
session is published it is the one of the existing view, whose stop has got no
further than setting the flag: a request that stands, or a finished teardown, means
that the UI thread is about to clear the pointer. The last part is what makes it
inductive: the destructor may take the early return of `stop` and go straight to
deleting members, and a start or a callback may have taken `m_stop_requested` back
at any moment before. `PublishedSessionAlive` follows. The action property
`StoppedStaysInactive` needs it too: a thread gets hold of a session only through
`m_active_session`, which never names a retired one, and only a holder marks a
session active.

**StreamingProofs**, `GameStreamRoutes`. `RoutesInv` adds `JobsShaped` to the two
properties: a job holds a candidate lease only while it dials and a lease only
until it delivers, each for the address it is at. Without it a delivery could
store a lease of another peer than the address it stores. Every step that moves a
lease between job, map and release worker is shown to keep `LeasesOn`, one
cardinality lemma for each of the four places a lease can be.

**FrameQueueProofs.** `FrameInv`: types, one owner per cell, the drawn cell is the
one on screen unless it was freed, the account, and `StampsInOrder`, which bounds the queued stamps
by the number of frames pushed: `PlayoutOrder` alone does not say that the next
frame is newer than the ones in the queue. Lemmas say what the pops, the overflow
and the trimming of the queue leave (`Rest`, `Front`) and that this keeps cells
distinct and stamps in order, for any queue size and headroom.

**ProfileSessionProofs.** `SessionInv` says where the user's value of a file is
at each moment: in the backup while a profile is applied (`BackedUp`, file by
file during the two loops), in the file and in memory otherwise (`InStep`), with
the shape of the view (`ViewShape`) and what a kill leaves (`AfterKill`).
`ReferencesStayValid` rests on lemmas about appending to and removing from a list
without duplicates; `SessionInv` is needed for the one step outside the store
that changes it, the profile that a stream makes active.

**TunnelProvidersProofs.** `TunnelInv` is the conjunction of one invariant per
provider and one of the selection: a relay belongs to a running tunnel; the target
a NetBird call is opening or has granted was in the live list when it was checked,
and still is unless a newer list arrived; every proxy belongs to the provider's
life or to `NetBirdManager`;
a provider that is up is the selected one, or NetBird in the
shutdown of a selection. `WireGuardImplementsProvider` is a refinement: every
step of the composition is a step of `RouteProvider` or leaves it unchanged.

**TailscaleCoreProofs.** `CoreInv` adds to the types: the worker owns the
transport from dial to close, and the session counts as connected exactly in its
poll loop (`SessionOwned`); an update in flight belongs to one thread, which waits
for it (`WriterKnown`); what the server was told from the map request on
(`ServerTold`); the key is held by the first session only and not sent before its
handshake (`KeySpent`).

**TailscalePathProofs**, `TailscaleRoute`. `RouteInv`: who holds `derpWriteMutex_`
and what that protects; that the reader and the UDP thread live inside the life of
session and tunnel, and are joined before a call takes either away; what an
activation has put up by each of its steps; that between calls only the route
that is up can be promised; and that its session, once open, keeps its flags and
its reader until it is dropped or stopped (`SessionHeld`). `TeardownSafe`, `RouteServed`, `MediaHasRelays` and
the action property `RepliesAccepted` follow.

**TailscalePathProofs**, `TailscaleDirectPath`. `PathInv`: the pong that made the
best endpoint was also the peer's proof of it (`BestProven`); a transaction id
stands for one endpoint, and a pong that carries it was sent by the peer of this
route (`PongsOwned`); without a route nothing is reported or awaited. `PongsOwned`
is why a late pong of an earlier route is harmless.

**StateStoreProofs.** That a registered identity is on disk is not inductive:
in the middle of a save it is in the backup, and whether the backup may be
removed depends on what the primary holds. `StoreInv` adds where the new identity
is at each step of a save (`NewIdentityReady`), that a backup beside a primary is
older than it (`BackupIsOlder`), and where the registered identity is at each step
(`RegisteredPlace`). `FilesComplete`, `RegisteredStaysSaved` and the action
property `SoundIdentityIsKept` follow. `FilesImplementCell` is a refinement: with
what a load would return as the cell's value and the identity of a save in
progress as the wanted one, every step of `StateStore` is a step of `DurableCell`
or leaves it unchanged.

**What proving taught.** Two attempts failed for a good reason and corrected the
model. In `TailscaleCore` the step that advertises the default region took for
granted that there is one; without one it now goes on to the poll
(`AdvertiseDefault`). In `ProfileSession` a second
kill, while the backups are being taken again after a first one, has to count as
exposed (`TearBackup`); the run allows one kill only. Two representations were changed
so that they can be reasoned about: leases being released are counted per peer,
and outstanding pings are a set with their ages; both allow at least the orders
the code has. `RemoveProfile` removes by position, which is what `remove_if` does
to a list without duplicates, and that there are none is part of the theorem.

**Only model-checked:** the liveness properties `CallsReturn`,
`HeldFrameReleased`, `DeadStreamCloses`, `RestartSettles`, `StopReturns` and
`RouteCallsReturn` (fairness and ENABLED are outside the prover); the shape of
`TailscaleDirectPath`'s candidate list, which a fold builds (induction over data)
and on which the proved properties do not depend; and the two violations.

## 6. Abstractions to keep in mind

* In `RemoteAccessManager` a provider call is atomic: it holds `operations` and
  only then touches provider state. The partial failures inside a provider are
  its outcomes there, and the subject of the provider modules.
* In `GameStreamRoutes` a manager call is atomic; its interleavings are the
  subject of `RemoteAccessManager`. Operations on the client's `std::map`s are
  atomic, although `wake_up_host` writes them from its worker.
* `LiStartConnection` and `LiStopConnection` belong to moonlight-common-c, a
  submodule outside the tree. The model assumes that `LiStopConnection`, called
  on the UI thread, returns once the decode thread has left its callback; called on
  the decode thread it may return or not. A lost connection calls
  `connection_terminated` at most once at a time.
* In `FrameQueue` the UI thread's own stop (`EndStream`) does not overlap a draw,
  since it is the UI thread that draws. The decoder's `Cleanup` does.
* `StateStore` and `ProfileSession` take a closed file to be durable: the code
  never syncs, so a power cut may lose more than the process being killed.
  `profile.json` itself is written in place and taken to survive a kill.
* An import of profiles adds at most one new profile and one host reference.
* `TailscaleCore` is one life of the core; a later start begins with a fresh
  core. Netmap validation beyond the missing address is part of `Rejected`. The
  control connection has no read timeout, so neither has the model.
* `TailscaleDirectPath` leaves out STUN and the sending of call-me-maybe; what the
  peer learns from them shows as `LearnCandidate` on the other side.
* `TailscaleRoute` leaves to `TailscaleDirectPath` which packets take the direct
  path: `Egress` is the case that falls through to DERP. Region and node selection
  are one choice, and the connections inside the lwIP relay do not appear: its
  listeners lead to a host or are gone. A media port that fails leaves the others
  open and the flag as it was, which looks like no step.
* The loopback ports are taken all together or not at all.

## 7. Plan

Done, in the order of what carries a stream: routes to the host, the client's
hold on them, the session, the frames; then the providers behind the routes, the
Tailscale control client, its identity, its route with the packet path and the
direct path, and the profiles.

Next modules, in this order:

1. `ControlStream`: HTTP/2 flow control and the netmap frame decoder of
   `TailscaleControlSession` (a second message of one DATA frame waits for more
   data; the result of `Http2FrameDecoder::append` is ignored).
2. `RouteService`, an abstract specification of what a lease holder is promised,
   implemented by `RemoteAccessManager` and used in place of the one-step manager
   of `GameStreamRoutes`.
3. `Pairing` with its `CancellationToken`, `HostSearch` with the generation of
   `find_hosts`, and `InputSession` (controller announcement, rumble, input block).

Next proofs: every safety property of a passing run is a theorem (section 5).
What is left are the invariants of the modules above once they exist, and the
promise of `RouteService` as a refinement by `RemoteAccessManager`.

## 8. Not modelled, and why

Renderers, audio, cryptography, HTTP, XML and the Tailscale codecs (Noise, HTTP/2,
DERP, disco, STUN) are calls into libraries or byte formats. Host discovery,
pairing and input are planned (section 7). UI layout, statistics, benchmark
reports, QR codes and the forwarder maker keep no state that the other parts
depend on. Feature policies are small pure functions with unit tests.
`ActiveSessionGuard`, `startProvider`, `stopProvider` and `setActiveProviderId` have
no caller in the application, and `restartWithApolloOptions` none that can run: it
is called in `StreamingView::applyVirtualDisplay` (`streaming_view.cpp:767`, `:784`),
which is declared and defined and called by nobody. `lib/`, `extern/` and
the Android project are third-party code.

## 9. Running

```
tlc -workers 2 -config RemoteAccessManager.cfg MCRemoteAccessManager
tlapm RemoteAccessManagerProofs.tla
```

The module and the configuration of every run are in `PROJECT.json`.
