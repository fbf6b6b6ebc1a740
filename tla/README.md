# A verification project for Honeypot-Wi-Fi

Honeypot-Wi-Fi finds attacks on wireless networks with a Raspberry Pi (the *honeypot*), a phone
that commands it and shows the results, and a web server that collects the scans of all users.
This directory holds TLA+ models of the parts whose correctness depends on interleavings,
failures and restarts, the TLC configurations that check them on small instances, and proofs,
checked by TLAPS, that the safety properties hold for every value of the constants. Paths below
are relative to `src/`; the phone's code is under `mobile_app/IoTApp/`, the server's under
`webserver/src/`. The quotations of the documentation are translated from Polish.

- [1. Inventory](#1-inventory): the components, their state and their hard behaviour
- [2. The modules](#2-the-modules): what corresponds to what
- [3. The runs](#3-the-runs): what TLC checks, the bounds, the fairness
- [4. The proofs](#4-the-proofs): what holds for every instance, and why
- [5. What the code does not keep](#5-what-the-code-does-not-keep): six disagreements with the documents
- [6. Not modelled](#6-not-modelled)
- [7. Plan](#7-plan)

To repeat the checks: `tlc -workers 2 -config MCUploadSafety.cfg MCUploadSync` (likewise for the
other configurations), and `tlapm UploadSyncProofs.tla`, likewise for `SessionProofs`,
`ScanServiceProofs`, `WifiServiceProofs`, `OrchestratorProofs`, `PhoneScanProofs`,
`BleBridgeProofs` and `ScanListsProofs`.

## 1. Inventory

```
 phone (React Native)                          server (NestJS, SQL database)
 ┌──────────────────────────┐    HTTP /sync    ┌──────────────────────────────┐
 │ runScan ─► SQLite        │ ───────────────► │ SyncController, SyncService  │
 │            upload_queue  │ ◄─────────────── │ AuthService  ScansService    │
 │ syncPending, syncSingle  │    207/4xx/none  │ NetworksService ...          │
 └──────────┬───────────────┘                  └──────────────▲───────────────┘
            │ HoneypotTransport (a mock at this commit; meant to be BLE)       │ web front end
 ┌──────────▼──────────────────────────────────────────────┐                   │ (Vue)
 │ honeypot (Raspberry Pi)                                  │
 │  BLE bridge (Go, BlueZ) ─► service/server.py (Flask)     │
 │     ScanManager, ScanRunner threads                      │
 │        ├─► wifi service (Go, wpa_supplicant over D-Bus)  │
 │        └─► scanner/launcher.py ─► detector modules       │
 └──────────────────────────────────────────────────────────┘
```

| Component | State | Operations | Hard behaviour | Correct when |
|---|---|---|---|---|
| Phone upload queue (`constants/db.ts`, `services/sync_engine.ts`, the queue and details screens) | tables `scans` and `upload_queue` | runScan's writes, syncPending, syncSingle, delete | calls overlap while they wait; the app dies between two writes; the answers are applied late and row by row | no row is lost, none stays IN_FLIGHT, a server id shown is real |
| Phone HTTP client (`services/api.ts`) | the open calls, the refresh in progress | api, fetchWithTimeout, refreshAccessToken | time-outs that race the answer, several 401 at once | every call comes back; a rotated token is used once |
| Server upload (`sync/sync.service.ts`) | table `scans` | POST /sync, POST /sync/batch | concurrent handlers between `findOne` and `save`; one of several scans failing | one row per client_scan_id, results that are true |
| Server update feed (`getUpdates`, `getStatus`) | none of its own | GET /sync/:since | changes made while the feed is read; timestamps cut to milliseconds | no change is missed for ever |
| Server authentication (`auth/`) | table `refresh_tokens` | register, login, refresh, logout | concurrent requests of one user; no transaction; tokens that differ only by the second | a refresh token works once |
| Server users (`users/`) | table `users` | profile, deleteAccount | deletion while requests of the user are running | nothing of the user remains |
| Server queries (`scans/`, `networks/`, `common/utils/cursor.ts`) | none | cursor pagination | rows inserted, and aggregates that change, between two pages; the row of the cursor read before the page | a page is a page of the list, each scan that stays is seen once |
| Server statistics (`stats/`) | none | SQL aggregates | none | the numbers add up |
| Phone scan coordination (`services/scan_manager.ts`, `services/honeypot.ts`, the scan screen, the pairing modal) | the scan in progress, its listeners, finished scans, the state of the link | startScan, cancelScan, getResult, pair, disconnect | events that come before the state they announce; a screen that goes while its scan runs; calls of pair() that overlap; the app's death between two writes | a scan is in one place, the screen knows when it is over, a link does not pair for ever |
| Phone session, cache, preferences (`services/auth.ts`, `hooks/use_auth.tsx`) | secure store, SQLite | login, logout | a refresh in progress while the user logs out; death between two writes | no token survives a logout; a session ends only when it should |
| Honeypot scan service (`service/server.py`) | `ScanManager.scans`, one thread per scan | POST /scan, the reading routes | scans overlap; every step of a scan may fail; one managed interface | a result is complete and is about its own target |
| Scanner launcher (`scanner/launcher.py`) | an AlertCollector and two capture threads per scan | run_all_scanners, add_alert, get_alerts, get_summary | joins with a time-out: threads go on after their scan | the summary counts what is reported |
| Detectors (`scanner/*.py`) | module globals: the collector, tables of what was seen | `*_init`, packet handlers | globals shared by the threads of different scans | alerts come from the traffic of this scan |
| WiFi service (`wifi/dbus/dbus.go`) | subscriptions to D-Bus signals | ScanInterface, ConnectNetwork, DisconnectNetwork, five queries | channels closed while the dispatcher sends; signals missed before the subscription, or taken for another's; two requests for one interface | each wait ends, with the right verdict, and a refused attempt is over |
| BLE bridge (`ble/dbus/`, `ble/cmd/`) | the connection, forwarding goroutines and a watcher, three subscriptions | Connect, StartNotify, WriteValue, StopNotify, Disconnect | the link lost at any step; goroutines that wait for one another at the shutdown | values arrive in order, a loss is noticed, the process ends |
| Web front end (`web-frontend/`) | the cursor and the fields of a list, tokens in cookies | lists in pages; requests with a shared refresh | answers that come in another order; several 401 at once | the view shows a page of its list |
| Orchestrator, `detect.py` (`honeypot/orchestrator.py`, `scanner/wifi_api_client.py`) | the interface it has chosen | a command-line predecessor of the service | calls given up that the service goes on with; a cleanup that a signal interrupts | it scans on the target's network only, leaves it, and ends |

`PROJECT.json` lists, under `hazards`, the lines at which these behaviours bite and the property
that watches each of them; those without a property say why.

## 2. The modules

| Module | What it is |
|---|---|
| `ScanLedger` | the abstract promise of uploading: entries are made once and never change, receipts are given only for entries |
| `UploadSync` | the upload queue of the phone, the requests, and the server's handlers, together |
| `UploadSyncProofs` | the theorems about it |
| `ScanService` | the honeypot's scan threads, their capture threads, the detectors' collectors and the shared interface |
| `ScanServiceProofs` | the theorems about it |
| `Session` | the phone's stored tokens, the calls that meet a 401, signing in and out, and the server's table of refresh tokens |
| `SessionProofs` | the theorems about it |
| `WifiService` | the Wi-Fi service: its handlers, its dispatcher, wpa_supplicant |
| `WifiServiceProofs` | the theorems about it |
| `Orchestrator` | the command-line orchestrator as a client, beside `WifiService`, which it extends |
| `OrchestratorProofs` | the theorems about the two together |
| `PhoneScan` | the phone's own scans: the transport, runScan, pairing and the screens |
| `PhoneScanProofs` | the theorems about it |
| `BleBridge` | a process of the Bluetooth bridge, central or peripheral |
| `BleBridgeProofs` | the theorems about it |
| `ScanLists` | cursor pagination on the server, and the two views that walk through it |
| `ScanListsProofs` | the theorems about it |
| `MCUploadSync`, `MCScanService`, `MCSession` | the symmetry sets for TLC |
| `MCDevice`, `MCClient` | runs that check several parts, told apart by `part` |

`UploadSync` refines `ScanLedger` (`Ledger == INSTANCE ScanLedger WITH ...`, property
`ImplementsLedger`), and `Orchestrator` refines `WifiService`: its states hold those of the
service, so the refinement mapping is the identity (theorem `OrchImplementsWifi`). Some modules
hold, next to an action, a variant of it introduced by "Fault":
a plausible mistake in that code. It is no part of `Next`; each property of a passing run is
violated when one of these takes the place of the action it is named after, so that the property
is known to depend on the code.

### UploadSync

**State.** `saved` and `uploaded` are the phone's `scans` table (which scans, with which
`server_scan_id`); `queue` is `upload_queue.status` of each scan, "none" without a row.
`job` is the piece of synchronous JavaScript in progress: expo-sqlite's `runSync` calls block, so
nothing else of the app runs until the piece ends — but the process can die between two writes.
`call` holds the rows each waiting `syncPending` or `syncSingle` was started for; `req` are the
HTTP requests, each with its progress in the network and in its handler, and the results so far.
`scanRows` is the server's table and `nextSid` its id generator. `stranded` is a history variable:
the rows that were IN_FLIGHT when the app died and have not been marked since.

**Actions and code.**

| Actions | Code |
|---|---|
| `PersistScan`, `EnqueueUpload` | the two writes at the end of `runScan` |
| `SyncPending`, `SyncSingle`, `MarkInFlight`, `SendRequest` | `sync_engine.ts:20-46, 76-85`: the rows are read, marked one by one, and sent. `syncSingle` looks at nothing but the scan's presence |
| `ReceiveAnswer`, `GiveUp` | the `await` returns: with an answer, or because `fetchWithTimeout` or the network rejects |
| `MarkScanUploaded`, `MarkDone`, `RemoveQueueRow`, `MarkFailed` | the loop over the results: three writes for CREATED, one for all others |
| `HandleDelete`, `AppDies` | "Remove from queue"; the end of the process |
| `Refuse`, `Validate` | guards and throttler; `ValidationPipe` on the whole body |
| `FindDuplicate`, `SaveScan`, `DatabaseError`, `Answer` | `uploadScan`'s `findOne` and `save`, one database operation at a time; `mapBatchError`; the 207 |
| `LoseRequest` | the request or the answer is lost, or the server process dies |

**Abstractions.** A scan is its number, ordered as `Date.now()` orders the ids. POST /sync is a
batch of one: a status other than 2xx has the effect on the phone that a REJECTED result has. A
401 that is answered by a refresh and a second request is a request that stays in transit. A wrong
hash (VALIDATION_FAILED) and any query that throws are `DatabaseError`, whose result the phone
treats alike. `attempts` and `last_error` are left out, since no decision reads them; so are the
attack rows that `save` cascades to. The phone's own database is taken to work. `WellFormed`, the
scans the DTO accepts, is a constant because at this commit the phone always sends `bssid: null`
(`sync_engine.ts:100`) while the DTO asks for a MAC address: with `WellFormed = {}` nothing is ever
uploaded, and the model with other values is about the protocol around that payload.

### ScanService

**State.** `record` is `ScanManager.scans`; `pc` is the statement the thread of a scan
(`ScanRunner.execute`) is at; `target` the network it was asked for. `link` is the network the one
managed interface is associated with and `chosen` the network that wpa_supplicant is to associate
it with. `collected` is the `AlertCollector` of each scan, `owner` the global `_alert_collector`
of each detector module, `todo` and `capture` the progress of the scan's two capture threads,
`pending` the alerts that its managed thread has found and not yet added, `taken` what
`run_all_scanners` has read so far. `overlap` is a history variable: some scan was started while
another was running; so is the mark `early` of an alert that was found before the capture threads
last started were started.

**Actions and code.** `StartScan` is POST /scan; `Begin` to `Fail` are the statements of `execute`
in order, each of which may raise; `InitDetector`, `InitFails`, `StartSniff`, `SetAlertCollector`,
`Resolve`, `Catch`, `Report`, `DetectEvilTwin` and `EndSniff` are the steps of the capture threads,
which are daemons that the joins may leave behind; `LinkLost`, `Associate` and `TimeOut` are
wpa_supplicant and the WiFi service, which go on after the HTTP client of the scan has given up.
Finding and adding are two steps: `Resolve` is a name that `dnssec_test` asks the resolver of the
network for and finds wrong (`dns_spoofing.py:83-90`), `Catch` a packet that is caught and has yet to
be handled, both with the network of that moment; `Report` adds the alert to the collector that the
detector's module has by then (`dns_spoofing.py:93-94`, `launcher.py:164-197`). A thread that is
still in `dnssec_test` initialises nothing further and does not sniff.

**Abstractions.** Packets are left out: a packet counts by the alert it raises, which carries the
network the interface was associated with when it was caught; alerts are sets, so a repeated alert counts once. Evil
twin alerts come from the monitor interface and carry no network. Time is left out: a join may
return at any point, whether its thread has ended or not. Once `get_summary` has read a collector,
nothing reads it again and its content is no longer kept.

### Session

**State.** `access`, `refresh` and `uid` are the phone's secure store, `shown` is `isAuthenticated`
as `use_auth` last computed it, which is not the same: a refresh that fails empties the store and
leaves the screens as they are. `call` holds the calls of `api()`; one that has been repeated has
`noRefresh`. `req` are the requests to `/auth`, each with its progress in the handler, and `awaited`
while the phone waits for it; `refreshInFlight` is a refresh that is awaited. `count`, `stamp` and
`live` are the table `refresh_tokens`: its rows, the token each was made for, those not revoked.
A token is the second it was signed in, because nothing else tells the tokens of one user apart
(`auth.service.ts:111-120`); `clock` and `horizon` are the second it is, and the one up to which
access tokens have expired. `signedOut`, `overlap` and `trouble` are history variables.

**Actions and code.**

| Actions | Code |
|---|---|
| `SendCall`, `Unauthorized`, `CallEnds` | `api()` and its answer: 401 for a missing or expired token, or anything else |
| `GiveUpCall`, `JoinRefresh`, `StartRefresh` | `api.ts:117-127, 173-178`: what a 401 leads to |
| `RefreshDone`, `RefreshRefused`, `RefreshFails` | the promise of the refresh settles: the tokens are stored or cleared, the waiting calls repeated or failed |
| `StartLogin`, `LoginDone`, `LoginFails` | the login screen and `auth.ts:26-41` |
| `StartLogout`, `LogoutDone`, `LogoutFails`, `LogoutLocal` | `auth.ts:51-64`, with `use_auth`'s `setUser(null)` |
| `AppDies` | the end of the process, also between two writes of `storeTokens` or `clearTokens` |
| `RefreshFind`, `LoginSign`, `LogoutFind` | the lookup of the row (or of the user), and the signing in the same breath |
| `InsertToken`, `RevokeToken` | the two saves, each a database operation of its own |
| `AuthError`, `LoseAuth` | a handler that throws; a lost request or answer, or the death of the server |
| `Tick`, `Expire` | time |

**Abstractions.** One user with one phone, and one kind of call. The handler takes the refresh
token of the body; the cookies it prefers (`auth.controller.ts:117-120`) are set for browsers.
A wrong password, the throttler and a refresh token that has expired are `AuthError`: the answer
without tokens, after which `trouble` holds. A logout is answered alike whether a row was revoked
or not. Access and refresh token are signed together and are one number. `updateProfile`,
`deleteAccount` and `refreshUser` have no caller in the app and are left out.

### WifiService

**State.** `present`, `state`, `scanning`, `seen`, `configured` and `selected` are wpa_supplicant's;
a network is named by the request that added it. `rules` are the match rules of the bus, `queue`
the channel `signal` into which godbus puts what matches, `signals` the map `Conn.signals` from a
signal's name to the channel of the one request that is subscribed to it, `chan` these channels
with their buffers, `dispatcher` the goroutine of `New` and the signal it has taken. `request` is
each HTTP request: where its handler is, what it has read, the status it has settled on. `up` is
FALSE when the process has panicked. `reached` and `disturbed` are history variables.

**Actions and code.**

| Actions | Code |
|---|---|
| `Accept`, `TakeAnswer` | the router and the answer |
| `ReadOne`, `ReadList`, `ReadMembers`, `ReadState`, `ReadNetwork` | GetInterface, GetInterfaces, GetBSS, GetBSSs, CurrentNetwork |
| `StartScan`, `CallScan`, `ScanRefused`, `ScanIsDone` | ScanInterface |
| `StartConnect`, `StopScanning`, `RemoveAllNetworks`, `AddNetwork`, `InvalidConfig`, `SelectNetwork`, `Undo`, `StateArrives`, `Drop` | ConnectNetwork, one D-Bus call at a time |
| `ReadCurrent`, `CallDisconnect`, `RemoveCurrent` | DisconnectNetwork, which reads the network anew at each call |
| `AddChannel`, `AlreadySubscribed`, `AddMatch`, `MatchFails`, `RemoveMatch`, `CloseChannel` | subscribe and unsubscribe, with the map under the mutex and the bus outside it |
| `TimeOut` | the two time-outs; that of ConnectNetwork is looked at only after a second without a signal |
| `DispatcherTakes`, `DispatcherSends`, `DispatcherPanics` | the dispatcher: the channel is looked up under the mutex and sent to after it is released |
| `Evolve`, `FinishScan`, `OtherChange`, `Unplug` | what wpa_supplicant does of its own |

**Abstractions.** The four states of wpa_supplicant between `associating` and `completed` are
passed over, and `inactive` is `disconnected`, as for the code. What a network is configured with,
and the bodies of answers, decide nothing. A match rule is always removed: `RemoveMatchSignal`
fails only when the bus is gone.

### Orchestrator

**State.** `step` is where `run()` or a `cleanup()` is, `calling` the request it waits for,
`managed` its `managed_interface`, `inFinally` whether the `finally` has begun. `joining`, `gaveUp`
and `leaving` are history variables about its request to join; `joining` forgets that request when
a later one is given its name (`Renamed`). `others` counts another client.

**Actions and code.** `Call` is a method of `WiFiApiClient`; `Answered` its return or its exception
with what `run()` does next; `GivesUp` the time-out of `requests`, behind which the handler goes on;
`NoConnection` a service that has died; `ScannersEnd` and `NothingToCleanUp` the rest of `run()`
and of `cleanup()`; `Interrupt` the handler of SIGINT and SIGTERM, which runs `cleanup()` in the
middle of whatever the program was doing and then raises `SystemExit`. `Forgotten` takes the answer
of a request that was given up.

**Abstractions.** The choice of interface and target by name, which may fail at any point; the
scanners, which are `ScanService`'s.

### PhoneScan

**State.** `link`, `active`, `results` and `pairs` are the `MockHoneypotTransport`: its state, the
scan of its timer, `completedResults`, and the calls of `pair()` that wait. `run` is the call of
`runScan`; `screen`, `modal`, `stack` and `signedIn` the scan screen, the pairing modal, the
router's stack and the session; `history` and `queue` the tables it writes.

**Actions and code.** `PressScan`, `SelectNetwork` and `ListArrives` are the scan screen; `Tick` is
the timer with everything its listeners do, up to the rejection or the rows to be written;
`StopScan` is `cancelScan`; `PersistScan` and `EnqueueUpload` are the two writes; `OpenModal`,
`DevicesArrive`, `ChooseDevice`, `PressPair`, `PairEnds`, `OpenSettings`, `DisconnectDevice` and
`GoBack` the modal, the device's settings and the navigation; `SignOut` and `SignIn` mount the
screens anew; `AppDies` may come anywhere, also between the two writes.

**Abstractions.** JavaScript runs to completion, so an action is all that happens between two
timers or touches. Findings and percentages are left out. `ping()` and `listNetworks()` do not fail
in the mock, and it accepts any code of six digits. `stopScan` is in the transport's interface and
has no button: `StopScan` stands for a caller yet to be written, and is what puts results into
`completedResults` at all (section 5). `LeaveQueue` is all of `UploadSync`, seen from here.

### BleBridge

**State.** `linked`, `bonded`, `resolved`, `known` and `notifying` are BlueZ's; `main` is where the
process's main goroutine is, `props` and `tried` what `Connect` knows and has tried; `fwd` are the
three subscriptions of a process with the goroutine that forwards each; `watcher` is the goroutine
of StartNotify, `consumer` the one of `cmd/` that reads its channel, `disconnected` the flag they
share, `writers` the calls of WriteValue that wait. `sent`, `received` and `early` are history
variables.

**Actions and code.** `FindPairedDevice` to `Settle` are `Connect` of central and peripheral, one
call or signal at a time; `StartWatching`, `StartNotify`, `EndRun` and `StopNotify` the ten seconds
of `cmd/*/main.go`; `WatcherHears` to `WatcherTakesWrite` the watcher's select and what it does
next; `Leave`, `ReadConnected`, `HangUp`, `AwaitHears` and `CloseBus` `disconnect()` and `Close`;
`ForwarderTakes` and `ForwarderEnds` the goroutine of `signalSubscribe`; the rest is BlueZ and the
peer. `Bytes` and `ParseSecurity` are the encoding, with its widths.

**Abstractions.** One peer. The buffer of 64 into which godbus puts signals (`bluez.go:213`) is not
bounded: what a full one would do is not modelled. The text of an SSID; a write changes nothing unless it fails, which
ends the ten seconds; the pauses of `safetyInterval`.

### ScanLists

**State.** `rows` is the table, `cursor`, `page`, `search` and `order` a view of the web front end,
`pending` its requests in flight. `walk`, `edits` and `wentBack` are history variables.

**Actions and code.** `ReadCursorRow` and `FindAll` are `findAll` of the two services: the row of
the cursor is read before the page. `Precedes`, `Kept`, `Found` and `Answer` are the order, the
keyset condition, the query with one row more than a page, and `buildPaginatedResponse`, in both
directions. `InOrder` sorts without recursion: the k-th row is the one that k - 1 others precede. `GoNext`, `GoPrev`, `TypeSearch`, `ChooseOrder`, `PressFilter`, `PressSearch`,
`ResponseArrives` and `RequestFails` are MyScans.vue and NetworkSearch.vue; `InsertRow` and
`UpdateNetwork` are uploads: a new network is inserted without a value, which comes with its scan
(`sync.service.ts:143, 178`).

**Abstractions.** One filter and one sort key, which may be NULL. Columns that do not decide the
order. NetworkSearch's "Search" button sits in a form without `prevent`, so that pressing it loads
the page anew; `PressSearch` is the load that follows.

## 3. The runs

| Run | Module, configuration | Instance | States | Shows |
|---|---|---|---|---|
| `upload_safety` | MCUploadSync, MCUploadSafety | 2 scans, 2 calls, 2 requests, batches of 2 | 970,000 | `TypeOK`, `StoredOnce`, `UploadedIsStored`, `InFlightInHand`, `NoSilentDrop`, `ImplementsLedger` hold |
| `upload_live` | MCUploadSync, MCUploadLive | 2 scans, one of them malformed, 2 calls, 2 requests, batches of 1 | 132,000 | `InFlightReleased` holds |
| `upload_retry` | MCUploadSync, MCUploadRetry | 1 scan, 1 call, 2 requests | – | `RetryIsSafe` is violated |
| `upload_stranded` | MCUploadSync, MCUploadStranded | 1 scan, 1 call, 1 request | – | `QueuedIsSent` is violated |
| `upload_poison` | MCUploadSync, MCUploadPoison | 2 scans, one malformed | – | `RejectionIsPerScan` is violated |
| `scan_service` | MCScanService, MCScanService | 2 scans, 2 networks, one managed-mode detector and the evil twin detector | 2,600,000 | `TypeOK`, `SummaryCovers`, `ResultsOfTarget` hold |
| `scan_busy` | MCScanService, MCScanBusy | the same | – | `OneScanAtATime` is violated |
| `session` | MCSession, MCSession | 2 calls, 2 requests, 2 seconds, 2 rows | 880,000 | `TypeOK`, `StoredIsLive`, `SignedOutStays`, `WaitersHaveRefresh`, `SessionKept` hold |
| `session_rotation` | MCSession, MCSessionRotation | 1 call, 1 request, 2 seconds, 3 rows | – | `UsedIsRevoked` is violated |
| `device` | MCDevice, MCDevice | 2 interfaces, 2 requests, 1 base station, channels of 1 | 420,000 | `OrchTypeOK`, `SubscriptionIsExclusive`, `RefusedAttemptIsOver`, `ConnectedWhenSaid`, `DiesOfLateSignal`, `LeavesTheNetwork`, `ScansAfterJoining`, `HandlersEnd`, `RunEnds` hold |
| `client` | MCClient, MCClient | 2 values, 1 loss; 2 scans of 2 networks; pages of 2 in tables of 4 and 5 rows | 560,000 | `BleTypeOK`, `SecurityArrives`, `LossIsNoticed`, `BridgeEnds`; `PhoneTypeOK`, `ScanIsInOnePlace`, `ScreenFollowsRun`, `SavedIsQueued`, `PairingIsUnderWay`, `PhoneSettles`; `ListsTypeOK`, `PageIsWhole`, `WalkMissesNothing` hold |
| `scan_result` | PhoneScan, MCScanResult | 1 network, 1 scan | – | `ScanGivesResult` is violated |

`device` and `client` check several parts in one run: a constant variable `part`, chosen at the
start, says which of them moves, and the others keep one of their initial states. In `device` the
orchestrator runs with the service alone, on one interface (part "orchestrator"); or the service answers any two requests on two interfaces, one of which may be a
query (part "service"). In `client` the bridge, the phone and the lists share no state at all.

**What the properties say.** `StoredOnce`: one row per client_scan_id, although `findOne` and
`save` are two operations of handlers that run concurrently. `UploadedIsStored`: an id the phone
shows is that of the scan's row. `InFlightInHand`: a row is IN_FLIGHT only while some call, or the
job that applies its answer, still has it in hand, or since the app died — two calls that share a
row never leave it behind. `NoSilentDrop`: a row leaves the queue only when the scan has its
server id or the user removes it. `InFlightReleased`: while the app lives, a row does not stay
IN_FLIGHT. `SummaryCovers`: a stored summary counts every stored alert, although the two are read
one after the other from a list other threads append to. `ResultsOfTarget`: where scans do not
overlap, what the managed-mode detectors find once a scan's capture threads are started, and what
comes into its result, is of the scan's target, whatever threads of earlier scans are still running
and whichever associations come late. What was found before is excepted (`early`), and the exception
is real: without it TLC finds, in 25 steps and without overlap, a thread that its scan left behind
in `dnssec_test` adding its finding about the earlier network to the collector of the next scan. `StoredIsLive`:
the refresh token the phone keeps is one the server takes, or the request that replaces it is on its
way, however the calls that meet a 401 interleave. `SessionKept`: no refusal ends a session that
nothing has disturbed; what may end it is named in the property (signing out, a failure, a logout
that overlapped a refresh, two pairs of one second). `SignedOutStays`: after signing out the phone
holds no token and no user until the next login begins, even when the server was not reached or old
requests are still open. The exception, a logout that overlaps a refresh, is real: the answer of
the refresh is stored after `clearTokens` has run. `WaitersHaveRefresh`: a call waits only for a
refresh that is under way, so the refresh's time-out ends its wait too.

`SubscriptionIsExclusive`: the map of subscribers is not told apart by interface, yet a name has
one subscriber, whose channel is open from its subscribe to its unsubscribe, and no other request
closes it. `RefusedAttemptIsOver`: a connect answered 404, 409, 500 or 504 does not go on behind
its answer. A 400 promises less, since after "disconnected" the code leaves the network selected.
`ConnectedWhenSaid`: 204 means that wpa_supplicant has completed the network of this request; the
exceptions it names are real (a signal of the previous subscription still on its way, another
request that selects its own network on the interface). `DiesOfLateSignal`: the dispatcher's send
on a closed channel, which ends the process, happens only to a request whose answer is settled.
`LeavesTheNetwork`: whatever ends the orchestrator's run, it has left the network it joined, and
nothing joins it again behind it; but for a connect it did not wait for, and a disconnect that was
refused. `ScansAfterJoining`: the scanners start only once the network has been completed.
`RunEnds`: each run of the orchestrator ends. `HandlersEnd`: each request the service has accepted,
of whatever kind and client, is answered, also when its client has given up, or the service dies;
once wpa_supplicant falls silent, since signals that come in every second put off the time-out of
ConnectNetwork (`dbus.go:453`). A wait for a signal that was missed ends too, but only by its
time-out.

`SecurityArrives`: what the consumer reads through the queue, the forwarder and the watcher is a
prefix of what the peer has written. `LossIsNoticed`: while a process writes over a dead
link, its forwarder and its watcher can go on towards telling it. There are three exceptions, all
real: a link that was lost before the watch began; the watcher that tells a forwarder which waits for
it (`Deadlocked`: `central.go:255` against `bluez.go:240`); and a value in the hands of the watcher for
a consumer that took zeros for the end (`Unheard`). TLC reaches both of these with the link down and
nobody told. `BridgeEnds`: no goroutine keeps the process from ending; it may panic, when
the watcher tells the forwarder on a channel that StopNotify has closed. `ScanIsInOnePlace`: no
scan is lost or doubled between the timer, the transport's results, runScan and the history.
`ScreenFollowsRun`: the screen shows a scan exactly while its own runScan goes on, also when it is
refused as BUSY or mounted anew. `SavedIsQueued`: only the death of the app keeps a scan of the
history out of the queue. `PairingIsUnderWay`: the link is left PAIRING by no call of pair() that is
over, however the modal is closed and opened. `PageIsWhole`: where nothing changes, Next, Previous,
failures and answers in any order show whole pages. `WalkMissesNothing`: a walk with Next through
the scans sees each at most once and misses none that was there, while rows are inserted. It is not
claimed of networks, whose aggregates change under the cursor.

**Bounds, and why they are enough.** Nothing counts above two in the upload: two handlers race
between `findOne` and `save`, two calls share a row, a batch has a scan that fails and one that
does not. A request nobody waits for keeps its place until its handler is done, so with two
requests one abandoned handler can still store a scan while a retry is running. Every run of
UploadSync is finite without a bound in a guard: a scan gets at most one row, so `nextSid` is at
most one more than the number of scans. In ScanService a scan id is used once, as `create_scan`
makes a new UUID; two of them give one scan with what an earlier one left behind, and any overlap.
TLC stops there because the ids are used up, which is why deadlock is not checked in that
configuration; it is in all others. One managed-mode detector is also the one that resolves names
(`Resolver`), so both kinds of alert occur; that detectors are initialised one after the other is
covered by the proofs, which hold for any number. `MaxPending` and `MaxAlerts` bound what is found:
a thread has one alert in hand; a collector holds one until scans overlap, when the question is
whose network it is of, and two afterwards, when it is what the two reads see, and so that one can be
added between them. Where scans have not overlapped the monitor-mode detector, which is on no network,
does not start, and once they have the interface moves only by the scans' own requests
(`MCScanService`); the proofs know none of these bounds. In Session two calls share
one refresh or meet it one after the other, and two requests are enough for a logout, a login or
the remains of an abandoned refresh to run beside the awaited one. `MaxClock` and `MaxRows` bound
the seconds and the rows in the guards of `Tick` and `InsertToken`: one login and one refresh fill
two rows, with equal or different tokens; the runs with more rows are what the proofs are for, since
they hold for any bounds. No action of Session needs fairness, as no liveness is claimed of it.
In `device` one slot of a channel, for four in the code, makes the dispatcher block early, and
wpa_supplicant acts of its own only while the queue (16 in the code) is empty, so that signals under
way are what requests cause beside it; two requests are what two clients of one name need; two
changes of wpa_supplicant take an attempt from selected to completed, a third loses it. In part
"service" the adapter stays, the supplicant acts twice, and answers are kept, so that what they say is looked at to the end; the
proofs hold without these bounds. In `client` two values cover one that needs both bytes and the
zero that ends the consumer, one loss comes at any step and one more signal before or after it;
two scans and two pairings overlap or follow one another, with two sign-outs or deaths; the two
tables have pages that end between rows of one value, and rows without one, and two requests are
what it takes to answer out of order. Both configurations say `CHECK_DEADLOCK FALSE`: a part comes
to rest when it has reached its bounds, and the orchestrator and the bridge are programs that end.
The symmetry sets are those of interchangeable
model values, and are used only where no liveness property is checked.

**Fairness.** `FairSpec` assumes that a piece of synchronous JavaScript runs to its end
(`WF_vars(JobStep)`), that the server does not stop half-way through a request (`WF_vars` of each
`ServerStep`), and that a waiting call gets its time-out: `fetchWithTimeout` (`api.ts:63-71`) sets
a timer for every call, and the event loop runs its callback sooner or later even though other
work comes between (`SF_vars(GiveUp(c))`). React Native's `fetch` resolves when the body has
arrived, so the timer covers the body as well. Nothing is assumed about the user, the network or
the life of the app. `RetrySpec`, used to refute the two liveness statements of the documents,
is more generous to the code: the user syncs again and again, and what is answered arrives; the
statements ask nothing unless misfortunes end (`<>[][~Misfortune]_vars`). Even so they fail.

Of the orchestrator it is assumed that goroutines run when they can, that the program goes on, and
that each of its calls ends, with its answer or by the time-out that `WiFiApiClient` gives it
(`OrchFairness`); a handler that waits can always time out in the end, as wpa_supplicant is not
assumed to say anything: the bound on its events is what silence is here. The run asks for less: some
goroutine of the service, in either part, runs when one can. Of the
bridge: its goroutines run when they can (`BleFairness`); BlueZ and the peer owe nothing, but a call
that has been made returns. Of the phone: timers fire, and JavaScript goes on with what it has
begun (`PhoneFairness`). In `client` each is restricted to its own part.

## 4. The proofs

The eight `...Proofs` modules are checked by TLAPS to the last leaf. The assumptions are those on
the constants, which TLC evaluates in the runs of their modules: `ConstantsAssumption` (scans are a
finite set of numbers, `WellFormed` is a subset of it, batches are not empty, `NoCall` is not a
call), `ScanConstants` (detectors are numbered from 1, the resolver is one of them, `NoScan` and
`NoNet` are not a scan and not a network), `SessionConstants` (the bounds are numbers, there is at
least one second), `WifiConstants` (there is an interface, a channel has room for one signal, the
names "none" and "foreign" are not requests), `OrchestratorConstants` (bounds are numbers, "none"
is not an interface), `PhoneConstants` (bounds are numbers), `BleConstants` (level and event fit in
a byte each), and `ListConstants` (a page has room for a row, ids are numbers, and the table that a
run begins with is finite). `SecurityArrivesHolds` assumes
besides that the seconds fit in two bytes (`Fitting`), which `rand.Int() % 600` does
(`honeypot/ble/cmd/peripheral/main.go:55`). Where constants are bounds, as
`MaxEvents` or `MaxLosses`, the theorems hold for any value of them.

| Theorem | States |
|---|---|
| `TypeCorrect`, `ScanTypeCorrect`, `SessionTypeCorrect` | the type invariants |
| `StoreInvariant` | `StoreInv`, the strengthening behind the next four |
| `StoredOnceHolds`, `UploadedIsStoredHolds`, `NoSilentDropHolds`, `LedgerImplemented` | the safety of the stored scans and the refinement |
| `InFlightInHandHolds` | `InFlightInHand` |
| `SummaryCoversHolds` | `SummaryCovers` |
| `ResultsOfTargetHolds` | `ResultsOfTarget` |
| `SignedOutStaysHolds`, `WaitersHaveRefreshHolds` | `SignedOutStays`, `WaitersHaveRefresh` |
| `StoredIsLiveHolds`, `SessionKeptHolds` | `StoredIsLive`, and the action property `SessionKept` |
| `WifiInvariant`, `OrchInvariant` | `WifiInv` and `OrchInv`, the strengthenings behind the next three rows |
| `WifiTypeCorrect`, `OrchTypeCorrect`, `PhoneTypeCorrect`, `BleTypeCorrect` | the type invariants |
| `SubscriptionIsExclusiveHolds`, `RefusedAttemptIsOverHolds`, `ConnectedWhenSaidHolds`, `DiesOfLateSignalHolds` | the safety of the Wi-Fi service |
| `OrchImplementsWifi`, `ScansAfterJoiningHolds` | `OrchSpec => WifiSpec`, and the action property `ScansAfterJoining` |
| `LeavesTheNetworkHolds` | `LeavesTheNetwork`, beside any other client |
| `ScanIsInOnePlaceHolds`, `ScreenFollowsRunHolds`, `SavedIsQueuedHolds`, `PairingIsUnderWayHolds` | the safety of the phone's scans |
| `LossIsNoticedHolds`, `SecurityArrivesHolds` | the safety of the bridge |
| `ListsTypeCorrect`, `WalkMissesNothingHolds`, `PageIsWholeHolds` | the types and the safety of the lists in pages |

**UploadSync.** None of the properties is inductive. `UploadedIsStored` needs that the results on
their way are true (`ResultsHonest`: a CREATED result, in a request or in the job that applies it,
names a row of the server — a row is never changed, so this survives any delay).
`StoredOnce` needs nothing but the guard of the insert; the freshness of ids needs `SidsBelow`.
`NoSilentDrop` needs `MarkedFirst`: the write that removes a row comes after the one that marked
the scan, and the app may die in between but nothing else may run. Together they are `StoreInv`.
The refinement maps entries to `scanRows` and receipts to the ids in the phone's table; a save is
`Store`, `MarkScanUploaded` is `Acknowledge`, every other step stutters.
`InFlightInHand` rests on `HandInv`: a call that is marking has no request yet and still holds the
rows to be marked (`Marking`), and a request somebody waits for carries exactly the rows of its
call and is that call's only one (`Carries`). Without `Carries` an answer could release a call
while it settles other rows than the call's.

**ScanService.** `SummaryInv` adds to `SummaryCovers` what holds between the two reads: the copy is
contained in the collector, then in the count. `ResultsOfTarget` needs three more facts. Before its
capture threads start a scan has no alerts and no detector reports to it, whatever older threads do
(`UntouchedInv`): an older thread sets `owner` to its own scan only. While a scan runs alone,
from its connection to its release, the interface is associated with its target or with nothing,
and wpa_supplicant has selected the target or nothing (`Holds` in `AloneInv`): `connect` is refused
while the interface is associated, and selecting a network removes what was selected before, so a
late association of an earlier scan cannot come back. And from the start of its capture threads until
its collector is read for the last time, whatever any thread has in hand was found on its target, or
is marked as found before (`Fresh`); so what a leftover thread adds to the collector of the running
scan keeps `OnTarget`.

**Session.** `PhoneInv` is about what the phone waits for, and needs nothing of the server but that
its steps keep `awaited` (`ServerKeepsOpen`): one refresh is awaited at a time, no call waits
without one, and without an overlap a phone that is signed out awaits nothing that brings tokens
(`NoComeback`). `KeptInv` is about the tokens while things are clean, that is, nothing has failed and
no two rows have one token. `StoredIsLive` is not inductive: it needs to know that a refresh about
to be looked up has a live token, that its new token, once inserted, is live and is neither the
phone's nor sent with any request, and that the row a handler is going to revoke was made for the
token it was sent (`RowsOf`), so that a revocation hits nothing that is still needed. A new row
with a token that is already in the table would make things unclean, which is where the tokens' being
different comes from; `CleanBack` says that what is unclean stays so. `SessionKept` follows: a
refresh is answered with a refusal only after an overlap.

**WifiService.** `WifiInv` adds to the four properties what makes them inductive. `Settled`: a
handler that has not subscribed has no channel, one whose channel is closed has settled its status;
hence `DeadOfClosed` and `DiesOfLateSignal`. `Attempt`: wpa_supplicant does not try the network of
a handler that has not selected it, nor, once it is past `Drop`, of one that is refused; hence
`RefusedAttemptIsOver`. `ConnectedWhenSaid` needs most: a "completed" can reach a handler only
through the queue, the dispatcher and its channel, so `Undisturbed` says of each of the three that
what is in it was caused by a network that was reached. For a new signal that takes two more facts:
the bus sends us state changes only of the interface of the one handler that is subscribed
(`RulesWatched`), and on that interface an undisturbed attempt has the supplicant for itself.
`SignalsNamed` and `CompletedNamed` keep the names of signals apart: one that is on its way when a
handler subscribes makes it disturbed.

**Orchestrator.** Each step of the composition is a step of the service or leaves it alone, which is
the refinement, and with it every theorem of `WifiServiceProofs` holds of the composition.
`ScansAfterJoining` then needs `CallUnderWay` (the call it waits for is a request of the kind the
step makes, so no one else's answer is taken for it) and `FirstTime` (until it joins, nothing was
given up and nothing was left): the answer 204 to the request it joined with is
`ConnectedWhenSaid`'s. `LeavesTheNetwork` follows the request that joined, for as long as its name
is not given to another: `NetworksOfRequests` says that a network selected on an interface is of a
request for that interface, `OnManaged` that the orchestrator's own calls are on its interface, and `TargetLeft` that,
once wpa_supplicant has carried out its disconnect (`PastLeaving`), the network that the join
selected is not selected, whatever another client does meanwhile. The run that checks it does
not let the other client act beside the orchestrator; the theorem does. Proving it showed that the
history of `joining` has to end when its name is reused, which no run reached.

**PhoneScan.** `PhoneInv` is the conjunction of the type invariant and the four properties, which
hold one another up, with `RunIsStarted`: a runScan that has a result has that of a scan that was
started, and no other is under way.

**BleBridge.** Types need `Ready` (a forwarder that sends has a signal to send) and `HandOK` (the
watcher of a central holds four bytes that somebody encoded). `LossInv` says that the signal which
tells the end is queued or with the watcher, that from the subscription to StopNotify the forwarder
does not end unless the watcher has told it to, nor the watcher at all, and that before it there is
no watcher; so outside the two dead ends one of the two has a step to take. `ArriveInv` says where the values are that were sent: the
n-th with the consumer, in the watcher's hand, or in the queue, where a counting function numbers
the values among the other signals (`Carried`), so that nothing is left out between them.

**ScanLists.** A list in order is defined by rank, so nothing about it needs induction. `Precedes` is
a strict total order (`PrecedesIsOrder`); more rows precede a later row (`BeforeGrows`), so that
counting gives every place one row (`PlacesTaken`, by the theorems on injections between finite
sets), and `InOrder` is the one sequence that lists the rows in order (`InOrderIsOrdered`,
`OrderedIsInOrder`). What follows the first p rows, and the first p rows from the other end, are
then slices of the whole list (`InOrderFrom`, `InOrderBack`). The keyset condition keeps exactly the
rows after the cursor's (`KeptIsAfter`), rows without a value included; backwards it does so only
where every row has one (`BackOrder`), which is the exception in `PageIsWhole`.

`WalkInv` says of every answered request for a next page that its rows come in order, after the
cursor, and that it leaves out only rows that come after its last one, and then has a next page
(`GoesOn`); of the walk it says the same of all that was seen (`Rises`, `Covers`). It survives an
upload because a scan's `started_at` never changes and no scan is without one; of networks neither
holds. `PageInv` says that while nothing was touched all that is in flight *fits*: every cursor
stands at the edge of one of the list's pages (`CursorFits`) and every answer is one of them
(`WholePage`); going forward needs no more, going back that every row has a value, and before
Previous was pressed nothing in flight goes back (`Forward`).

Not proved but model-checked: the liveness properties (`InFlightReleased`, `RunEnds`, `HandlersEnd`,
`BridgeEnds`, `PhoneSettles`), as liveness under fairness is out of the prover's reach; and the
counterexamples of section 5. Every invariant and every safety property of a step that a run checks
is a theorem.

## 5. What the code does not keep

- `upload_retry`: *"[the 409 for a known client_scan_id] allows an upload to be repeated safely
  after a broken connection"* (Dokumentacja_Techniczna_Pitera.md:118). After an answer is lost,
  the server answers DUPLICATE to every retry, as status REJECTED; `syncPending` asks for status
  DUPLICATE (`sync_engine.ts:52`), which is never sent, and marks the row FAILED, for ever.
- `upload_stranded`: *"when the Internet appears, the Sync Engine sends the data to the server"*
  (DataFlow.md:14). A row that was IN_FLIGHT when the app died is never selected again
  (`db.ts:249`).
- `upload_poison`: *"each scan is validated independently; rejecting one does not block the
  others"* (API.md:580-581). `ValidationPipe` refuses the whole batch.
- `scan_busy`: *"the honeypot processes one command at a time [...] further commands are rejected
  with the error BUSY"* (API.md:639). POST /scan starts a second scan beside the first.
- `session_rotation`: *"the old refresh token is invalidated after its use (token rotation)"*
  (API.md:146). A refresh in the second its token was signed in makes the same token again: it is
  answered with the token that was used, which a second row keeps valid. It takes two calls whose
  401 arrive on either side of a refresh that is done within the second. From then on `findOne`
  may return the revoked row, and the next refresh may end the session; hence the exception in
  `SessionKept`.
- `scan_result`: *"Coordinates a full scan lifecycle: list networks → select → start → wait → get
  result → save → enqueue upload"* (services/scan_manager.ts:16-17). The transport emits COMPLETED
  (`honeypot.ts:244`) before it stores the result (`honeypot.ts:246, 310`); runScan asks for the
  result at once and gets SCAN_NOT_FOUND (`honeypot.ts:261-263`): every scan that runs to its end is
  shown as failed and is saved nowhere. Only `cancelScan`, which no screen calls, yields results.

Other behaviour that no document forbids and that the models had to allow: after a 400 for
"disconnected" the Wi-Fi service leaves the network selected; a signal that comes as a subscriber
leaves ends the service, for everyone; the orchestrator's request to leave a network, when it is on
none, is answered 404 and ends its run. The documents' cursor *"stays stable when records are
added"* (Dokumentacja_Techniczna_Pitera.md:79) for scans, not for networks, which are sorted by
aggregates that an upload changes; rows whose aggregate is NULL are lost when sorted upwards and
cannot be walked backwards. MyScans' Filter keeps the cursor of the earlier list and may end on an
empty page with both buttons disabled. NetworkSearch's Search loads the page anew and loses what was
typed. A dismissed pairing modal still calls `router.back()` when its pairing is done
(`modal.tsx:47`) and takes whatever view is then on top. A scan that was started before a sign-out
is saved for whoever has signed in when it ends.

## 6. Not modelled

- Statistics and the profile (`stats/`, `users/`): single queries, and a deletion no client calls.
- Registration, and the browsers' session over cookies (`main.js`, the router's guard). Two tabs
  share the cookies but not the `refreshing` promise; what that does to the server's rows is
  `Session`'s two overlapping refreshes.
- GET /sync/status and GET /sync/:since, which no client that ships calls, and the routes of the
  honeypot's service that only read (`/alerts`, `/scan/status`, `/scan/history`, `/device_*`).
- The tables that the detectors compare packets with: what an attack looks like is data here.
- Views that fetch once and show it: details, maps, charts, the community's search, in which a late
  answer may overwrite a newer one, and the phone's other tabs.
- `detect.py`, a command line around one detector; systemd units and configuration.
- Code that nothing imports: `services/api/*.ts`, `services/auth/AuthContext.tsx`,
  `services/auth/storage.ts` and `services/sync/engine.ts` of the phone app.

## 7. Plan

Each module has its constants as parameters with named assumptions, one action per operation, and
no RECURSIVE operator. In the order of importance of the behaviour:

1. `ScanLedger`, `UploadSync`: done, with proofs.
2. `ScanService`: done, with proofs. To extend: the status a client can read from /scan/status,
   /alerts and /device_status, and the tables of the detectors (`dns_spoofing.py` never clears
   them), with a history property on alerts lost to a leftover thread.
3. `Session`: done, with proofs. To extend: registration and account deletion, several phones of
   one user, and the web front end's shared refresh (`main.js:10-32`) with its cookies.
4. `WifiService`, `Orchestrator`: done, with proofs, the second as a refinement of the first. To
   extend: `ScanService`'s connect and disconnect replaced by the
   requests of `WifiService`.
5. `PhoneScan`: done, with proofs. To extend: a transport over `BleBridge`, once the app has one.
6. `ScanLists`: done, with proofs. To extend: GET /sync/:since against writers, if a client comes to
   use it.
7. `BleBridge`: done, with proofs.
