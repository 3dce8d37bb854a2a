# PhotoPainter: a verification project

TLA+ models of the ESP32-S3 e-paper display and of its Home Assistant
integration, TLC configurations that check them on small instances, and TLAPS
proofs of what matters most. Paths are relative to the repository; `src/`
prefixes in `PROJECT.json` stand for its root.

## The system

One display and one Home Assistant (HA) integration share one fact: which frame
the panel shows. The display sleeps most of the time, loses power at will, and
talks HTTP when it wakes; HA renders frames, offers the newest and keeps what
the display acknowledged.

| Component | State | Operations | Hard behaviour |
|---|---|---|---|
| Frame cache, `components/frame_store/frame_store.c` | two flash slots, RAM record `s_store` | init/scan, load, save, deinit | power loss and flash errors inside a save, wrap of the sequence |
| Wake cycle, `main/ha_frame_runtime.c` `run_once` | NVS `display_state`, `pending_report`, `force_redisplay`; locals of a wake | wake, manifest, frame, cache, refresh, report, sleep | power loss at each step, NVS errors, deadline, retry of reports, unset clock |
| Wake policy, `ha_frame_policy.c` | none | policy functions | boundaries of interval and deadline |
| HTTP client, `components/ha_frame_client/ha_frame_client.c` | one request: buffers, handle, `http_body_t`; `last_http_status` | get manifest, get frame, post report | seven ways out, bodies longer than declared, answers of something else, a status left by an earlier request |
| Device key, `load_bearer_key`, `provision_bearer_key` | key buffer, NVS `bearer_key` | load, prompt on the serial line | power loss between write and commit, a line too long, two prompts in one boot |
| Power chip, `components/axpPower/axp_prot.cpp`, `components/i2c_bsp/` | registers that outlive a reboot, bus, `s_power_ready` | `axp_power_init`, `axp_power_read_status` | a reset or a failed transfer half-way, a chip that is missing, a battery pulled between two reads |
| Power chip driver, `XPowersAXP2101.tpp` | registers, cached interrupt bytes | some hundred getters and setters | settings that share a register, masks, ranges of steps, failed reads |
| Runtime, `custom_components/photopainter/runtime.py` | pending and displayed frame, known frames, report ids, Store | publish, regenerate, handle report, manifest, load | late, repeated, reordered reports; restart between RAM and Store; a handler without the lock |
| HTTP views, `api.py` | none of their own | manifest, frame, reports | see runtime |
| Coordinator, `coordinator.py` | timer, schedule, caches of sections | refresh, pre-wake render, retry, reconfigure, plan of wakes, collection | re-arming on every path, overlapping refreshes, age of what is shown |
| Normalisation and schedule, `core.py`, `config.py`, `next_poll_at` | none | pure functions | boundaries of days, nights, zones and event windows |
| Panel port, `components/epaper_port/`, `components/epd_driver/` | SPI transaction in flight, poisoned flag, deadline | init, display, sleep, deinit | a timeout that leaves a transaction with the driver |
| Wi-Fi and SNTP, `components/wifi_manager/wifi_manager.c` | connected flag, retry count, event bits | init, connect, sync, disconnect, deinit | event handlers against the caller |
| Renderer, entities, config flow, drivers of other power chips, unused SPI backend | views and pixels | | left out |

Interactions: `run_once` calls the cache, the panel port, Wi-Fi and the client
in sequence, from one task; the client's requests reach the HTTP views, which
call the runtime; the coordinator publishes into the runtime; a button calls
`async_request_regenerate`. What a wake learned reaches later wakes only through
NVS and the cache, what HA learned reaches a restarted HA only through the Store.

What makes each correct: the cache never shows a frame that is not whole and
never forgets one it reported as saved; a wake never loses a report or a
recovery it owes, never refreshes too often and never claims a frame the panel
does not show; HA never rolls an acknowledgement back, never stops asking for a
frame that is not shown, and knows the frames it handed out; a request believes
only whole answers and keeps to its memory; a frame says how old what it shows is;
the power chip ends up as configured without the supplies of the board moving.

## Modules

| Module | Models | Stands on |
|---|---|---|
| `FrameCell` | what the cache promises: one durable cell | |
| `FrameStore` | `frame_store.c`, a save split at every flash operation | refines `FrameCell` |
| `FrameStoreProofs` | theorems about `FrameStore` | TLAPS |
| `WakeCycle` | `run_once`, the policy functions, the requests' outcomes | assumes `FrameCell` of the cache |
| `HaRuntime` | `PhotoPainterRuntime`, its Store, the display as environment | |
| `HaRuntimeProofs` | theorems about `HaRuntime` | TLAPS |
| `PanelPicture` | what the panel driver promises: one picture that only a refresh changes | |
| `PanelPort` | `epd_driver.c` over `epaper_port.c`, a call split at every SPI transfer and BUSY wait | refines `PanelPicture`, gives `WakeCycle` the outcome of a refresh |
| `PanelPortProofs` | theorems about `PanelPort` | TLAPS |
| `Coordinator` | `coordinator.py`: timer, debouncer, a refresh split at its awaits | gives `HaRuntime` its publishes |
| `CoordinatorProofs` | theorems about `Coordinator`, `PollSchedule`, `Sections` and `CalendarEvents` | TLAPS |
| `PollSchedule` | `next_poll_at` and the day window of `config.py` | gives `Coordinator` its wakes, which it takes as a series of one interval |
| `Sections` | collection of calendar and forecast in `coordinator.py` with their caches, `normalize_forecast` | the content of a refresh of `Coordinator` |
| `CalendarEvents` | `_calendar_event`, `normalize_calendar_events` | the content of a calendar section |
| `WifiManager` | `wifi_manager.c` against its event handlers, each call to ESP-IDF a step | gives `WakeCycle` the network |
| `WifiManagerProofs` | theorems about `WifiManager` | TLAPS |
| `HttpClient` | the three calls of `ha_frame_client.c` and `http_request`, each call to the transport a step | gives `WakeCycle` the outcome of a request |
| `IsoTime` | date arithmetic of `parse_iso8601` | checked against a calendar walked day by day |
| `BearerKey` | loading and typing of the device key, byte by byte | the wake before `WakeCycle` has a network |
| `NetworkProofs` | theorems about `HttpClient`, `BearerKey` and `IsoTime` | TLAPS |
| `WakeCycleProofs` | theorems about `WakeCycle` | TLAPS |
| `Axp2101` | registers and settings of the power chip as its driver codes them | |
| `Axp2101Driver` | the driver used as a library, by any sequence of calls | `Axp2101` |
| `Pmic` | `axp_power_init`, `axp_power_read_status`, the I2C bus, transfer by transfer | `Axp2101` |
| `PmicProofs` | theorems about `Pmic` and `Axp2101Driver` | TLAPS |
| `MC*` | instances for TLC | |

`MCDrivers`, `MCCoordinator`, `MCNetwork` and `MCPmic` hold several components that
share no state: the initial state chooses the one that runs, and the others stand
still. `MCDrivers` holds the cache and the panel port.

Definitions whose comment begins with "Mutant of" are not part of the models.
They state plausible bugs; with one of them in place of the definition it names,
the property it aims at fails, so that property depends on that code.

### FrameStore

`slots` is the flash. A slot is its header's sequence, digest and marker, and
its pixels; a frame value stands for bytes, metadata and SHA-256 together, and
`NoFrame` for anything whose CRC or digest does not fit. `initialized`,
`activeSlot`, `activeSequence`, `activeFrame` are the fields of `s_store`; `pc`
is the next flash operation of `frame_store_save`. Erase, header, data and marker
either succeed (perhaps with wrong bits), or fail half-way and end the save; at
each of them the board may lose power (`Crash`). `Validate` and `ReadBack` are the
two read-backs. Arguments that fail the checks are `SaveRefused`. The mutex is
not modelled: one task calls the store, and each call holds it to its end.

`SeqMod` is the number of sequence values, 2^32 in the code. It is 8 in the run,
enough for the counter to wrap several times. `CacheInit`, `CacheNext` and `CacheSpec`
are the specification; `Completed` is the flash operation that did all it should.

### WakeCycle

Durable: `displayState`, `pendingReport`, `forceRedisplay` (NVS) and `cache`. A
pending report is `"current"` when this wake made it and `"old"` later: the code
tells no more apart. `wake` is the record of locals of `run_once`, `pc` its step.
The steps break where the code writes durable state, talks to HA, evaluates the
deadline or drives the panel. Every NVS write may report an error and be lost
(`NvsErrors`); `deadline_expired` may turn true at each evaluation and stays
true. HA is any answer: 200, 401/403/429 (`refused`), 404/410 (`gone`), 409
(`conflict`), anything else. The panel shows what the last refresh left: after one
that failed what it did, nothing whole (`Torn`) or the new frame (`Drawn`), as
`PanelPicture` has it; the new frame may in truth appear later, and is shown at once
here. Time is abstracted to "the last refresh is less
than 300 s ago": `recent` as the code computes it from `displayed_at`, and
`panelRecent` as it truly is. `nap` is a sleep that may be shorter than 300 s.
The clock is set by SNTP, survives sleep and may be lost at a power loss.
Two history variables say what the properties need and the code does not keep:
`recorded`, that NVS holds the `display_state` of the last refresh, and `coded`, that the
report in NVS has an `error_code` (only that of a failed display has one).

`StartFails` covers the four early exits. The PMIC, drawing and telemetry have no
influence on any of this and are left out.

### HaRuntime

The fields of `PhotoPainterRuntime` under their names; `frames` maps an id to
the `generated_at` of the frame known for it, 0 when it is unknown. A handler
changes RAM in one step (there is no `await` in it before the save), appends the
dict of `_async_save` to `writes`, and holds `lock` until the Store has written
it (`StoreWrite`), which is also when a report is answered. `RequestRegenerate`
does the same without the lock. `Restart` may come at any step and reloads what
the Store holds, as `async_load` does. The save of `async_mark_seen` writes what
is stored already and is left out. The display reads a manifest, shows a frame
(or fails, skips, or shows its old one again offline) and makes a report;
reports are delivered in any order, any number of times, at any later step.
`demoted` is no state of the code: it records that a restart gave the pending frame
back under an older generation, the case `PendingOwed` and `ReplayHarmless` exclude
(see Also seen). A report names its frame by id; `generation` in it, with `offeredAt` and
`shownAt`, observes which generation the display was given under that id. What counts as
acknowledged (`ackedGen`) is that generation, not what HA looks up for the id when the
report arrives. `Redated` is the exception: a restart has since made HA know the frame
under an older generation only.

### PanelPort

The fields are the statics of the two files: `ready` (`s_spi_ready`), `inflight`,
`poisoned`, `deadline`, `transaction` (what `s_transaction` and its buffer would
make the SPI driver send), `framebuffer`, `initialized`. An operation is a script,
`todo`, of transfers and waits; `Fill`, `Queue` and `Await` are the three places of
`spi_send_byte` and `epaper_send_buffer` where another thing can happen. `spi` is
what the SPI driver owns, `panel` what reached the display. `Transmit` may come
late, also in a later wake: `initialized` and the other statics survive a sleep of
the default build (`CONFIG_DISABLE_DEEP_SLEEP=y`, `sdkconfig.defaults:65`); a deep
sleep is a `Reboot`. A run of register bytes is one `data` step, since they differ in
nothing but their values. A late transfer that goes out while another call has
the panel selected may be taken for pixels.

`PanelPicture` is the same seen from `run_once`: a call, the image it was given, the
panel's memory as a whole image or none, the image shown. The mapping takes a call
with no step left for one about to report success, and the memory for an image when
it holds every part of one in order (`Whole`).

### Coordinator

A step is what runs between two awaits. `Begin`, `Collect`, `Rendered`, then
`Succeed` or `Fail` are a refresh: begun, calendars awaited, rendered, published.
`Request` is Home Assistant's debouncer: a request during a refresh is dropped, one in
the cooldown waits for its end. The first refresh does not pass through it, so two
refreshes may run at a time. `timer` is `_unsub_schedule`, `target`
`_scheduled_target`, `nextWake` `_scheduled_next_wake`. Time counts in ticks; a
configuration is the interval of its wakes. A refresh takes no longer than
`Duration`, less than the minute between the prewake and the wake, since its service
calls time out after 10 s; nor does the cooldown, Home Assistant's default of 10 s. Both are
assumed (`CoordinatorAssumption`), and what a wake is served by rests on them.

### WifiManager

`pc` is the next call of the main task to ESP-IDF. The event task has a higher
priority and shares its core, so `events` are handled before the main task goes on,
but the station may join or drop between any two of its steps. `connects` counts
the calls of `esp_wifi_connect` since the start or the last address.

### HttpClient

`at` is the next call of `http_request`, or of the caller that checks what it
returned; `heap` what the call holds; `answer` what the other end sends, with the
bytes not yet read; `response` the fields of `http_body_t`. Each transport call
succeeds or fails. A body has a declared length, or none, and another true one; it
may be Home Assistant's (`genuine`) or something else's that answers on the way.
JSON, URLs and headers are what the checks make of them: accepted or not. A
content stands for its SHA-256. `taken` is what Home Assistant accepted, also when
the device never learns it.

### BearerKey

`kpc` walks through `load_bearer_key` and `provision_bearer_key`, one byte of the
serial line a step. `pending` is `nvs_set_str` without `nvs_commit`; which of the two
a power loss leaves is open. The buffer is a function of places, so what an earlier
line left behind its terminator is there. `line` is the line being typed and `left`, a
history variable, what the lines given up at this prompt left in the buffer; `Entry` is
what the prompt comes to: the line, when Enter ended it, else the line over `left`.

### IsoTime

The specification walks the calendar from 1970-01-01 day by day and keeps count;
`Days`, the leap rule and the month lengths of the code must agree with it.
Instants are a day and a second, since TLC's integers have 32 bits.

### PollSchedule

`Candidates` and `NextPollAt` follow `next_poll_at` in minutes of wall time; the
display sleeps until the plan or is woken sooner. A zone has two offsets and one
change, and a wall time that occurs twice is converted as `fold = 0`, as
`datetime` does.

### Sections and CalendarEvents

`FetchCalendar`, `CalendarFetched` and `ForecastFetched` are the parts of a refresh between its awaits;
`fetches` holds those under way, two at most (see `Coordinator`). A section is its
status, the hour of its data and the entity they are of. `CalendarEvents` builds
answers event by event and normalises each; its window is today and tomorrow. The loop is
the recursive function `Taken`, the sort the order in which an event's place is the
number of those before it.

### Axp2101, Axp2101Driver, Pmic

A register is the set of its bits. Some sixty setters and as many getters differ in
constants only, so a setting is a record of them (the bits the getter takes, the
bits the setter clears, the ranges of steps, how each treats a failed read), and
`Set` and `Get` are the two operators. A failed read is -1, every bit of it 1.
`Axp2101Driver` follows one register with the settings that share it, two power
channels, or one interrupt, chosen in the initial state. `Pmic` goes through the
table of `axp_cmd_init` line by line; each transfer may fail, the processor may
reboot between any two, and the chip keeps its registers.

## Runs

Passing:

| Run | Instance | Shows |
|---|---|---|
| `drivers` | cache: 3 frames, 8 sequence values; panel: 2 images of 2 transfers, fairness | the live slot always loads (`ActiveSlotIntact`); two valid slots are neighbours in sequence (`GenerationsConsecutive`); a successful save is what the next boot finds (`SavedIsNewest`); the store implements `FrameCell` (`ImplementsCell`); the transaction and its buffer are left alone while the SPI driver owns them (`OwnedUntouched`); a reported success is what the panel received, and its power is off (`SuccessIsTrue`); the port implements `PanelPicture`: a call cut short leaves the picture, none, or the image it was given, that one maybe later, and power is not cut while a refresh draws (`ImplementsPicture`); a poisoned port recovers (`PoisonHeals`) |
| `wake_cycle` | 2 frames, NVS writes may be lost | a stored report goes only when HA accepted it, or refused its frame and the recovery marker is durable (`ReportSettled`); the marker goes only when the panel shows a frame of HA and NVS says so (`MarkerOutlivesRecovery`); nothing is sent after a refusal (`RefusalEndsRequests`); between power losses a refresh comes within 300 s of another only when NVS lost the `display_state` of that one (`RefreshesSpaced`) |
| `wake_cycle_live` | 1 frame, NVS writes succeed, fairness | a stored report is posted again and again until it is settled, and settled in the end if it has an `error_code` (`ReportRetriedUntilSettled`); every marker is cleared in the end (`MarkerEventuallyCleared`) |
| `ha_runtime` | 3 frame ids, window of 2, 5 stamped events, 3 reports, 1 restart | the displayed frame does not fall behind a generation given, shown and acknowledged, unless a restart re-dated it before the acknowledgement (`AckedGenerationKept`); until the pending frame is shown a redisplay is asked for, unless a restart demoted it (`PendingOwed`); frames handed out stay known within the window (`DeliveredFramesKnown`); replays are harmless (`ReplayHarmless`) |
| `coordinator` | 1 entity, intervals of 8 and 16 ticks, 20 ticks, 1 reconfiguration; 5 windows and 3 zones over three days; 2 calendars, 1 forecast, 17:00 to 24:00; answers of up to 5 events | until it is stopped something will render the next frame (`AlwaysScheduled`), after that nothing (`NothingScheduledAfterStop`); a planned wake does not go by without a refresh around it (`WakeServed`); the planned wake is the next of the series and lies ahead (`PlanIsNextWake`); nothing on a frame is too old or older than its header says (`AgeIsTold`), or of entities no longer configured (`ShownIsOfConfig`); a day's list is its first events and the number of the others (`FirstOfDayListed`) |
| `network` | 3 retries; 2 frames, response limits 1, 2, 1, one unit beyond them; a key of 3, 7 bytes a prompt; every day to the end of 2401 | handlers go before what they use, nothing outlives a failed init or a deinit (`ReleasedInOrder`); `wifi_manager_is_connected` is true (`ConnectedIsTrue`); the station is asked to join only while that is wanted, 4 times at most (`AttemptsWanted`); an HTTP call frees what it holds and stays in its buffer (`MemorySound`), reports only what happened (`OutcomeTrue`), takes only the frame of its manifest (`FrameIsWanted`) and ends (`CallEnds`); the key in use is the one stored, and that is the line typed, or after a timeout the line over what longer ones left (`KeyIsAsTyped`); dates are those of the calendar (`DatesAgree`) |
| `pmic` | every setting of `Wanted` off by itself, 1 failed transfer, 1 reboot, 1 change of battery or gauge; every register of the driver | an init that goes through leaves the chip as wanted and the next one leaves it alone (`InitSettles`); no supply moves but to 3300 mV, and no protected channel (`SuppliesKept`); a battery level is only reported with the gauge on (`LevelIsMeasured`); a setting is what it was set to and disturbs no other (`SettingsApart`); a reported interrupt was raised (`ReportIsReal`) |

The type invariants of `FrameStore`, `WakeCycle`, `PanelPort`, `Coordinator`,
`WifiManager`, `HttpClient`, `BearerKey`, `Pmic` and `Axp2101Driver` are proved and not run
again.

Disagreements between the code and its documentation, each a run whose
counterexample TLC prints:

| Run | Disagreement |
|---|---|
| `ha_regenerate` | a report of an earlier display clears the regenerate request |
| `ha_old_report` | an old report of a frame that was published anew since takes the place of a newer acknowledgement, against `data-model.md:70` |
| `ha_error_code` | the device omits `error_code` from a success, HA requires it and answers 422 |
| `pmic_missing` | "a missing PMIC must not stop the run", but the second wake without one makes the I2C bus again and aborts |
| `forecast_stale` | a forecast that was never answered is "stale" in the frame after it was "unavailable" |

### Also seen

Display, reproduced by changing one constant or reading the state graph:

- With `ScanFaults = TRUE`: a slot that a boot cannot read counts as absent; the
  frame saved next, with a lower sequence, is not "the newest" (`frame_store.h:50`)
  once both read again (`SavedIsNewest` fails).
- A refresh whose `display_state` NVS lost bounds nothing: the next one may follow at once
  (`RefreshesSpaced` has this as its one exception).
- With `NvsErrors = {"lost", "stored"}`, a write that reports an error and is stored
  all the same: `clear_force_redisplay` leaves the RAM flag set, and a later 409
  deletes its report without a durable marker (`ReportSettled` fails).
- With `LocalFailures = TRUE`: when `build_report` runs out of memory, the 409 branch
  (`ha_frame_runtime.c:930`) reads the `last_http_status` of the report before and
  deletes the current one (`ReportSettled` fails).
- After a refresh that failed half-way, the earlier frame offered again is skipped
  and reported as displayed without being drawn (`ha_frame_runtime.c:818-829`),
  against `contracts/device-api.md:82`.
- The report of a success is dropped when the deadline passes before it is posted,
  or behind an older report that could not be posted (`ha_frame_runtime.c:913`). The first
  success answered 422 (`ha_error_code`) is such a report: it stays for ever, is posted
  once a wake, and keeps every later one from being stored or posted, those of failures
  included, which HA could accept.
- `TIME UNKNOWN` is unreachable, because a wake counts as connected only with a
  valid clock (`ha_frame_runtime.c:701`).
- The panel stays powered when the deadline has passed before `epd_driver_sleep`,
  or when the framebuffer cannot be allocated after `epaper_port_init`.
- When the prompt times out without Enter, what is in the buffer is saved as the key
  (`ha_frame_runtime.c:274`): the line as far as it was typed, and behind it the end of a
  longer one given up before. `abcdef`, a blank, `xy` gives `xycdef`. `README.md:67` asks
  for Enter; nothing says what happens without.
- An answer without `Content-Length` is refused, whatever it holds.
- Without deep sleep, the wait between wakes is `pdMS_TO_TICKS` of up to 12 hours
  (`ha_frame_runtime.c:530`, `976`). Where that macro multiplies by the tick rate, 1000
  (`sdkconfig.defaults:50`), in 32 bits, a wait of more than 71 minutes wraps and is
  cut short. The macro belongs to FreeRTOS, so this was not modelled.

Home Assistant:

- With `MaxRestarts = 2`: `async_load` does not put the pending frame back into
  `_frame_order`; a second restart forgets it (`DeliveredFramesKnown` fails).
- `async_load` fills `_frames` with the pending frame and then with the displayed one
  (`runtime.py:246-248`). When both have the same id, because a displayed frame was
  published anew with another one in between, the pending frame loses its newer
  generation. The report of its display is then taken for one of the first generation
  and clears `redisplay_required`, and a late report of the frame in between replaces it
  as the displayed frame, with no redisplay asked for: an old acknowledgement then rolls
  a newer one back, against `contracts/device-api.md:84` and `data-model.md:70`. This is
  what `demoted` and `Redated` take out of the properties of the `ha_runtime` run (with
  two frames, six stamped events and one restart, `PendingOwed` fails without its
  `demoted`). Without a restart a roll-back takes a frame published anew (`ha_old_report`).
- A refresh on demand before the prewake arms the wake itself: the frame is not
  rendered in the minute before it (`coordinator.py:245`, against its comment at 249).
- A reconfiguration, or HA having started, is forgotten by the debouncer when a
  refresh is running; an entity that comes up between its reading and the end of the
  render keeps its placeholder; a frame collected while HA starts may replace the
  stored one. All wait for the next wake.
- With a zone that puts clocks back: a wake in the repeated hour gets a
  `next_poll_at` up to an hour in the past (`coordinator.py:74-77`); until the hour is
  over the display polls at its shortest sleep and HA renders again and again
  (`PlanIsAhead` fails).
- A day window from 30:00 to 02:00 is accepted with its end before its start
  (`config.py:51-64`).
- With `MidRefresh = TRUE`: a reconfiguration during a refresh labels and caches the
  events of the old calendar as the new one's (`coordinator.py:349-354`;
  `ShownIsOfConfig` fails).
- The header's "Updated" time counts the `collected_at` of the old cache of an
  unavailable calendar, which is not shown (`coordinator.py:390`). An answer with only
  invalid events is unavailable at once, "stale" with no events after the next
  failure; a snapshot may be "offline" while a stale calendar is on it.

The driver of the power chip differs from the plain meaning of its own operations
in the places below; `SettingsApart` and its companions state what holds, with
these named as exceptions. Of them the program calls those of the charging light only:

- `setIrqLevel` clears bits 0 and 1 of its register; the setters of the off and on
  level and of fast start only ever add bits; `setPrechargeCurr` overflows its 2 bits.
- `getBatfetDieOverTempLevel1` and its like do not shift; `getLowBatWarnThreshold` does not
  add the 5 that its setter subtracts.
- `disableTSPinLowFreqSample` and `getDC2WorkMode` use another register.
- `setPowerChannelVoltage` sets BLDO2 through BLDO1 and DLDO2 through DLDO1;
  `enablePowerOutput` and `getPowerChannelVoltage` leave out CPULDO.
- `getChargingLedMode` reads bits 6:5, `setChargingLedMode` writes 5:4 and keeps bit 6, reserved
  (`XPowersAXP2101.tpp:2355`, `2378`). `axp_cmd_init` calls both: on a chip that has it set the
  light is off, yet every wake writes it again (`InitSettles` holds of the other lines).
- Failed reads: `setDcUVPDebounceTime`, `setInterruptImpl` and `getIrqStatus` take them for
  0xFF, `getChargerStatus` for "stopped". `clearIrqStatus` clears also what was raised
  after the status was read, and is lost.

### Bounds, and why they are enough

Two slots need three frames to hold two and save a third. Frames in the wake
cycle are only compared: two tell "same" from "other"; the liveness run uses one
because its fairness already makes HA offer what is needed. Wakes are unbounded.
In `HaRuntime` the counters are bounded by guards (`MaxTime`, `MaxReports`,
`MaxRestarts`); a window of 2 with three ids lets frames and report ids leave
it, three reports let a first one be replayed after two others, and one restart
hits every step. That instance stops when the bounds are used up, hence
`CHECK_DEADLOCK FALSE`; so does that of `Coordinator`, whose time is bounded.
`PanelPort` and `WifiManager` have no bound but their constants: an image of two
transfers has a first and a last one, and two images tell the framebuffer from
what an earlier wake drew. 20 ticks hold two wakes of the short interval or one of
the long one with a reconfiguration between. `PollSchedule` runs over three days, so
each of its windows, among them one that starts the next day and one that crosses
midnight, is met from both sides, and the change of clocks lies within. `Sections`
covers 17:00 to 24:00: every cache outlives its limit of six hours and the
three-hour boundaries roll over into the next day. Five events are one more than a
section lists. A response limit of 2 has a middle, a limit of 1 has none, and one
unit beyond is what makes a body too long. A key of 3 lets a line be cut, given up
and typed anew within 7 bytes. The end of 2401 lies after a leap century (2000,
2400), three that are not, and the turn of an era. One failed transfer and one
reboot in `Pmic` fall between every two transfers; the registers a first boot finds
differ from the wanted ones in one setting at a time, since lines of the table do not
depend on each other. Frame ids and calendars are symmetric, and symmetry is used
in safety runs only.

### Fairness

`FairSpec` of `WakeCycle`: the timer wakes the board and `run_once` does not hang
(weak fairness of `Next`: all waits in it have time limits); power losses stop;
strong fairness of the good outcomes (a sleep that outlasts 300 s, network with
time, HA answering, a refresh that completes before the deadline) says that each
of them, if it is possible again and again, happens again and again. That HA settles a
report is assumed only of one with an `error_code`, which the reports of failed displays
have: it refuses all others (`runtime.py:86-87`), so nothing is assumed of those. Nothing is
assumed about HA's choice of frames or of `redisplay_required`.

`FairSpec` of `PanelPort`: the main task goes on, since each of its waits has a time
limit, and the SPI driver sends what is queued some time or other. Nothing is
assumed of the panel: BUSY may stay low for ever.

`MCSpec` of `MCNetwork`: weak fairness of the steps of an HTTP call, since each call
of the transport returns (its timeout is set in `http_request`); nothing is assumed
of what it returns or of the other end.

## Proofs

`FrameStoreProofs` proves, for every set of frames and every number of sequence
values above 2:

- `TypeCorrect`: `Spec => []TypeOK`;
- `ActiveAlwaysIntact`: `Spec => []ActiveSlotIntact`, whatever scans miss;
- `GenerationsOrdered`: `[]GenerationsConsecutive`, when scans read valid slots;
- `SavesAreNewest`: `[]SavedIsNewest`, under the same assumption;
- `StoreImplementsCell`: the refinement of `FrameCell`, under the same assumption.

`ActiveSlotIntact` is not inductive alone. `CoreInv` adds the position of the
save: the slot being written is never the live one, and after each operation it
holds the prefix written so far or damaged bits. `OrderInv` adds that the other
slot, if valid, has the sequence before the live one or the one after it (a save
whose read-back failed), which is what makes `SequenceIsNewer` have one answer.
Lemmas about `NextSeq` and `SequenceIsNewer` carry the modular arithmetic; the
refinement maps `cell` to the newest valid slot and `view` to the RAM record, with
one step per action. The assumption `~ScanFaults` is needed: without it a
missed slot outranks what is saved after it.

`PanelPortProofs` proves, for every set of images and every number of transfers:

- `TypeCorrect`: `Spec => []TypeOK`;
- `DriverKeepsItsTransaction`: `Spec => OwnedUntouched`;
- `SuccessMeansShown`: `Spec => SuccessIsTrue`;
- `PortImplementsPicture`: `Spec => ImplementsPicture`, the refinement of `PanelPicture`.

The invariant behind it, `Ownership`, ties the flag `inflight` to what the SPI driver
really owns and says that between calls a transaction can be with the driver only
when the port is poisoned: that is what makes the check of `s_poisoned` in front of
each refill enough, and the drain in `epaper_port_deinit` necessary. `ScriptInv` goes on
top of it: for each step that is left of a call's script it says what the panel has
been sent by then and whether it is powered (`RefreshInv`, `SleepInv`), and that the
transaction under way is the one of that step, not one an earlier call left behind.
For the refinement `SetUpInv` adds that the initialisation sends nothing that draws and that
a panel which is refreshing has its power. Then each transfer that goes out is one step
of the picture, by its place in the script (`SentMoves`): the last part of an image loads
it, any other spoils the memory, and so may a late one of an earlier call.

`CoordinatorProofs` proves, for every set of intervals and every minute, duration,
cooldown and bound on time and reconfigurations:

- `TypeCorrect`: `Spec => []TypeOK`;
- `AlwaysRearmed`: `Spec => []AlwaysScheduled`;
- `StoppedForGood`: `Spec => []NothingScheduledAfterStop`;
- `WakesServed`: `Spec => []WakeServed`, under `CoordinatorAssumption` (a refresh takes less
  than the minute of the prewake, the cooldown no more).

The first three are inductive together: the last conjunct of `TypeOK`, that the debouncer
is locked exactly while a requested refresh runs, is what makes a fired timer end
in a refresh that runs or is owed. `WakesServed` needs times: `InTime` says that a
refresh and a cooldown end when they should, and that a planned wake which nothing
has been done for yet has an attempt coming by its `Duration` (`AttemptToCome`): one
that runs, a timer armed before that, or one owed by the debouncer.

The same module proves of the schedule and of the sections:

- `PlansAhead`: `next_poll_at` lies ahead, for every window, interval and instant, where
  no zone puts its clocks back;
- `NextWakePlanned`: `PollSpec => []PlanIsNextWake`, under that assumption and where each
  accepted window ends after it starts (both are needed, see Also seen);
- `AgesTold`: `SectionsSpec => []AgeIsTold`, for all entities and hours;
- `ConfigShown`: `SectionsSpec => ShownIsOfConfig`, when no reconfiguration comes during a
  refresh (needed, see Also seen).

A candidate of the schedule is one of a series if it lies between the ends at a
whole number of intervals (`InSeries`); the candidates reach a day ahead, and the
plan is the least of them, by well-foundedness. Behind `AgesTold`, `AgeInv` says of each
cache and of each section under way that it carries the hour its data are of (`Dated`)
and, of events, that they are of the day and within six hours (`Recent`); `OfConfig`
says whose data they are.

Of the calendar itself it proves `DayListed`, `EventsSpec => []FirstOfDayListed`, for any
calendar, answer, hour and limit. The loop of `normalize_calendar_events` is a recursive
function of the events read so far; that after `i` of them it has taken events of the two
days only, one of each identity, and missed none (`TookUpTo`) is proved with the least `i` at
which it would be wrong, in place of an induction. The sort puts an event where as many
come sooner as its place says (`SortedIs`): the number of sooner events maps a set of
`n` events one to one into `0..n-1`, so onto it. The count of what is left over is a bijection
between identities and taken events.

`WifiManagerProofs` proves, for every retry limit, each property its run checks:
`TypeCorrect`, `ReleaseOrder`, `ConnectedFlagTrue` and `OnlyWantedAttempts`. The
invariant has three parts: `Held` says what is allocated, registered and flagged at
each step of the main task; `OnAir` that the station is active, and events wait,
only between start and stop and under both handlers; `Pending` what the last
waiting event will make of `connected`, and that the retries count the attempts.

`WakeCycleProofs` proves, for every set of frames and whatever NVS writes do unless
said otherwise:

- `TypeCorrect`: `Spec => []TypeOK`;
- `RefusalHolds`: `Spec => []RefusalEndsRequests`;
- `ReportsSettled`: `Spec => ReportSettled`, when a write that reports an error stored
  nothing and `build_report` does not run out of memory (both are needed, see Also seen);
- `MarkersOutliveRecovery`: `Spec => MarkerOutlivesRecovery`;
- `RefreshesApart`: `Spec => RefreshesSpaced`.

`WakeInv` is inductive: `Others` are types, `Sane` what the locals of a wake never
are together, and `Placed` what they are at each step, for instance that RAM knows of
a report in NVS. On top of it `Settles` says that a report about to be deleted has
its answer and that RAM never claims a marker NVS does not hold, and `Shows` that
between a refresh and its record the panel shows what `run_once` believes. `Spacing`
says that a refresh less than 300 s ago that NVS did not lose is recorded there as such, by
the same clock that the next wake reads, so that none starts before the time is over.

`NetworkProofs` proves of `HttpClient`, for every set of frames and reports and all
response limits: `HttpTypes`, `MemoryIsSound`, `OutcomesAreTrue`, `FramesAreWanted`. `HttpInv`
joins seven parts: `Shapes` and `Sorts` are types, `Held` lists what is allocated at
each step, `Room` bounds what is in the buffer and still to come, `Told` is what has
been learned of the answer by then, `Asked` ties the call to its manifest, and
`Judged` is the outcome of the last call.

Of `BearerKey`, for every `HA_KEY_MAX` and every set of printable bytes: `KeyTypes` and
`KeyStaysAsTyped`. `KeyInv` says that the buffer always ends (`Terminated`), holds the line
typed over what others left (`Typing`), and that from the end of the prompt to the
commit NVS holds no other key (`Keeping`); the lemmas about the string in a buffer
use that the first Nul is unique.

Of `IsoTime`, for every last year up to 9999: `DatesCounted`, `IsoSpec => []DatesAgree`. Its
invariant is that the date is one of the calendar and that `Days` is the number of
days walked. The step lemma `TomorrowCounts`, that `Days` of the next day is one more,
rests on `MonthsFollow` within a year and on `YearLength` and `YearsFollow` from one year
to the next, through eras of 400 years.

`HaRuntimeProofs` proves, for every set of frame ids, every window and bound on times,
reports and restarts:

- `TypeCorrect`: `Spec => []TypeOK`;
- `AckedKept`: `Spec => []AckedGenerationKept`;
- `PendingAsked`: `Spec => []PendingOwed`;
- `ReplaysHarmless`: `Spec => ReplayHarmless`;
- `FramesKnown`: `Spec => [](restarts <= 1 => DeliveredFramesKnown)` (with a second restart it
  fails, see Also seen).

What survives a restart must hold of RAM, of what is stored and of each snapshot on its
way there, so the invariants speak of views: RAM, and what `async_load` would make of a
snapshot (`Loaded`; `SnapshotType` relates it to the RAM it was saved from, `Restored`).
`Acked` says that the displayed generation never falls from the Store along the queue
to RAM, and that the write a success waits for is not below the generation of its frame. `IInv` says of each view that the pending frame is the newest (`Sound`), that
without the flag it is the displayed one and every other known frame too old to change
that (`Owes`), and that each report whose effects are in it is stale there or its frame
newer than the report (`Settled`); `Answered` says that a report id is only known when
the report was answered or waits in the queue no later than the snapshot. `Queue`, in
the types, is the lock: at most one write is not of the button. The filter of a
sequence is a recursive function, `Kept`; what it returns is proved with the least
position at which it would be wrong, in place of an induction. For `FramesKnown`,
`Remembered` says that RAM knows the newest frames and orders frames as they were
published (`Placed`), and that before a restart this order is complete (`Complete`) and
each snapshot on its way to the Store keeps the newest of its time (`StoreKeeps`).

`PmicProofs` proves, for every set of registers the chip may be found with, failed
transfers, reboots, and batteries fitted or not (`PmicAssumption`):

- `LevelMeasured`: `Spec => []LevelIsMeasured`;
- `InitLeavesLines`: `Spec => []LinesHold`, `InitSettles` for every line of the table but the
  charging light's;
- `InitLeavesAll`: `Spec => []InitSettles /\ []StaysConfigured`, when no chip is found with
  bit 6 of the light's register set (`LedSound`; needed, see Also seen);
- `PmicTyped`, `ReportsReal`, `SuppliesStay`: `PmicTypes`, `ReportIsReal` and `SuppliesKept`, of
  program and driver;
- `SettingsStayApart`: `MCSpec => []SettingsApart`, for each of the settings of the table
  and every content of their registers.

`PmicInv` has three parts: `Shape` is types and positions; `Progress` says that the lines
passed without a failure hold, and once an init has gone through all of them, for
ever; `Quiet` that an init after that finds nothing to write. That a setter stores its
value and keeps the others' comes down to its masks, bit by bit (`Digit`, `BitsAre`).
`MCInv` adds the driver by itself, of which one part moves at a time.

`SettingsStayApart` goes from numbers to masks: a code that fits the bits of its setting is
what those bits read (`NumOfBits`, `FitsAre`), shifted into place and back (`ShiftedBack`);
steps of ranges that do not overlap decode to what was coded (`RangesDecode`); and each bit of a
register belongs to one setting (`Owner`), so that what one setter clears and sets is
outside of what the others read. What is particular to a setting is read from the table,
row by row.

Only model-checked is what needs fairness: `PoisonHeals`, `CallEnds`,
`ReportRetriedUntilSettled` and `MarkerEventuallyCleared`; liveness is out of the prover's reach.
Every other property of the passing runs is stated by a theorem.

## Not modelled

- NVS reads that fail (the code has no state to recover by, and the partition is
  mounted); a Store write that fails while HA goes on; clock skew between the two
  sides; rate limits, authentication, JSON, request sizes and content negotiation.
- Of the wake cycle: the exact sleep times (only shorter or longer than 300 s), the
  drawing of the overlay.
- In `Coordinator`: the rooms, which are read without a cache, and the summary status
  of a snapshot. Of normalisation: parsing of dates and numbers, units, matching of
  hourly values to boundaries, defaults of the configuration.
- In `WifiManager`: a preemption inside `sntp_sync_callback`, which tests the event group
  before it uses it.
- Of the power chip: `axp_basic_sleep_start` and two demonstration tasks, which nobody
  calls, and measurements that only reach the log; the contents a first boot finds
  leave out the manual 1 Hz mode of the LED and a reserved bit 6, for which the
  getters do not return what was set (see Also seen).
- `epaper_port_clear`, `epd_driver_clear` and `epd_driver_reset`, which the firmware does not
  call.
- The renderer (pixels), entities and configuration flow (views and forms), the
  drivers of other power chips (nothing instantiates them), the unused SPI backend.

## Plan

Done: the core (cache, wake cycle, runtime, panel port), the coordinator with its
schedule and sections, the network, the key, the power chip, and the proofs above.
What would come next:

1. `Display`: composition of `WakeCycle` and `HaRuntime` over a lossy network, with
   end-to-end properties (a pending frame is eventually acknowledged).
2. An abstract specification of a request, which `HttpClient` implements and `WakeCycle` uses,
   as `PanelPicture` is one of a refresh.
3. Preemption in the SNTP callback; `frame_store`'s mutex, should a second task use it.
