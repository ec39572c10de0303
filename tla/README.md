# nrfProxy: specification, model checking and proofs

nrfProxy is Zephyr firmware that puts a Nordic chip between a phone (Bluetooth LE,
Nordic UART Service) and a motor controller (UART). It forwards bytes both ways, lets
only the first phone that paired with it on the link, switches a relay at the phone's
command, and changes the UART's baud rate at run time. This directory holds TLA+
modules that model its core logic, the TLC configurations that check them on small
instances, and proofs, checked by TLAPS, of every safety property of the code that the
configurations check, for all values of the constants.

Paths below are relative to the repository; `main.c` is `src/main.c`, and so on.

## 1. The system

### Threads

| Thread | Runs | Model |
|---|---|---|
| main | `main()`: boot, bonds, factory reset, first advertising | `Link`, `StatusLeds`: thread `main` |
| system workqueue | `adv_slow_work`, `adv_retry_work`, `adv_blink_work`, `security_timeout_work`, `relay_grace_work`, `uart_rx_retry_work`: one handler at a time | `Link`, `StatusLeds`, `UartBridge`: thread `wq` |
| Bluetooth RX thread | connection, security and pairing callbacks, `nus_received` | `Link`, `Forward`, `Command`, `UartBridge`, `StatusLeds`: thread `bt` |
| whoever drops the last reference of the connection object | the `recycled` callback | `Link`, `StatusLeds`: thread `rec` |
| `ble_write_thread` | serial to phone | `Forward` (data), `Link` (the connection it holds) |
| UART interrupt | `uart_cb`: receive ring, RX buffers, TX pump | `UartBridge`, `Forward`: steps between the steps of the threads |

They share `conn_mutex` with what it protects (`current_conn`, `link_secure`,
`adv_active`, `relay_enabled`), the delayable works, the semaphores `rx_data_ready` and
`rx_quiesced`, the two rings, and the flags `uart_reconfiguring` and `tx_in_progress`.

### Components

**BLE lifecycle** (`main.c`). State: `current_conn`, `adv_active`, the works, and in
the host one connection object (`CONFIG_BT_MAX_CONN=1`) with its references.
Operations: `advertising_start`, the switch from fast to slow advertising, the retry,
`on_connected`, `on_disconnected`, `on_recycled`. Hard: the flag is kept by hand across
threads; `bt_le_adv_stop` recycles the object in the middle of the switch; a central
may connect between a check and a start; advertising can resume only when the *last*
reference to the old connection is gone. Correct when the flag tells the truth, one
advertiser is on air at most and never beside a connection, and the device is always
advertising, connected, or about to advertise.

**Pairing lock** (`main.c`). State: the stored bonds, `locked_mode`, the controller's
filter accept list, `link_secure`, the security watchdog. Operations:
`refresh_locked_mode`, `pairing_complete`, `on_security_changed`, the watchdog, the
factory reset at boot. Hard: failures half-way, power cycles, and one watchdog work for
all links. Correct when, once a bond is stored, only its phone gets on the link, nothing
is sent over a link that is not encrypted, and a link that never encrypts ends.

**Relay** (`main.c`). State: `relay_enabled`, `relay_grace_work`. Operations:
`relay_set`, `relay_grace_start` at a disconnect, `relay_grace_handler`, the cancel in
`on_security_changed`. Hard: an expiry that is already on the queue races the reconnect.
Correct when the owner on a secure link never loses the relay, and a relay without its
owner is always on the way off.

**UART bridge** (`uart_bridge.c`, `uart_rx_retry.c`). State: the RX slab, the retry
work, the TX ring and its staging buffer, the two flags. Operations: `uart_cb`, the
retry, `uart_bridge_send`, `uart_bridge_set_baud`. Hard: the interrupt, the workqueue
and the Bluetooth thread all restart reception and all pump transmission; any driver
call may be refused; the 200 ms wait may run out. Correct when buffers and bytes are
accounted for, reception always comes back, and one transfer runs at a time.

**Forwarding, serial to phone** (`main.c`, `uart_bridge.c`). State: the RX ring,
`rx_data_ready`, the writer's locals. Operations: `UART_RX_RDY`, the loop of
`ble_write_thread`, `send_processed`, the drain. Correct when no wake-up is lost, bytes
arrive in order and once, and one link's bytes do not go out over the next.

**Device-control commands, and phone to serial** (`main.c`, `proxy_core.c`).
`nus_received` tells a 16-byte command from data by its framing and an 8-bit checksum,
carries it out and echoes it. Correct when damage is never taken for a command, a
command never reaches the motor controller, and the echo means what the phone takes it
to mean.

**Status LEDs and the bond-reset button** (`main.c`). State: `current_status`, the three
LEDs, `adv_blink_on`, `adv_blink_work`. Operations: `set_status_leds`,
`adv_blink_handler`, the polling of the button at boot. Hard: nothing locks the LEDs, four
threads drive them, and a cancel does not wait for a handler that has started. Correct when
whatever an overlap has left behind is put right by the next status that is set without
one: one LED at most is then lit, and it is that of what the device does.

**Link policy** (`proxy_core.c`). Pure predicates and sizes the others call.

**Drop statistics** (`drop_stats.c`, `uart_bridge_log_drops_if_due`). The interrupt and
the sender bump counters, `ble_write_thread` reports them when it has been woken. Correct
when reports are spaced, and a due one is made, on a clock of 32 bits.

**Device identity** (`proxy_core.c`). Address, name and manufacturer id, computed at every
boot from the chip's hardware id. Correct when the address is a legal static-random one
and two units can be told apart.

**Logging, boards and build**: see section 6.

## 2. The modules

| Module | Models | Extends |
|---|---|---|
| `ProxyCore` | the policy operators of `proxy_core.c` | |
| `Service` | abstract: what the device is to the people around it | |
| `Link` | BLE lifecycle, pairing lock, relay; implements `Service` | `ProxyCore` |
| `MCLink` | interchangeable phones for TLC | `Link` |
| `LinkProofs` | the inductive invariant of `Link`, the refinement, theorems | `Link`, `TLAPS` |
| `LinkClock` | `Link` with a countdown for each delayable work | `Link` |
| `LinkClockProofs` | theorems about `LinkClock` | `LinkClock`, `LinkProofs` |
| `UartBridge` | `uart_bridge.c`: reception recovery, TX pump, baud change | |
| `UartProofs` | theorems about `UartBridge` | `UartBridge`, `TLAPS` |
| `DropStats` | the drop report | |
| `DropStatsProofs` | theorems about `DropStats` | `DropStats`, `TLAPS` |
| `Forward` | serial to phone | `ProxyCore` |
| `ForwardProofs` | theorems about `Forward` | `Forward`, `TLAPS` |
| `ProxyCommand` | `proxy_cmd_parse` and its checksum | |
| `Command` | `nus_received`: effects, echo, phone to serial; damaged commands | `ProxyCore`, `ProxyCommand` |
| `MCCommand` | the writes TLC tries, and how they are classified | `Command` |
| `CommandProofs` | theorems about `ProxyCommand` and `Command` | `Command`, `TLAPS` |
| `StatusLeds` | the LEDs and the bond-reset button | `ProxyCore` |
| `StatusLedsProofs` | theorems about `StatusLeds` | `StatusLeds`, `TLAPS` |
| `Identity` | `proxy_identity_derive`, with its theorems | `TLAPS` |

Names are those of the source where TLA+ allows it: `SlowSwitch*` is
`adv_slow_handler`, `Watchdog*` is `security_timeout_handler`, `RelayGrace*` the grace
window, `Baud*` the body of `uart_bridge_set_baud`.

### Steps

One action is what a thread does between two points where another thread can observe or
change what it works on. A critical section of `conn_mutex` is one step; the one that
spans several calls into the host, in `adv_slow_handler`, is several steps with the
mutex held (`ConnMutexFree`, reentrant for the callback that `bt_le_adv_stop` may run
synchronously). Where a handler works on after the unlock - a LED, a work to schedule, a
pointer to use, a flag it copied - that is another step. Zephyr's threads preempt by
priority; the models let every thread run between any two steps, which allows every
schedule of the real system and more.

`pc` in `Link`, `bt`, `wq` and `writer` in the others say where a thread stands. What
belongs to the host, the driver and the phones (`advertiser`, `phase`, `refs`, `rx`,
`tx`, `up`, ...) is the environment, modelled from how the code uses it. Auxiliary
variables, never read by an action of the code, record history for the properties
(`encrypted`, `undropped`, `unlisted`, `arrival`, `got`, `accepted`, `sent`, `applied`,
`passed`, `dropped`, `restarted`, `alone`).

### Link

`refs` is the set of holders of the only connection object, `phase` how far the host has
come with a link: connected but not yet reported (`complete`, `failed`), `up`, `lost`
but not yet reported, `closing` until the host releases the object. `Unref` of the last
holder makes a `recycled` callback due. `on_disconnected` is three steps
(`OnDisconnected`, `...Works`, `...Clears`), and the grace handler, the
watchdog, the writer and the next start of advertising come in between. Calls that can
fail (`bt_le_adv_start`, `bt_le_adv_stop`, `bt_le_filter_accept_list_clear` and `_add`,
`bt_conn_disconnect`, `bt_unpair`, the initialisation) do so as long as the budget
`MaxFaults` lasts. `PowerCycle` loses everything but the bonds, at any moment.

`refresh_locked_mode` only logs a failed `bt_le_filter_accept_list_add`. The owner is then
not on the list that the filter goes by and stays shut out until the next refresh, which
is at the next boot or pairing; `unlisted` marks that. `OwnerAdmitted` is about everything
else: no other failure, race or restart leaves a device on the air whose list is not that
of its bonds.

A definition that a mutant changes stands for one decision of the code
(`Retry`, `Watchdog`, `GraceWindow`, `Back`, `Filtered`, ...), with the mutant above it.

### Service, and how Link implements it

`Service` has four variables: the link (`silent`, `advertising`, `open`, `secure`), the
phone it serves, the phone that owns the device, and the relay. Its actions are what a
user can see: `Advertise`, `Connect`, `Secure`, `Pair`, `Command`, `Release`,
`Disconnect`, `Restart`, `Forget`. `Link` maps its state to it (`ServiceLink`, `Device`):
a link exists for the user from `on_connected` to `on_disconnected`, it is secure when
`link_secure` says so, and the owner is the stored bond. `IsService` is then a promise
about everything at once: nobody but the owner connects to a device that has one; the
owner changes only by pairing over a secure link or by a reset of a device that serves
nobody and whose relay is off; nobody but a phone on a secure link switches the relay on.

### LinkClock

`Link`'s next-state relation with a countdown for each delayable work: a
`k_work_reschedule` sets it, and the work is taken from the queue when it has reached 0.
Four observers measure how long a link has been up, how long the device has been idle
without advertising, and how long, and over how many drops, the relay has been on since
the last secure link. Time passes only while no handler is at work, and the radio link
does not come and go inside a handler (`HandlersAreShort`): handlers take microseconds, a
tick stands for seconds.

### UartBridge

A buffer is in the slab, with the driver, or in the hands of a thread between its
allocation and `uart_rx_enable`. The TX ring holds, for each byte, the rate it was
written for. `RxStops` is the driver's, whenever it likes; a driver call that the code
checks fails within `MaxFaults`. `BaudTimesOut` may win against any `RX_DISABLED`.

`cooperative`, chosen in `Init` and kept, says whether the Bluetooth RX thread and the
workqueue run on until they wait, as they do with the default priorities of Zephyr (the
build sets no other), or may preempt each other (`ARCHITECTURE.md:65` has the workqueue
preemptible). Only `ConfiguredQuiet` depends on it. It is what the comment at
`uart_bridge.c:290` claims, that the auto-restart work cannot fight the reconfigure, and
`uart_reconfiguring` alone does not achieve it: a retry that is past its test of the flag
(`uart_bridge.c:94`) when it is preempted enables reception after `uart_rx_disable`, and `uart_configure` meets a
receiver that is on. Everything else holds either way.

### Forward

Bytes carry their number in the order of arrival, so order, loss and duplication are
visible at the phone. The hook `on_uart_rx` copies its input in the code; the model makes
`HookCopies` bytes of each, because the ring must be released by what was claimed and not
by what the hook returned, which a copy cannot tell apart.

`DropStats` is the drop report, for any width of the clock: `since` is the real time since
the last one, `uptime` what the code sees of it, modulo `Wrap`. Between the two reads of
the counters the interrupt may bump either. The report is made only when the writer is
woken by something else, so nothing is claimed of drops while the serial line and the link
are both quiet, nor of a report due a whole turn (49.7 days) after the last, which the
code may put off by up to one interval.

### Command

Classification works on real bytes. `Command` takes the phone's side too: it waits for
the echo and concludes, rightly or not, what became of its command. `Corrupted` is what
damage can make of one: any other value of any one byte, and wrong lengths.

What a command did does not last for ever, and what undoes it is in the module:
`OnDisconnected` arms the grace window of a relay that is on, `GraceStarts` and
`GraceExpires` are the two halves of `relay_grace_handler` - taken off the queue, and past
the look at the link (`Back`) - and `OnSecurityChanged` cancels it, but not once it is off
the queue. `PowerCycle` resets the device and leaves the phone with what it believes.
`EchoMeansApplied` says what a confirmed command can count on for all that (`Effect`): an
enabled relay until that link drops, a disabled one for good, a rate until the device
restarts (`dropped` and `restarted`, since the write). The case it is about is the window
of an earlier link: its expiry may be under way while the owner reconnects and enables the
relay again.

### StatusLeds

Each access to a LED, and to the work and the flags that belong to the blinking, is a step,
and any of the four threads may run between any two: nothing in `main.c` keeps them apart.
When they overlap the LEDs can be left wrong. A status is set while `adv_blink_handler` is
past its check (`main.c:96`) and about to drive its LED (`main.c:101`): two are lit. Two
threads set a status at once: the older wins, or the blinking is cancelled that the other
has just scheduled. `alone` records whether the status last set, and the blinking after
it, met nobody else at the LEDs. `LedsShowLink` is about what follows then: whatever
earlier overlaps left - lit LEDs, a scheduled blinking, a handler's phase - the LEDs show
the device again.
It does not promise that an overlap never shows, which the code does not achieve; such a
state lasts until the next status.

How much of this the device meets depends on priorities. With Zephyr's default, which
`prj.conf` leaves alone, the workqueue and the Bluetooth threads are cooperative, and only
`main()` can be overtaken inside `set_status_leds`, at its first start of advertising;
`ARCHITECTURE.md:65` calls the workqueue preemptible, and then every overlap above can
happen. The module assumes neither.

Of the link it has what decides a status: `held`, from the end of a link, or of a failed
attempt, to the `recycled` callback of its object - in between `bt_le_adv_start` fails for
want of one, and the error LED shows it - and `freed`, the object of an advertiser that
`adv_slow_handler` has stopped, whose callback finds nothing to do unless the slow start
failed. `SlowSwitch` is that handler in one step: it holds the mutex throughout and sets
no status, so when its start fails the LED goes on blinking until the retry.

### Identity

The bytes of the hardware id in, address, name and manufacturer id out. `"%02X"` is
modelled as the two hexadecimal digits it writes.

## 3. What is checked

| Run | Instance | Shows |
|---|---|---|
| `link_safety` | two phones (symmetric), relay, 3 connection attempts, 1 failure, 1 power cycle | `OneAdvertiser`, `RestartComing`, `AcceptListNotInUse`, `OwnerAdmitted`, `OwnerOnly`, `NoStalePointer`, `SecureOnly`, `WatchdogArmed`, `RelayCovered`; of steps, `OwnerKeepsRelay`; and that `Link` implements `Service` (`IsService`) |
| `link_live` | one phone, relay, 2 attempts, 1 failure | `Reachable`, `UnsecuredLinkEnds`, `RelayReleased`: a relay without a link is released, unless a further link comes |
| `link_watchdog` | one phone, 1 attempt, 1 failure | finding: `UnsecuredAlwaysEnds` is violated |
| `clock` | one phone, 3 attempts, 1 failure, 1 power cycle; retry 1 tick, fast phase 2, watchdog 3, grace 2 | `OneWindowPerDrop`, `NeverCutEarly`, `SlotFreedInTime`, `WatchdogPatient`, `SilenceBounded` |
| `clock_doc` | the same | finding: `ReleasedAfterGrace` is violated |
| `uart` | 2 buffers, TX ring 3, transfers of 2, 3 bytes, 2 failures; threads with and without preemption | `SlabConserved`, `RxRecoverable`, `OneTransfer`, `TxAccounted`, `TxPumped`, `RxNeverDead`; of steps, `ConfiguredQuiet` |
| `uart_stale_bytes` | 4 buffers | finding: `StaleBytesDropped` is violated |
| `forward` | ring 3, 4 bytes, 2 links, hook doubling, chunks of 20, 1 and 2 bytes, 1 shortage | `NoLostWakeup`, `InOrderOnce`, `CleanStream`, `BytesAccounted`, `RingEmpties` |
| `drops` | a clock that wraps at 8, an interval of 3, 2 bytes dropped on each side | `ReportWhenDue` |
| `command` | 8 kinds of write, 3 writes, 3 links, 1 power cycle; 3 commands with all one-byte changes and wrong lengths | `EchoMeansApplied`, `OneEcho`, `OnlyDataForwarded`, `HandlerReturns`, `CorruptionDetected` |
| `command_no_echo` | the same writes, 2 links, no power cycle | finding: `NoEchoNotApplied` is violated |
| `leds` | three LEDs, 3 polls of the button, 2 attempts, 2 failures; threads interleave at every access | `LedsShowLink` |

`link_safety` and `forward` also check the type invariant of their module (those of the
others are part of what section 5 proves). Each
property is listed in PROJECT.json with a mutant - a definition changed as a plausible
bug would change it, beside the original in the module - under which TLC finds the
property violated.

### Why the bounds are enough

- *Connection attempts*: the code keeps nothing of a link when it is over but the relay,
  the bonds and the works. Two attempts give a first link, its remains and a second one;
  three let the works of two links meet in a third, and the grace window be re-armed
  twice. `RelayReleased` does not rest on the bound: links that keep dropping hold the
  relay on for as long as they do (finding 2), and it claims a release only if no other
  link comes first.
- *Phones*: the pairing lock tells the owner from others; one of each is enough.
- *Failures*: one is enough for every error path with everything else working. In the
  UART bridge two, since its recovery from one refused call can be refused too.
- *Buffers*: the driver holds two at most. With two in all the slab is empty whenever
  reception runs, the case in which recovery must wait; the four of the code only make
  that rarer.
- *TX ring 3, transfers of 2*: a transfer can leave a remainder, and an abort can lose a
  part of one.
- *Forward*: chunk limits of 20 (no MTU known), 1 and 2 bytes against a ring of 3 and a
  doubling hook give one slice, several slices and a remainder, and the ring overflows;
  `PROC_BUF_SIZE` 4 truncates the hook's output.
- *Clock*: the retry is the shortest delay, as in the code (1 s against 30 s and 60 s);
  grace and watchdog windows (60 s both) are 2 and 3 ticks. Links may come up, end and
  come up again at any tick, so the works of two links expire in every order.
- *Wrap 8*: every pair of instants, every interval, every position of the wrap.
- *Command*: one of each kind of write - both relay commands, a baud rate, three framed
  but refused commands, a packet with a wrong checksum, a short chunk - and three in a row.
  A link to enable the relay, one in which the window it left expires, one after that.
- *LEDs*: two attempts are a link, its end, and what comes after; the second failure lets
  the retry of a failed slow switch fail too.

### Deadlock

Checked, except in `forward`, `command` and `leds`. There an idle device whose phone has
gone for good, within the bound on links, and whose serial line is silent - or whose boot
has failed - really has nothing left to do. In `Link` that is a step of its own
(`AtRest`), so that a device stuck elsewhere is a deadlock.

## 4. Fairness

- `Link`: weak fairness of main, the workqueue, the callbacks, the recycled callback and
  the writer (Zephyr schedules every ready thread: none of them waits busily), of each
  delayable work (its delay elapses and the queue takes it), and of the host's release
  of a connection after its callbacks. Nothing is assumed of phones: a central may stay
  silent, never pair, never disconnect. `PairingComplete` and `RelayCommand` start only
  because a phone asks, and are not fair.
- `UartBridge`: the two threads and the delay of the retry. Nothing of the driver: it may
  never send an event, and the 200 ms timeout is what lets `uart_bridge_set_baud` return.
  `RxNeverDead` says "not off for good", a receiver that is stopping being the driver's to finish.
- `Forward`: the writer and the callbacks. A shortage of buffers in the host passes:
  `MaxShortages` bounds it. A host that never had a buffer again would hold the writer
  in its retry loop, which the code accepts.
- `Command`: the Bluetooth RX thread. Tries are bounded by the code itself.

### Assumptions about time

The models, `LinkClock` apart, are untimed but for three orders that rest on orders of
magnitude, each stated at the action concerned:

1. `Link`: the grace window (60 s) does not elapse inside the callback that armed it.
2. `LinkClock`: the radio link does not come and go inside a handler.
3. `Forward`: between the end of a link and the moment the next is encrypted - a scan, a
   connection, an encryption procedure - the writer has looked at the ring once.
   Without it `CleanStream` would not hold: the writer discards when it next looks, and
   nothing else does.

## 5. What is proved

Every safety invariant and every action property that a passing run checks is a theorem,
for all values of the constants that the named assumption of the module allows, the
bounds on attempts, failures and bytes included:

| Module | Theorems | Assumes of the constants |
|---|---|---|
| `LinkProofs` | `TypeCorrect`, `AdvertiserFlag`, `AlwaysRestarts`, `AcceptListSafe`, `OwnerGetsIn`, `Ownership`, `References`, `EncryptedOnly`, `Watched`, `GraceRuns`, `RelayOwner`, `Implements` | finitely many phones |
| `LinkClockProofs` | `RelayBounded`, `SlotFreed`, `SilenceEnds`, `WindowInFull`, `WindowToEncrypt` | the same; delays are not 0 |
| `UartProofs` | `TypeCorrect`, `SlabKept`, `RxComesBack`, `TxExclusive`, `TxCounted`, `TxKicked`, `QuietReconfigure` | at least 2 buffers; ring and staging buffer of a size that is not 0 |
| `DropStatsProofs` | `Reported` | an interval shorter than a turn of the clock |
| `ForwardProofs` | `TypeCorrect`, `WriterWoken`, `Delivered`, `CleanStart`, `Accounted` | ring, `proc_buf` and the growth in the hook are not 0 |
| `CommandProofs` | `TypeCorrect`, `EchoTrue`, `EchoedOnce`, `DataForwarded`, `CorruptionIsData` | the phone writes sequences of bytes |
| `StatusLedsProofs` | `OneLedPerState` | nothing: for the LEDs of any board |
| `Identity` | `AddressIsStatic`, `UnitsTellableApart` | |

None of the invariants of the models is inductive as it stands. Each proof module begins
with the strengthening, `IInv` (`ClockInv`), whose conjuncts are what the code relies on
without saying it; TLC has checked them as invariants before they were proved.
`Invariance` (`ClockInvariance`) says that it holds throughout, and the others follow.

### Link

`LinkProofs` holds with and without a relay. `IInv` adds to the safety properties:

- `BootQuiet`: until `main()` starts advertising, nothing else has happened. The first
  `refresh_locked_mode` is safe for that reason alone.
- `Object`: who can hold the connection object. An advertiser excludes every reference; a
  link the host knows of holds one; a pointer kept in a local comes with a reference and
  names the latest link. `NoStalePointer` rests on it.
- `Callback`: where the Bluetooth thread can stand in each phase of the link, and that
  `link_secure` implies a connection. A command or a refresh that is under way still has
  its secure link, since `on_disconnected` waits in the same thread: that is why the copy
  of the flag in `nus_received` is sound.
- `Switch`: `adv_active` stays set across the stop and start of the slow switch; set
  without an advertiser, it means that switch or a connection not yet reported. This
  keeps the recycled callback from starting a second advertiser.
- `Locked`: accept list, advertising filter and `locked_mode` follow the bonds, but for a
  list marked `unlisted`.
- `GraceCovers`: inside `on_disconnected` the window is armed before the link state that
  covered the relay so far is cleared.

`InitHolds` and one lemma per thread (`AdvertisingStep`, `MainStep`, `WorkqueueStep`,
`CallbackStep`, ...) with a case per action give `Invariance`; the theorems follow
from it. `RelayOwner` adds `RelayChanges`: only the command, the expiry and a power cycle
change the relay. `Implements` adds `VisibleSteps`, which names the actions that change
anything a user sees, and `ServiceStep`, which takes each of them to an action of
`Service`, or, in a state that satisfies `IInv`, to a stutter. It needs the invariant: that
`PhoneConnects` is not yet visible, for instance, and that `OnConnected` is a `Connect`
its owner may make, follow from `Object` and `OwnerOnly`.

### LinkClock

Every step of `LinkClock` is one of `Link`, or a tick, which leaves the variables of `Link`
alone, so `IInv` holds. `ClockInv` ties each
countdown to the observer that measures the same time:

- `Watching`: while the watchdog waits, the time the link has been up and the time left
  to the watchdog add up to the window; when it is at work the window has just elapsed.
  So it was armed for the link that is up. `Short`, which says that a link does not end
  inside a callback, and the reference the handler holds (`Held`) keep an older one from
  reaching a younger link.
- `Granted` and `Covering` bound the time the relay has been on alone from above and from
  below: at most one window per drop, at least one before an expiry cuts it.
  `Covering` also says where an expiry may still meet a secure link: only until
  `on_security_changed` has reached its cancel.
- `Waiting`: a device that is silent and waits for a retry has a failed call to show for
  each retry delay. Only a start that meets the old connection object fails for free, and
  then the release of that object is still to come.

`RelayMoves`, `WatchdogMoves`, `ReferenceMoves` and `SilenceMoves` name the few actions
that touch what a conjunct speaks of, so that its preservation is a handful of cases and
not all of `Next`. The attempt on `WindowInFull` corrected the property: a power cycle
turns the relay off inside the window too, and may do so while the expiry handler runs,
which `NeverCutEarly` had not excepted and a run without power cycles could not show. The
run has one now.

### UartBridge

Reception and transmission share only the flag, so `IInv` is `RxInv /\ TxInv`, and
`TxUntouched` and `RxUntouched` leave each step one of them; the types are split the
same way, and `Parts` puts them together.

- `Claim`: `uart_reconfiguring` is set exactly between the claim and the release in
  `uart_bridge_set_baud`, so that every path that leaves recovery to the reconfigure
  leaves it to somebody who is still under way. `RxComesBack` needs it.
- `Held`: the driver that is off holds no buffer. That is why a buffer freed after a
  refused `uart_rx_enable` was still in the thread's hands, and why `-EBUSY`, counted as
  success, frees none twice.
- `Staging`: `tx_in_progress`, the staging buffer and the driver's transfer come and go
  together, but for the thread between `uart_tx_kick`'s check and `uart_tx`, where the
  buffer is staged and the driver idle. `TxExclusive`, `TxCounted` and `TxKicked` all
  rest on it, and `StageSplits` adds that a chunk and the rest share out the ring.
- `Quiet` is the strengthening of `QuietReconfigure` alone, and holds of cooperative
  threads (`cooperative => Quiet` is inductive, with `IInv`): neither thread is left in the
  middle of something while the other runs; once the stale signal is taken back, a signal
  in `rx_quiesced` means that reception is off, and it stays off until `uart_configure`
  (a retry already queued finds the flag set); and from the abort on no transfer is
  started (`Claim`: no kick passes the flag).

### Forward

- `Hands`: what the writer holds follows from where it stands.
- `OneLink`: the link it holds is the current one, and still secure, or has ended.
- `RingKeeps` and `InOrder`: what the phones have got, what is left of `proc_buf` and
  what is in the ring are increasing, and each lies before the next. The hook may make
  any number of bytes of one, so order is that of the byte an output comes from
  (`Origin`, with `Copy`, `OriginOrder` and `OriginBound`).
- `Fresh`: since the writer has looked at the ring after the last link's end, all it finds
  there and holds came after that end. `CleanStart` follows, from this and from
  assumption 3 of section 4, which the model has in a guard.

### Command

- `InHand`: where `nus_received` stands tells what kind of write it has.
- `OnLink`: a command being handled is one of a link that was secure and has not been
  reported gone, so that an expiry finds the owner back (`Back`).
- `Acknowledged`: a command with an echo on its way, or heard, has been carried out, and
  what `Effect` says is left of it is left; one that is still being carried out has not been
  echoed. `UndoneStep` shows that neither an expiry nor a power cycle breaks it: the link
  that enabled the relay either still has its owner, or has dropped.
- `Relayed`: the serial line has been handed the data written, but for the write in hand.

The checksum is defined as a running sum over 15 bytes. The provers cannot use an
induction theorem, but the length is fixed: `SumContinues` takes one step, `SumExists`
and `ChecksumDiffers` take it 15 times. `CorruptedIsData` concludes that no
one-byte change and no wrong length of *any* framed packet is a command; TLC tries those
of three packets.

### DropStats

`Clock`: the time since the last report, added to the time of that report, is what the
clock shows, less a turn when it has wrapped; `Elapsed` concludes that the 32-bit
difference the code computes is the true one. `Owed`: what a report owes has been read by
the time it is made.

### StatusLeds

Any thread may run between any two accesses, and the proof assumes nothing else of them.

- `MainFirst`: before `main()` has the stack up, nobody else is at the LEDs.
- `SettingAlone`: a thread that came to the LEDs when nobody was there, and is still
  `alone`, follows `set_status_leds` LED by LED; the status it sets is the one wanted, or
  advertising is about to be started, which will set another (`WillDo`).
- `Shown`: when it is through, the LEDs show `current_status`, and the blinking is
  scheduled, or in its handler, exactly if that is `advertising`.

Whoever comes to set a status meanwhile ends `alone`, and so does a blinking that starts
while a status is being set; the lemma `Elsewhere` is about steps away from the LEDs, which
leave right what was right. `LedsShowLink` is `Shown`, read at rest.

### Identity

`AddressIsStatic` and `UnitsTellableApart` hold for every hardware id: the
name's suffix and the manufacturer id together spell the six bytes the unit is made of,
so two units differ there even when they differ only in the two bits that the address
loses to the static-random marker.

### Left to TLC

The liveness properties, since fairness and ENABLED are out of the prover's reach:
`Reachable`, `UnsecuredLinkEnds`, `RelayReleased`, `RxNeverDead`, `RingEmpties`,
`HandlerReturns`. And the runs that end in a finding.

## 6. What is not modelled, and why

- **Logging**: output; the once-only latch of the retry's warning is part of it.
- **A failed `uart_bridge_init`**: `main()` then stops with the error LED (`StatusLeds`,
  `BootFails`); `UartBridge` starts after a success.
- **Applying the identity**: `bt_id_create` and `bt_set_name` are called once at boot, and
  a failure of theirs is only logged.
- **How long a LED blinks**: the duty cycle, and `adv_slow_phase`, which only selects it.
- **The answer to `uart_rx_buf_rsp`** (`uart_bridge.c:215`): ignored by the code. The
  driver refuses a buffer only when it has not asked for one.
- **The timing of an aborted transfer** (`uart_bridge.c:302`): `TX_ABORTED` may come at any
  time in the model, after `uart_configure` too; what that does to the bits on the wire is
  the driver's.
- **`CONFIG_BT_MAX_PAIRED`, LE Secure Connections, GATT permissions**: the host's. The
  models take from them that a second bond is refused, and that a link may become
  encrypted.
- **Boards, build scripts, tests**: configuration. They give constants.

## 7. Findings

Places where the code and what is written about it differ; each is a run that TLC ends
with a counterexample.

1. **`link_watchdog`**: `security_timeout_handler` (`main.c:692`) ignores the result of
   `bt_conn_disconnect` and is not scheduled again. If that call fails, the unencrypted
   link keeps the only connection slot for as long as its central stays. The comment at
   `main.c:650` says it is dropped.
2. **`clock_doc`**: `RELAY_COMMAND.md:128` gives the relay 60 s without an encrypted
   link. `relay_grace_start` re-arms the window at every disconnect, that of a link which
   never encrypted included, so the time is one window per drop (`OneWindowPerDrop`).
3. **`uart_stale_bytes`**: `uart_bridge.h:51` and `RELAY_COMMAND.md:78` say that a baud
   change drops what is buffered. The TX ring is kept, and sent at the new rate.
4. **`command_no_echo`**: `RELAY_COMMAND.md:104` says "No echo = not applied". The command
   is carried out before the echo, which can be given up or lost with the link.

## 8. Plan

Done in this order: `Link` and its proofs, its clock, `UartBridge`, `Forward`, `Command`,
`Service` and the refinement, `StatusLeds`, `DropStats`, `Identity`, then the proofs about
`UartBridge`, `DropStats`, `Command`, `Forward`, `StatusLeds` and `LinkClock`. What is left:

1. The rest of a contract of `uart_bridge_set_baud` - which rate is live when it returns,
   and what the result says about that - that `UartBridge` implements and `Command` uses.
   Its proof would rest on `Claim`, as that of `QuietReconfigure` does.
2. The safety halves of the liveness properties, where they are not yet there: what each
   waiting thread waits for is always under way (`RestartComing`, `NoLostWakeup` and
   `RxRecoverable` are of that kind).
