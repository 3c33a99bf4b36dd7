# A TLA+ model of esp32-taplink

esp32-taplink turns an ESP32-S3 into a USB network card with a Wi-Fi access
point behind it. A host plugged into USB and the stations on Wi-Fi get addresses
from two DHCP servers on two subnets, lwIP routes between them, a small TCP
forwarder exposes services of the USB host to Wi-Fi clients, and a web page
configures all of it. The firmware is about 3000 lines of C under `src/main`.

This directory holds TLA+ modules for the parts of it whose correctness depends
on order, failure or shared state, TLC configurations that check them on small
instances, and TLAPS proofs of the most important properties for all instances.

## 1. Inventory

| Component (source) | State it keeps | Operations | Hard behaviour | What makes it correct |
|---|---|---|---|---|
| Port forwarder (`port_forward.c`) | four listeners, a counting semaphore each, one task per listener and per session, descriptors in local variables | `port_forward_start`, `listener_task`, `session_task` | tasks interleave; every allocation may fail; descriptors are reused at once; one socket table is shared with the web server | no slot or socket is lost or given back twice; a session relays the client that dialled its rule; dead and queued clients are dealt with |
| Configuration store (`nvs_config.c`) | `taplink_config_t` in RAM, 29 NVS keys in flash | `config_load`, `config_sanitize`, `config_save` | a save is 29 separate writes; power may fail and writes may fail between any two; flash may hold what older firmware wrote | the next boot always works; what was reported as saved is what is loaded |
| DHCP lease table (`router.c`) | 16 rows, a spin lock | record (event loop), remove (DHCP hook), list (httpd) | three tasks; the tick counter is read before the lock; events are queued; the table is smaller than the pools | a lease is listed while it stands and not after |
| Subnet arithmetic and pools (`router.c`, `nvs_config.c`, `port_forward.c`) | none | mask, membership, overlap, pool bounds | three copies; prefixes /8 to /29 | overlap means a common address; pools are disjoint and hold only client addresses |
| DHCP route options (`router.c`, `taplink_lwip_hooks.h`) | none of its own, reads the live configuration | `router_append_dhcps_routes` | runs in lwIP's task while httpd replaces the configuration | routes agree with the interfaces |
| Web server (`web_server.c`) | pointer to the live configuration, log ring, `s_ota_in_progress` | pages, two save handlers, reboot, firmware update | one httpd task against everyone else; partial uploads; two reboot tasks | only valid configurations are saved; an update either completes or changes nothing |
| USB driver (`usb_ncm.c`) | `s_started`, `s_connected` | start, host-initialised and detached callbacks, restart | three tasks test and set the flags without a lock; events posted with timeout 0 are dropped | the interface's state follows the link's |
| Wi-Fi access point (`wifi_ap.c`) | attempt counter, station count | start, event handler, restart timer | handler and timer run in different tasks, late; a failed restart raises no event | one restart per stop; the access point comes back; the count, which is only logged, is right |
| Startup, LED, reset button (`app_main.c`) | the configuration structure, `s_booting` | `app_main`, `led_button_task` | the button erases flash under a running save and is sampled once per blink, whose length changes; the web server runs before the rest is up | a reset sticks; a new firmware confirms itself only when all is up |

How they interact:

* `app_main` loads the configuration once and passes **one pointer** to router,
  web server, access point, USB driver and forwarder. The web handlers copy it,
  save the copy and then overwrite the structure everyone points to.
* The forwarder copies its rules when it starts and shares nothing with the
  rest afterwards except lwIP's **socket table** (24 entries).
* lwIP's DHCP server calls the hooks of `router.c` in its own task and posts
  `IP_EVENT_AP_STAIPASSIGNED` to the default **event loop**, whose task calls
  `dhcp_assigned_handler`; httpd reads the table for the dashboard.
* USB and Wi-Fi drivers post events to the same event loop.
* The button task erases flash without telling anyone, and restarts.

`PROJECT.json` lists every hazard at its line, with the properties that cover it.

## 2. Modules

```
Addressing          subnet arithmetic
  |-- RouteOptions  routes in a DHCP reply            MCAddressing      Addressing_proofs
  |-- ConfigStore   configuration, flash, handlers
  |     : ConfigService    what it promises (abstract)
  |     `-- HotConfig   the configuration in use      MCConfigStore     ConfigStore_proofs
  `-- PortForward   forwarder and socket table        MCPortForward     PortForward_proofs
        : ForwardService   what it promises (abstract)                  PortForwardService_proofs
DhcpLeases          lease table                       MCDhcpLeases      DhcpLeases_proofs
WifiAp              access point and its timer
UsbNcm              USB flags and their events
EventLoop           WifiAp and UsbNcm on one queue    MCEventLoop       EventLoop_proofs
OtaBoot             firmware update and restart
  : UpdateService   what it promises (abstract)
LogRing             the log and its page
WebServer           OtaBoot and LogRing in one task                     WebServer_proofs
ResetButton         blinking and sampling                               ResetButton_proofs
```

Indented modules extend the one above them; `MC*` modules hold the
values of the constants TLC uses; `*_proofs` hold theorems. Operators whose
comment begins with "Faulty variant" are not part of the model: each is a
plausible mistake in the definition below it, kept to show that a property would
notice it.

### Addressing

The firmware's address width and prefix range are constants (32, 8 and 29 in
the code), so that TLC can enumerate a whole address space. An address is a
number; `Masked` is `ip & mask` and `BlockSize` is `~mask + 1`. The three copies
of the arithmetic in the sources agree, which is why the model has one.

### PortForward

Every task is a program counter (`lpc` for the listener of a rule, `spc` for a
session task); its steps are the places where it touches something shared.

| Model | Code |
|---|---|
| `starter` | loop index of `port_forward_start` |
| `slots[r]` | count of `session_slots` |
| `fd` | every local descriptor variable: `listen_fd`, the listener's `client_fd` (here `peer_fd`), the session's `client_fd` and `target_fd`, the web server's connections |
| `open`, `sock` | lwIP's socket table and the connection behind each entry |
| `backlog`, `conn` | lwIP's accept queues and the TCP clients |
| `srule[s]` | `session->listener` |

`Allocate` takes the lowest free descriptor, as lwIP does, so that descriptors
are reused at once. `Close` closes whatever the variable names *now*; that it is
the right socket is a property and not an assumption. Every allocation can fail
although there is room (memory), and `accept` fails when the table is full. Bytes
are abstracted: a relay runs or is over. A relay may end at any time (target,
timeouts, errors: `RelayEnds`) or because the client hung up
(`RelaySeesHangup`); only the second is fair. `Sessions` is the number of session
tasks the heap has room for, which may be less or more than the slots.

`Cfg` is a constant: each rule and the networks are copied in the round of
`port_forward_start`'s loop that starts the rule, and not read again. The web server
already runs then (`app_main.c:105`), so a save in the few milliseconds of that loop could give
two rules networks of two configurations; that is left out.

**ForwardService** says what all of this is for, without a task, a socket or a
semaphore: a client that connects waits, and is then either refused or served by
one rule that admits it, and a rule serves at most its limit. `PortForward`
implements it (`ImplementsService`) under the mapping at its end: a client is
waiting while it is in an accept queue or held by a listener, and served by the
rule of the session that holds it. A client that nobody holds any more must
have been let go of, and a session that held two, or another's, would have no
counterpart in the abstract module.

### ConfigStore

`nvs` maps the keys, in the order `config_save` writes them, to values or
`Absent`; `pos` is the next key to write. Each `WriteKey` is durable by itself.
`Restart` may come at any moment. `SaveFails` is a failing write, commit or
open. `FactoryErase` is the button task's `nvs_flash_erase`, which unmounts the
partition so that the handle of a running save is no longer valid; the device goes
on for half a second. Its result is ignored (`app_main.c:69`): it may leave any of
`EraseKeeps`, sets of keys, behind. `Restart` is a boot that gets as far as the
configuration; one that cannot open NVS aborts before it starts anything and is left out.
`accepted` is a history variable: the last configuration
whose save was reported as done, until another write begins. The handlers are
modelled with their validation, from the parsed form on. The settings page's form
carries networks and a transmit power; SSID, passwords, channel and DHCP switches
are independent of these and of one another, and left out. `FirstNvs` includes the
flash of older firmware, which knew the Wi-Fi network as `dhcp_ip`/`dhcp_pfx`.

**ConfigService** says what the owner of the device is promised, without keys, positions
or handlers: a configuration in use and a flash of which only counts what the next boot
makes of it (`Loaded`). A save is *not* atomic there either, because it is not in the
code: while it runs flash may become any mixture that is still `Usable`. But it is
complete only when the next boot would load just what was posted, repaired as every boot
repairs it; the live configuration changes only then (`Adopt`) or at a boot; and a
factory reset, however much it erased, leaves something usable and stands until that
boot: a save that it interrupts adds nothing. `ConfigStore`
implements it (`ImplementsConfigService`): a save is stored at `pos = NKeys + 2`, and a
reset is flash that is no longer mounted.

### HotConfig and RouteOptions

`HotConfig` adds the readers of the one structure to `ConfigStore`: `started` is
what `app_main` started the interfaces and their DHCP servers with; `hook` is
`router_append_dhcps_routes` between its three reads (overlap test, own network,
other network), each of which may see any mixture of old and new fields while
`*s_cfg = new_cfg` copies the structure (`Readable`; `pos = NKeys + 2` is the copy).
`saved` is a history variable. The admin password is read the same way by
`check_auth` (`web_server.c:89-107`) and left out with the other strings.

`RouteOptions` is what the three functions below the hook make of two networks,
with the number of bits of an octet as a constant. An option is a record that keeps its
length octet; of the destination it keeps the octets that are copied. The client is
external: it reads by the rules of RFC 3442 and RFC 2132.

### DhcpLeases

`record_dhcp_lease` and `router_get_dhcp_leases` are split where they read the
tick counter and where they take the lock (`RecordBegin`/`RecordCommit`,
`GetBegin`/`GetCommit`); the release hook is one step, as in the code. `clock` is
absolute, and all comparisons are made modulo `TickMod`, as the 32-bit `TickType_t`
does. `bound` is what the DHCP server, which is lwIP's and not modelled further,
has acknowledged and the client has not given up: two clients never hold one address at a time, and an
acknowledgement posts an event that is lost when the queue is full.

### WifiAp, UsbNcm and EventLoop

`HandleStart`, `HandleStop`, `HandleJoin` and `HandleLeave` are the four cases of
`wifi_ap_event_handler`, run by the event loop's task; `RestartSucceeds` and
`RestartFails` are `ap_restart_timer_cb`, run by the timer task; `timers` counts the
one-shot timers that exist. The driver is external and is assumed to post its
events in order, waiting for room, to post `AP_START` only for a start that
succeeded, and to report every station that comes or goes once, and those it drops before
the access point stops. `StationsCounted` rests on this: the code never resets its count, and an
event the driver missed would stay in it. (The count is only logged; the pages ask the
driver for its list.) That the two seconds of the timer are longer than anything else is *not* assumed.

In `UsbNcm` every task that runs the driver's code has a program counter: `main`
(`usb_ncm_start`), `tinyusb` (the callbacks for a host that selects or leaves the
function) and `Rebooters` (`usb_ncm_prepare_restart`). A test of a flag, its
assignment and the post that follows are three steps. START waits for room in the
queue; CONNECTED and DISCONNECTED do not, and are lost when it is full; each of them may be
lost for want of memory. `main` begins with the installation of the driver (`Install`),
before which there is no TinyUSB task; a restart may be asked for at any moment, since the
web server runs before that, and `TakeDown` ends TinyUSB's task wherever it is. `netif` is the
last action the event handler performed on the interface.

The steps from a test that lets a task go on to the event it posts are a *window*.
Nothing keeps two tasks from being in one at the same time. The history variable
`passage` says how the last one went: "raced" if it was entered while another task was in
one, else "open" until its event is in the queue, and "clean" from then on; an event that is
lost leaves it "open". `LinkAgrees` says that after a clean passage, once the queue holds no more of
the driver's events, `s_connected` and the interface agree: whichever tasks
came before, and also when earlier passages raced or lost their events, so that one undisturbed
passage repairs what they left. After a passage that raced, or whose event was lost, it says
nothing, because the code then does let flag and interface disagree (section 6).

`EventLoop` puts both on the one queue `evq` of the default event loop: the task takes
the event at the head and runs the handler it is for, and the posts of either
component find the queue as the other has left it.

### OtaBoot, LogRing and WebServer

`OtaBoot` follows one upload through `update_post_handler` (`httpd` is where the
handler is), the tasks that restart the device, and the end of `app_main`. The image a
client uploads is chosen where `esp_ota_end` accepts it (`Validate`). The
bootloader with rollback (`CONFIG_BOOTLOADER_APP_ROLLBACK_ENABLE`) and the `esp_ota_*`
functions are external: `sel` and `confirmed` are the boot data, `slot` what is in the two
partitions. An image is one that works (`Works`) or one that aborts on its way through `app_main`
(`Crashes`); an empty or half written slot holds `NoImage`. Power
may fail in every state; what is in RAM is then gone (`Off`). `RebootWithoutTask` is
the branch in which `httpd` itself does the work of the task and never returns.

**UpdateService** knows no slots, boot data or flags: there is a trusted image, which has
come up before, and perhaps a candidate, which only the trusted image installs, only when there is
none, and only in full; the candidate is tried once, and either confirms itself, which
makes it the trusted one, or the next boot goes back. `OtaBoot` implements it
(`ImplementsUpdateService`): which of the two slots is trusted depends on whether the
selected one has confirmed itself.

`LogRing` is `log_vprintf` and its reader. A writer holds the mutex for two steps,
between which the line at the head is being overwritten; the page holds it while it
sends one line after another. `log` is a history variable, the last `LOG_LINES`
lines stored, and what the page must have shown. A task that does not get the mutex
within 10 ms stores nothing: no step.

`WebServer` composes them: `httpd` is one task, so it sends a page, receives an upload or
answers a reboot request, one at a time, while the other tasks log; a reset clears
the ring.

### ResetButton

Time is a number of units of 100 ms. A round of `led_button_task` is two blinks
(`left` counts down to its sample); `blink` is fixed when the round begins although
`booting` and `connected` change at any time. `held` and `rested` are history: how
long the button has really been down, and how long it was up before that (counted
up to more than a round). `Tick` stops at the sample, so the task is never late:
what the module shows does not depend on scheduling.

## 3. Runs

| Run | Instance | What it shows |
|---|---|---|
| `forward_one_rule` | 1 rule, 2 slots, 3 session tasks, 7 sockets, 3 clients of which 1 not on Wi-Fi | types, slots and sockets on every path; the forwarder implements `ForwardService` |
| `forward_three_rules` | 3 rules (middle one off), 1 slot each, 2 session tasks, 5 sockets, 3 clients | rules do not mix; a rule stays within its limit and within `2 + 2 * slots` sockets; the forwarder implements `ForwardService` |
| `forward_live` | 1 rule, 1 slot, 2 session tasks, 4 sockets, web server taking one, fair tasks | dead clients are noticed, queued clients answered |
| `config_store` | 5-bit addresses, 2 rules, 15 keys, 2 saves, 3 networks, a power out of range (the defaults' is within), empty and legacy flash, an erase that removes all, all but one or none of the keys, DHCP replies at any time | every boot works, accepted saves survive, accepted rules come back, no reply shows a save before it is complete, a reboot applies it; the store implements `ConfigService` |
| `config_enabled_rules`, `hot_config` | same | expected violations, see section 6 |
| `leases` | 2 clients, 3 addresses, 2 rows, leases of 2 ticks, 4 ticks of a counter that wraps after 3, queue of 1 | recording displaces no standing lease, not when the table is full; what is shown has not run out |
| `leases_looking` | same | expected violation, see section 6 |
| `event_loop` | 2 stations of which 1 admitted, 3 attempts, a host, 1 restarting task that begins at any moment, queue of 2, any start, timer or USB event may fail | fair tasks: one restart per stop, stations counted, the access point comes back; USB flag and interface agree after every passage that was alone and posted its event; the interface is started |
| `reset_button` | the code's times: blinks of 1, 5 and 10 units, hold of 50 | the count and the real time differ by at most a round |
| `addressing` | 8 bits in octets of 2, prefixes /2 to /5, all pairs | overlap is intersection; pools are disjoint and usable; routes lead to the other side, all of it and nothing else |
| `web_server` | two images that work and one that crashes, uploads of up to 2 pieces, 2 timeouts, 2 reboot tasks, 1 power loss; ring of 2 lines, 2 texts, 2 tasks that log | updates implement `UpdateService`; an image to go back to, always; the device comes up again, reboots happen, uploads end; the page shows the last lines |

Why the bounds are enough. In the forwarder every interaction is between one
listener, its sessions, a client, and whoever is given a descriptor next; two
slots with three tasks let a session start while another ends and a third fails
to start, and 7 sockets (5 in the second run) are fewer than all tasks together want, so that
`socket` and `accept` do run out. Rules share only the table and the tasks; two
of them and a gap show that. In the store, one save overwritten by a torn second
one and a restart between any two writes is the longest story that matters: a
third save starts from flash the second could have left. In the lease table two clients
that move between addresses, one row that expires and one call held up are the
ingredients of every disagreement. A client that takes over another's address leaves
a second row behind, so two clients can fill two rows, and the third address brings
the newcomer for which there is none. Leases last 2 ticks so that renewal, expiry and
the delay of one tick before the lock can all fall before, on and after each other. The
counter has the smallest range in which a lease and that delay can be told apart, so that it
wraps inside the run.
On the event loop
the code's own three attempts are used and a queue that holds less than one life of the
access point, or one coming and going of a host next to it, can produce: the
interesting states are those in which it is full. `main`, TinyUSB's task and one task that restarts are
already three in the windows of `usb_ncm.c` at once; a second one that restarts is more than the liveness
properties can be checked with in reasonable time, and is left to the theorem. Two images that work tell the trusted one
from its successor. An update has at most two pieces and
two timeouts in a row, so that every step occurs first, last and in between, and one
power loss, because nothing remembers a second one but the boot data, which is in the state
(the theorems hold for any number). Two reboot tasks is what two handlers can create while
the first waits. A ring of two lines wraps after two. For addresses, 4 octets and
prefixes that end on and between octets, in and out of the class of the address, are all that
`RouteOptions` tells apart, but for a network with the prefix of class C, which is longer than
the run's longest prefix and is covered by the theorem only. The button has no bound
at all: the hold bounds the count, and `HoldingResets` the time. Symmetry is
used only for interchangeable session tasks, DHCP clients and addresses, and never with a liveness property.

Deadlock is checked except in three runs. In the two forwarder runs without the web
server the code may start no rule at all, after which nothing happens; in `event_loop` a
restart that failed leaves the access point down for good (section 6). `SlotAccounting`
and `FdOwnership` are checked in one run only although they speak of all rules: they are
proved (section 5). `ImplementsService` is checked in two, because the limit matters
with more admitted clients than slots, and admission with a client that is not.

## 4. Fairness

`forward_live`, `event_loop` and `web_server` need it. `Fairness` (forwarder) says
that `port_forward_start`, each listener task and each session task keep running, which
FreeRTOS does: they have one priority each and block only in calls the model gives a
guard. Nothing is assumed of clients, of the target (it may never end a relay) or of the
web server (it may never give a socket back). `connect` is fair because
`connect_with_timeout` returns within 10 s; that a relay notices its client is fair
because `select` and `recv` report an end of stream. `QueueIsDrained` is not implied by
sessions ending: it holds while every slot is taken forever, because the listener
refuses instead of waiting.

`LoopSpec` (event loop) says that the event loop's task handles what is queued, that a
timer that was started expires, that `main` installs the driver, and that `main` and `tinyusb` go on; strongly, because
a task that waits for room in the queue is served in the order of waiting and is not
overtaken for ever. Nothing is assumed of the stations, the host, the driver or the
restarts. `ComesBack` promises nothing once a start or a timer has failed (`failed`, a
history variable), because the code does nothing about that, nor `StartIsHandled` once
there was no memory to post START (`unstarted`), or TinyUSB's task was taken down.

`WebFairSpec` says that `httpd_req_recv` returns within its timeout, with data or
without, and the handler goes on; that a reboot task runs and the watchdog, once armed,
fires; that the bootloader boots. `Abort` and `ComeUp` are strongly fair: what is left of
`app_main` after `web_server_start` takes far less than the 3 s a reboot request leaves
it, so it is not cut off each time. Clients, writers and power are not fair.

## 5. Proofs

All proofs are checked by TLAPS with SMT, Zenon and PTL, from the named
assumptions on constants. `PowersOfTwo` holds the only arithmetic assumed
besides types, three facts about `^` that the provers do not know: powers are positive,
2^(m+n) is the product of 2^m and 2^n for exponents up to the address width, and 2^3 is 8;
TLC evaluates them in every run of a module that extends `Addressing`. Every safety invariant
and every action property of the runs that must pass is the statement of a theorem, and so
are the three refinements; TLC found each of them, and each inductive invariant below, to hold
before it was proved.

**PortForward_proofs** (any number of rules, slots, clients and sockets, any
finite set of session tasks, any configuration):

* `TypeCorrect`: `TypeOK`, inductive as it stands.
* `SlotsAccounted`: `SlotAccounting`. Not inductive alone: `port_forward_start`
  opens an account, and must find no session of that rule. `SlotInv` adds that
  rules not yet reached have no listener and that a session with a slot belongs to
  a started rule. Each step is then one of: it does not touch the account, it moves
  one unit between the count, the listener and a session, or it opens an account.
* `UsedSocketsHeld` and `SocketsOwned`: `HeldWhileUsed` and `FdOwnership`, from one
  invariant, `SocketInv`. `FdOwnership` alone is not inductive: a listener that overwrote a descriptor it still held would leak
  it, so the induction carries which program counters hold which variables
  (`HeldWhileUsed`), and again that unreached rules have no listener. `AllocateOwned` and
  `CloseOwned` are the two facts about the table every step uses.

**PortForwardService_proofs** (the same constants): the refinement. `ClientInv`
says that a client that is up is in one place at a time, in one backlog once or behind
one descriptor, and `RouteInv` that it dialled the rule it is with and was found to be
on the Wi-Fi side by the time a session is started. Both need `SocketInv`:
without it a descriptor could be given out again while a session still names it.
`StepKinds` sorts all steps by what they do to clients, so that each later lemma has
seven cases and not thirty.

* `OwnClientAlwaysRelayed`: `RelaysItsOwnClient`, from `RouteInv`.
* `BudgetAlwaysKept`: `RuleSocketBudget`, by counting: only sessions with a
  slot have sockets (`HoldersHaveSlots`), and `SlotAccounting` bounds them.
* `ForwarderImplementsService`: `ImplementsService`. Creating a session's task is `Serve`
  (`ClientServed`; the limit comes from `SlotAccounting`), closing its `client_fd` is `Finish`, closing a
  listener's `peer_fd` and a failed accept are `Refuse`; the rest is invisible.

**ConfigStore_proofs** (any address width and prefix range, any number of rules,
any forms, any flash of the right types at the first boot):

* `NextBootAlwaysWorks` is a fact about `config_load` (`LoadedConfig`): for *any*
  well-typed flash, what it returns is valid. Torn saves, failures and erasures
  enter only through the type invariant.
* `TypeCorrect` and `LiveNetworksAlwaysUsable` come from `ConfigInv`, which carries
  that the live networks and those of the form being saved are valid.
* `AcceptedAlwaysSurvives` needs the history of the current save: `WrittenInv` says
  that all keys before `pos` hold the form's values while the partition is
  mounted, so that at `Commit` all of them do, and that an accepted configuration is in flash key by key; `ReadsBack` shows
  that such flash is read back as that configuration.
* `AcceptedRulesAlwaysComeBack` needs more of `config_sanitize` than that its result is
  valid: of a table whose enabled rules are valid it drops none, in particular not as the
  second of two equal listeners (`SanitizeKeepsValidRules`), and the network the rules
  were accepted for comes back as it was (`AcceptedNets`).
* `StoreImplementsService`: `ImplementsConfigService`. `StoreInit` and `StoreStepMaps` have one
  step per action. `Commit` is `Complete` by `WrittenInv` and `ReadsBack`; each write is
  `Write` because of what `LoadedConfig` says of *any* flash; the last, of `*s_cfg`, is
  `Adopt`; what an erase leaves is usable by `LoadedConfig` too, whatever it kept, and from
  then on `Write` and `Complete` are impossible, because they need a partition that is
  mounted, and only a restart mounts it; one that erases flash first ends with the defaults
  (`LoadedErased`).

The same module has the theorems about `HotConfig`. `HotSpecIsSpec` shows that the store takes
its own steps whatever the readers do, so that the theorems above hold there too.

* `NothingIsHotBeforeSaved`: `LiveInv` says that until other networks have been saved
  in full, the live structure, and the form while it is being copied over it, have the
  networks the interfaces have; `HookInv` that so does what the hook has read by now.
* `RebootAlwaysAppliesSaved` needs that what was saved has valid networks
  (`AcceptedNets`), because only those come back from `config_sanitize` as they
  were (`SanitizedNets`), and `WrittenInv` for the rest.

**DhcpLeases_proofs** (any number of rows, clients and addresses, any lease time and any wait
before the lock that together fit into the counter's range, a counter that wraps as often as
it likes):

* `ElapsedIsAge` and `ElapsedOfLater` are what the unsigned subtraction of `router.c:57` computes: the
  age of a row younger than the counter's range, and almost the whole range for a row that
  was written after the counter was read. They follow from the uniqueness of division with
  remainder (`RemainderIsUnique`), which is proved from scratch.
* `TypeCorrect`; `MinIsMember` shows that the first free or matching slot is a slot.
* `LeaseInvariant` (`LeaseInvariantHolds`) is what the two properties need besides
  types: no row is from the future (`RowsArePast`), nor is any younger than the reading of
  the counter with which the event loop's task, the only one to write rows, is about to
  record (`RecordIsPunctual`); httpd's reading is no older than the wait (`GetIsPunctual`);
  and two clients never hold one address (`BoundDistinct`).
* `RecordingKeepsOthersHolds`: a row that stands is of another client at another address, by
  `BoundDistinct`, so that it does not match the event; and it is not pruned, because by
  `RecordIsPunctual` the counter was read after it was written and still shows its age.
* `ShownHaveNotRunOutHolds`: a row that survives `prune` is young (`UnprunedIsYoung`), for
  one written after httpd had read the counter looks too old to survive. That it is removed is
  the second disagreement below and no violation here. This is what the assumption
  `LeaseTicks + MaxWait <= TickMod` is for, which the code meets by a factor of a
  thousand: one hour against 49.7 days.

**Addressing_proofs** (addresses of any width, prefixes of any range that leaves three bits for
hosts, octets of any width for the routes). TLC runs through all pairs of networks of one address
space; these theorems are for every space. `Floor(x, b)` is the multiple of `b` below `x`.

* `FloorIsUnique` is the one fact about division; `MaskedIsFloor` is what a mask does, and
  `BlocksNest`, from `PowersOfTwo`, that the size of one of two blocks divides the other's.
* `OverlapAlwaysIntersection`: `OverlapIsIntersection`. `SharedBlock` is the direction from a
  common address to the test, which compares under the *shorter* prefix;
  `OverlapMeansShared` names the common address for the other.
* `PoolAlwaysUsable`: `PoolIsUsable`; `BlockHasRoom` is why the shortest pool is not empty.
* `RoutesAlwaysLeadToTheOtherSide`: `RoutesLeadToTheOtherSide`. `OctetsHoldNetwork` says that
  the octets that RFC 3442 leaves out of an option are zero in every accepted network, so that
  the client gets back what was meant; `GatewayIsNoClient` that the router is never one of the
  leased addresses.

**ResetButton_proofs** (any lengths of the blinks and of the hold, as long as a
blink gets no shorter from booting to idle to connected and the longest round is
shorter than the hold):

* `TypeCorrect`, `HoldingAlwaysResets`, `ShortPressIsAlwaysHarmless`. The two
  statements are about a clock the code does not have, so neither is inductive.
  `Counting` says that the real time is at most the task's count and the part of
  the round that has passed; `Resting` that the count is at most the real
  time and one round if the button rested before, for which a count left
  over from an earlier press must be shown to be gone after a rest.

**WebServer_proofs** (any size of the ring, any tasks and lines, any images, any number of
pieces, timeouts, reboot tasks and power losses) begins with lemmas about `LogRing`: `LogInv`
says that the ring holds the log position by position, except that while a writer
holds the mutex the line at the head is its own (`PlaceInv`), and that what the page
has sent so far is a prefix of the log (`ShownInv`), which needs that nobody writes
meanwhile (`LockInv`). `ModIsWrap` turns the remainder into a case distinction.

Then the updates:

* `FallbackAlwaysWorks`: `FallbackWorks`, which is not inductive. `ImageInv`
  adds that the selected slot holds a whole image and that an image that has confirmed
  itself works; `UpdateInv` that an update is going on only while the running image has, and that the other slot is selected
  exactly when an update has been completed, in which case `s_ota_in_progress` is still
  set: the flag nobody clears is what protects the selected slot.
* `UpdatesImplementService`: `ImplementsUpdateService`, from the same invariant. `WhatRuns` says
  which slot the running image is in; the erasing and writing of the other slot is invisible because of
  it (`UpdateMaps`), `SelectNew` is `Install`, and the bootloader's step is `Start`, `Try`
  or `GoBack` by what the boot data say (`PowerUpMaps`).
* `PageAlwaysShowsLastLines` and `TypeCorrect` from the two invariants.

They are stated of `WebSpec`, the specification without fairness, which
`WebFairSpec` implies.

**EventLoop_proofs** (any stations, any limits, any room in the queue, any tasks that
restart the device). `First(event, k)` counts an event among the first k of the queue;
`FirstAppend` and `FirstTail` say what a post and a handler do to it, and `UsbOnQueue` and
`WifiOnQueue` that a step does no more than one of these.

* `LoopTypeCorrect`: `TypeOK`, with the bound of the queue. `StopLeadsToOneRestart`:
  `OneRestartPending`, inductive given the types.
* `StationsAlwaysCounted`: `StationsCounted` is not inductive, since `HandleLeave` does
  nothing at a count of zero. `LeavesAreCounted` says of *every prefix* of the queue that
  it holds no more leaves than stations are counted and joined in it; the prefix of one
  event is what the handler needs.
* `LinkAlwaysAgrees`: `LinkAgrees`, for any number of tasks that restart the device at any
  moment. `WillConnect` is what the interface will take the link for once the
  queue is handled. `LinkInv` says that after a clean passage no task is in a window and
  `WillConnect` is what `s_connected` says; and that while a passage is open, at most one
  task is in a window and its label says what the flags are (`LabelsTell`), so that the event it will post agrees with
  them *whatever* the queue holds, which is why it repairs earlier disagreement. Of a passage that
  raced nothing is needed: every task of it has to leave its window before another can be
  alone (`EnterKeepsLink`). `StartedFirst` is true throughout, races included: it rules out that START, the one event
  of a window that does not follow `s_connected`, is posted after CONNECTED.

They are stated of `LoopSafety`, the specification without fairness, which `LoopSpec`
implies.

Only model-checked: all liveness properties (fairness, and with it `ENABLED`, is beyond the
prover) and the three expected violations.

## 6. Where code and documents disagree

Each of the first three is an expected violation; TLC's trace is the story.

1. *"all config survives reboot"* (`README.md:39`): a new USB network is saved
   together with rules for the old one; the page reports success and the next boot
   drops them (`nvs_config.c:115`).
2. *"lists all active leases"* (`docs/docs/web-interface.md:22`): the dashboard reads
   the tick counter before the lock (`router.c:390`). A lease recorded in between
   seems to be 2^32 ticks old and is removed.
3. *"All configuration changes require a **reboot** to take effect. There is no runtime
   reload path."* (`docs/docs/limitations.md:45`; the page says *"Saved. Reboot
   required."*, `web_server.c:350`): `web_server.c:804` overwrites the structure from
   which `router.c:319-330` builds the routes of every DHCP reply. From then until the
   reboot clients are told of a network no interface has. The admin password, too, is in
   force at once.

Read off the code, and the reason for the form of some properties:

* A rule that is switched off is blank after the next boot (`nvs_config.c:102`), so
  `EnabledRulesSurvive` speaks of enabled rules only.
* *"Hold the BOOT button for 5 seconds"* (`docs/docs/getting-started.md:70`): with USB
  connected a round is two seconds, so it takes up to six (`app_main.c:64`), and up
  to almost seven if the state changes meanwhile; and since every sample counts its
  whole round, less than five may do (`app_main.c:65`). `HoldingResets` and
  `ShortPressIsHarmless` allow one round each way.
* A lease row nobody looked at for 49.7 days is current again (`router.c:57`), because
  rows are removed only when somebody looks. `ShownHaveNotRunOut` therefore speaks of rows
  younger than the counter's range, for which it is checked and proved across every wrap.
* *"maintains an in-memory table of active DHCP leases"*
  (`docs/docs/architecture.md:59`): a lease released while its assignment is still
  queued is added after it was removed (`router.c:345`) and stays for an hour.
* *"if the AP stops unexpectedly, it retries up to 3 times"*
  (`docs/docs/architecture.md:50`): an attempt is made per stop event, and a failed
  attempt raises none, so there is only one (`wifi_ap.c:19`); hence `failed` in `ComesBack`.
* The LED's "connected" (`docs/docs/getting-started.md:65-66`) is `s_connected`, which
  `usb_ncm_start` sets without a host (`usb_ncm.c:268`).
* A CONNECTED or DISCONNECTED that finds the event queue full is lost after the flag has
  changed (`usb_ncm.c:140`, `usb_ncm.c:162`): flag and interface then disagree until the host goes and
  comes back. The same can follow when two tasks overlap between test and post, since
  nothing is locked: the task that restarts clears `s_connected` (`usb_ncm.c:86`), a host
  selects the function, so that TinyUSB's task sets it again and posts CONNECTED (`usb_ncm.c:160-162`), and only
  then DISCONNECTED is posted (`usb_ncm.c:88`): the flag says connected and the interface
  is not. The first host can race with `usb_ncm_start` in the same way. Hence `passage` in
  `LinkAgrees`; TLC finds these behaviours as soon as `passage = "clean"` is taken out of it.
* *"NVS is erased, and the device reboots with default settings"*
  (`docs/docs/getting-started.md:70`): the result of `nvs_flash_erase` is ignored
  (`app_main.c:69`), so that after one that failed the device restarts with what was left.
  `ConfigService` promises only that this can be used.
* After an update the page says *"Update complete! Rebooting..."* (`web_server.c:1210`), but
  the creation of the task that restarts is not checked (`web_server.c:1338`); without it
  the old image goes on running until the reboot button is used. `RebootHappens` is
  therefore about that button.
* Two properties promise less than their names suggest. `HangupIsNoticed` is about a hang-up that TCP
  reports; a client that vanishes without a word is held until the 1800 s are over
  (`port_forward.c:191`). `UploadEnds` says that an upload ends, not when: a client that sends a
  little before every timeout resets the count (`web_server.c:1298`) and keeps `httpd` for as
  long as its data last.

## 7. Not modelled, and why

HTML, form decoding, `read_form_body`, base64 and log wording are text without state;
they are the larger part of `web_server.c`. TinyUSB, lwIP's DHCP server, TCP, NVS's own
page handling, the bootloader and `esp_ota_*` are libraries: they appear as the external
actions the code depends on. One of these assumptions is worth naming: an image that
confirms itself (`ComeUp`) confirms the slot it runs from. An update that is completed
while the device is still starting, before the access point is up, is the only
case in which that could matter. The bytes a session relays, of USB frames and of images
are not state that anything else depends on. Power management
(`configure_power_management`) sets clock frequencies once. Wall-clock limits (the
session's 30 minutes, the watchdog's 3 s, the 10 ms of the log mutex) are not timed; the
button is the exception, because its times are what it is about.

## 8. Plan

1. An abstract access point (up, down or about to be started again, and its stations) that
   `WifiAp` implements on the shared queue, and that would say `OneRestartPending` and
   `StationsCounted` in one.
2. `ForwardRelay`: the two directions of one session against a pipe, if a promise about
   half-closed connections is ever documented.
3. A clock for the session's idle timeout and the repeated arming of the watchdog.
