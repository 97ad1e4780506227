# A verification project for NetWiz, Lucky and the pages beside them

This repository collects OpenWrt packages: LuCI applications, the daemons they
drive, build files and data. Much of it is package recipes and text generation. The
part with a protocol of its own, and with the most to lose when a step is
missed, is **NetWiz** (`luci-app-netwiz`): it rewrites the network configuration
of the router one is talking to, and promises to undo the change when that goes
wrong. This project models NetWiz's fail-safe completely enough to check that
promise, and proves its core.

Second comes **Lucky** (`luci-app-lucky`): pages, plugin, init script, cron and an
update script that replaces the program it manages, all at once. Third come the
**pages** that are state machines in their own right: NetWiz's forms and first-use
wizard, Lucky's looks, three log viewers, and the animated menu of a theme. There
the hard part is answers that come late, out of order, or not at all.

Paths in the parts about NetWiz are relative to `luci-app-netwiz/`; the
short names are

| short name      | file                                            |
|-----------------|-------------------------------------------------|
| plugin          | `root/usr/libexec/rpcd/netwiz`                  |
| loop            | `root/usr/libexec/netwiz-monitor-loop.sh`       |
| script          | `root/usr/libexec/netwiz-autodetect.sh`         |
| boot script     | `root/etc/init.d/netwiz-recovery`               |
| service         | `root/etc/init.d/netwiz-monitor`                |
| page            | `htdocs/luci-static/resources/view/netwiz.js`   |

## 1. Inventory

### 1.1 NetWiz

**Shared state.** All processes communicate through files and through the
running network; there is no other channel.

| state | where | written by | read by |
|---|---|---|---|
| `network`, `dhcp` | `/etc/config` (flash) | plugin, loop, script, boot | all, network service |
| `netBak`, `dhcpBak` | `network.netwiz_bak`, `dhcp.netwiz_bak` (flash) | plugin; removed by plugin, loop, boot | loop, boot |
| `wanBak` | `network.netwiz_wan_bak` (flash) | script; removed by plugin, boot | script, boot |
| `target`, `deadline` | `/tmp/netwiz_target_ip`, `/tmp/netwiz_rollback_time` (RAM) | plugin; removed by plugin, loop, boot | loop |
| `lock` | `/var/run/netwiz_autodetect.lock` (RAM) | script | script, loop |
| `live` | what the network service loaded last | every restart or reload | clients |
| `browser` | connections to port 80 or 443 of a LAN address | the user | loop |

**Components.**

1. *Plugin.* `set_network` first deletes all three backups (line 87), validates,
   and for a LAN change of address with the safety toggle takes the two backups,
   writes the target and a deadline 120 seconds ahead; then it stages and commits
   the change, answers, and leaves a background job that restarts the network.
   `confirm` deletes timers and backups. Correct when: the configuration that a
   power loss brings back is always a complete one, and it changes only when the
   user has consented to the change.
2. *Loop, part 2 (radar and rollback).* Every 3 seconds, while both timer files
   exist: two or more connections from the target's subnet to the target remove
   timer and backups; otherwise, past the deadline, the timer is removed, the
   backups are written back with `cat >`, and a job restarts the network and
   removes the backups. Correct when: a trial always ends, by proof of
   reachability or by the old address, and the files are whole afterwards.
3. *Loop, part 1 (debounce).* Reads the carrier of the WAN port; after three
   readings without one, its return starts the script. Pauses while the script's
   lock exists. Correct when: a flapping link never reconfigures the WAN.
4. *Script.* Restores an orphaned backup, takes the lock, waits for the
   internet; if it does not come, backs up `network`, tries DHCP, the saved static
   address with the saved and the inferred mask, and PPPoE, and keeps the first
   that works or puts the backup back. A trap on EXIT, INT and TERM removes the
   lock and restores a backup that is still there. Correct when: one instance
   works at a time, what survives works, and the lock is given back.
5. *Boot script.* Before the network starts: LAN backup, then WAN backup, go back
   to their files; after a WAN backup a poller restarts the script when the port
   has a carrier. Correct when: a power loss at any command, also of the boot
   script itself, ends with complete files.
6. *Service.* procd keeps the loop alive and starts it again from the top.
7. *Page.* For a guarded change it knocks on the new address, then calls
   `confirm` on its own origin, which is the old address, and jumps after a second
   whether or not that was answered; it gives up after 120 seconds.

**Interaction.**

    page --set_network/confirm--> plugin --files--> loop, boot script
    browser --connections--> loop (radar)
    plugin, loop, script --restart/reload--> network service
    loop, boot poller --start--> script --lock--> loop (part 1), script
    power loss --> everything but flash

**Hard behaviour.** Six kinds of process interleave shell commands over the same
files without a lock; `cp` and `cat >` are not atomic; power may fail between
any two commands, again during recovery; procd may restart the loop; a signal may
stop the script or not quite; calls may be late, or never arrive; the 120 seconds
race the user's browser. `PROJECT.json` lists each hazard at its line.

### 1.2 Lucky

Paths are relative to `luci-app-lucky/`.

| component | state and operations | what makes it correct |
|---|---|---|
| update script (`root/usr/libexec/lucky-update.sh`) | status file, list of releases, download and extract directories; check, download and install, automatic update | the version recorded is the one installed; a stopped daemon has a reason |
| init script (`root/etc/init.d/lucky`) | daemon, its loaded settings, the cron line; start, stop, restart, reload | a running daemon runs with the saved settings |
| plugin (`root/usr/libexec/rpcd/luci.lucky`) | none of its own; starts scripts and init jobs in the background, reads the status file | an answer belongs to the task asked about |
| poller (`lucky/common.js`, 852-917) | active, generation, request in flight | ends only with the last word of its own task |
| status page (`view/lucky/status.js`) | switch, restart button, download card, status dot | the controls agree with each other and with the router |
| update page (`view/lucky/update.js`) | buttons, version list | a disabled button comes back |
| settings page (`view/lucky/config.js`) | form, list of backups | saving changes what the user changed |
| appearance (`lucky/common.js`) | theme, background, four colours with opacity, colour panel | a page opened later looks like this one |

    page --call--> plugin --background--> init script, update script
    cron --> update script <--status file--> plugin <--poll-- page

**Hard behaviour.** The plugin answers before its work is done; calls overtake each
other; any number of update scripts share one status file and one extract directory,
and each step of theirs may fail; a poller outlives the task it was started for;
timers give buttons back whatever happened meanwhile.

### 1.3 The other pages

| component | state and operations | what makes it correct |
|---|---|---|
| log pages of Kiwi, Panda, Sheep (`view/*/log.js`, `logs.js`) and their plugins | lines held and shown, search, order, pause, clear; a ring of lines with a mark, or files | what is shown is what is held, under the toolbar's settings; cleared lines stay away, new ones come |
| Argon menu (`theme21/luci-theme-argon/.../menu-argon.js`) | inline styles, animations and the styles to restore, links marked open | a click at any moment leaves menus whole |
| NetWiz radio form (`netwiz.js`, 1302-1607, 1908-2158) | three panels of fields written by each other's handlers | no network that shows a password sent or set up open, none turned off unasked |
| NetWiz relay (2167-2284) | scan, list, fields, refresh | name, encryption and radio belong to one network |
| NetWiz steps (1214-1274, 2289-2711) | displayed steps, form, dialogs, answers, what the refresh brought | what is sent was checked and shown; LAN and WAN stay apart |
| NetWiz first-use wizard (800-1076) | three steps, an option saved behind the user's back, IPv6 state | what is sent was confirmed; IPv6 and the user's wish are kept |

**Hard behaviour.** A handler runs whole, but between two handlers anything may come:
an answer asked for under another state of the page, a refresh that writes the very
fields the user edits, a timer nobody cancelled. And a call that is lost is an answer too:
`L.resolveDefault` and `safePromise` turn it into `{}`, which most handlers take for the
router's word.

### 1.4 The rest of the repository

| component | state and operations | what would make it correct | status |
|---|---|---|---|
| PassWall service lock (`luci-app-passwall/root/etc/init.d/passwall`) | `flock` on a file that `unset_lock` removes | one start or stop at a time | planned |
| PassWall daemons (`monitor.sh`, `socks_auto_switch.sh`, `tasks.sh`) | lock files, restart counters, node switching | a daemon that fails is restarted at most ten times a day; a working node is found | planned |
| wrtbwmon | `ln` lock, counters read and zeroed, database | no traffic lost or counted twice | planned |
| SSR Plus `ssr-switch`, `ssr-monitor` | probe processes, current node | returns to the main node | later |
| PartExp | partition tools in sequence | effects are outside the code | not planned |
| `bbr-mod` | congestion window arithmetic | quantitative; out of reach of model checking | not planned |
| MosDNS, EasyTier, VNT, ZeroTier, ServerChan, UnblockNeteaseMusic, DockerMan | service definitions, text generators, user interface | little state of their own | not planned |
| package recipes, other themes, `config`, `modules`, data, vendored sources | build inputs | nothing that runs | not planned |

## 2. Modules

| module | models | state |
|---|---|---|
| `NetwizRouter` | the shared files and the running network | the table in 1.1, `boot`, and the history `reached` |
| `NetwizRpc` | plugin | `rpc` (command), `req`, `applies` (sleeping restarts), `calls` |
| `NetwizMonitor` | loop, part 2, its rollback job, respawn | `mon`, `job`, `kills` |
| `NetwizRecovery` | power loss, boot script | `boot`, `poller`, `crashes` |
| `NetwizPage` | page and user | `page`, `host`, `goal` |
| `NetwizLan` | composition of the five: the LAN fail-safe | |
| `NetwizTrial` | abstract specification: what the fail-safe promises | `durable`, `disk`, `open`, `proven` |
| `NetwizLanInv` | the inductive invariant of the composition | |
| `NetwizLan_proofs` | theorems and proofs about `NetwizLan` | |
| `NetwizAutodetect` | script, any number of instances, signals | `pc`, `tries`, `resume`, the line |
| `NetwizDebounce` | loop, part 1 | `last`, `downs`, history `streak` |
| `NetwizWan` | script, debounce, boot script and poller | |
| `NetwizWanInv` | the inductive invariants of the WAN detection | |
| `NetwizWan_proofs` | theorems and proofs about `NetwizWan` | |
| `NetwizSystem` | everything over the same files | |
| `NetwizSystemInv` | the inductive invariant of the whole | |
| `NetwizSystem_proofs` | theorems and proofs about `NetwizSystem` | |
| `MCNetwizWan`, `MCNetwizSystem` | values of constants for TLC | |
| `LuckyRouter` | Lucky's router side: settings, init script, cron, update script in any number of processes | `enabled`, `conf`, `installed`, `binary`, `svc`, `jobs`, `status`, `task` |
| `LuckyRpcd` | calls on their way to the plugin and back | `calls`, history `hasty` |
| `LuckyPoller` | the task poller | `poller`, `polls` |
| `LuckyUpdate`, `LuckyStatus`, `LuckyConfig` | three pages | `upd`; `sw`, `miss`; `form`, `saving`, `restore`, `listed` |
| `Lucky` | composition of the six | `page` |
| `LuckyInv` | the inductive invariant of the composition | |
| `Lucky_proofs` | theorems and proofs about `Lucky` | |
| `LuckyDot` | the status dot and the mark of a click | `up`, `st`, `ask` |
| `LuckyPanel` | the colour panel's frames and timers | `panel`, `frames` |
| `LuckyTheme` | theme and background: page, `localStorage`, router | `themeNow`, `local`, `server`, `curtains`, `saves` |
| `LuckyColors` | four colours with opacity, packed and unpacked | `hex`, `alpha`, `paint`, `slider`, `kept` |
| `LuckyColors_proofs` | theorems and proofs about `LuckyColors` | |
| `LogPages` | three log pages and their plugins | `log`, `mark`, `lines`, `shown`, `bar`, `asked`, `clear`; sheep's `Window` |
| `ArgonMenu` | animated menu | `active`, `style`, `anim` |
| `ArgonMenu_proofs` | theorems and proofs about `ArgonMenu` | |
| `NetwizWifi`, `NetwizWisp`, `NetwizSteps`, `NetwizWizard` | NetWiz's radio form, relay, steps, wizard | fields, step displayed, answers on their way |
| `Pages` | the ten page machines side by side, one opened per behaviour | `focus` |
| `PagesInv` | the inductive invariants of the page machines | |
| `NetwizForms_proofs` | theorems and proofs about the four NetWiz forms | |
| `Pages_proofs` | theorems and proofs about `Pages`: Lucky's looks, the logs, all of it together | |

**From code to actions.** One action is one shell command with a lasting effect,
or one test. The variable `rpc`, `mon`, `boot` or `pc[i]` says which command comes
next, so every other process, a signal and a power loss can come before it.
Examples: line 87 of the plugin is `Receive`; 126, 127, 129, 130 are `BackupNet`,
`BackupDhcp`, `ArmTarget`, `ArmTime`; 240 is `CommitNet` then `CommitDhcp`; loop
70-95 is `Scan`, 98 is `Defuse`, 103-107 `Clock`, 109 `Expire`, 112-115 `Restore`,
`FillNet`, `RestoreDhcp`, `FinishRestore`. `PROJECT.json` gives the lines of each.

**Data.** Of `network` only LAN address and WAN protocol are kept, of `dhcp` only
whether the server answers: no property tells more apart. A file is `None`,
`Empty` (created or truncated and not yet filled) or its contents. `Durable` is
what the boot script would make of the flash if power failed now; it is a state
function, so "power loss at any command" is checked in every state and not only
where a crash step is taken. The boot script itself is modelled as well, so the
crash steps check that `Durable` is right.

**Decisions.**

- *Time.* `TimerDue` turns a running deadline into a due one at any moment, with
  two exceptions the margins justify: not between arming and the two commits
  that follow in the same script (`ClockRuns`), and not while a rollback job is at
  work, which takes seconds of the next timer's 120. Likewise no cycle of the loop falls among the
  script's first commands, before the lock exists, or between unlocking and looking
  at the backup: milliseconds against 3 seconds (`Brief`).
- *Patience.* With `Overlap = FALSE` a new request comes when nothing of the last is
  pending (`Settled`): the page is covered by a dialog until then. `Overlap = TRUE`
  drops that, as a second tab or a script may.
- *confirm.* `OldReachable = FALSE` says that a call to the old address arrives only
  while the router has that address; `TRUE` lets it arrive any time, as when a client
  keeps a second address.
- *Torn copies.* `TornBackup` and `TornCopy` make the creation and the filling of a
  backup two steps. Writing back with `cat >` always is two steps.
- *Two starters.* With `TwoStarters = FALSE` the loop does not start the script while
  the boot poller is about to.
- *Signals.* After TERM the trap runs and the script goes on with its next command:
  the trap does not exit. KILL runs no trap.
- *uci.* `uci set` and `uci commit` are one action: staged values reach the file only
  with the commit, which rewrites the present contents.
- *Wi-Fi.* The radio settings are not kept. The `wifi` mode is its effect on what is:
  it deletes the backups and, with a radio (`HasRadio`), restarts the network.
  The wizard commits the WAN and continues as `wifi`, so without a radio it
  never restarts the network.
- *Radar.* The pipeline of `netstat` and `awk` is one question: does a browser hold
  connections to the target (`browser = target`)?

**Decisions in Lucky.**

- *Calls.* A click puts a call into a set; the plugin answers any call of the set, and
  the page takes any answer: rpcd gives no order. A call may be lost before or after
  its work; `L.resolveDefault` turns that into an empty answer. Such an answer to a check starts a
  poller all the same (`update.js:209`): one for no known run (0).
- *Scripts.* One action is one command of the update script that leaves something
  behind, or that may fail. A `cp` that fails leaves the program torn. Two processes run side by side.
- *Jobs.* `init.d/lucky` runs in the background of the plugin, any pending job at any time.
- *History.* `clash` (two installations overlapped), `late` (a stop ran after a newer
  start), `broke` (an installation died with the service down), `hasty` (a click while an
  answer was pending), `cleared`, `overlap` remember what a property excepts by name.
- *Words.* The status file keeps a word and how many scripts had been started when it was
  written, which is what "stale" means.

**Decisions in the pages.**

- One action is one handler, timer, answer or failure, whole. A field's text is one of a few values
  that the code tells apart (empty, short, good; two subnets; three encryptions).
- *Lost calls.* `LoseLoad`, `LoseColors`: a `get_settings` that fails is `{}`, which the handlers take as it is: a
  background that is on, four colours that are empty. `LoseSave`, `DropColors`: nobody awaits a save. `themeLost` and
  `colorsLost` hold from then until the next click, edit or load that sets it right.
- *Logs.* Panda's page reads its file, kiwi's plugin the ring of the system log, sheep's the last 64 KiB of a file
  (`Tailed`: the last `Window` lines, after the rest of one that was cut, `Torn`). An error of ubus is resolved by
  `expect`: to an empty log, and for a clear to the `false` that only panda's page looks at.
- *Encryptions.* The radio form knows three of the select's four, and meets one more in the router (`psk2+ccmp`). On two
  chips that leaves the select blank (`Assigned`), on one it is guarded (`Guarded`). `Written` is what the plugin makes
  of the form's value.
- *Refresh.* The steps begin with empty fields and the first refresh on its way. `read` is what the page has of the router:
  `network` and `dhcp` in uci's cache, the WAN's address, whether the form of the radios was filled. Each part may be lost
  or time out (`safePromise`); the code's defaults then stand for it, among them the name or address the page was opened at.
  A refresh that lost `wireless` the first time leaves an empty form that is never filled again (1609).
  The WAN's address does not change while the page is open.
- *Subnets.* Two /24 subnets with two addresses each. `OneClass` says whether both lie in one network of their address
  class, which is the mask that Apply sends.
- `Pages` opens one machine per behaviour, since they share no state: its states are the sum of
  the machines' and not their product.
- `LuckyTheme` is theme and background in one module, as the code has the same handlers twice: `kind` says which.
  `LogPages` does the same with `app` for three pages, whose differences are kept.
- History variables (`crossed`, `early`, `thin`, `doubled`, `copied`, `overtaken`, `muddled`, ...) mark the
  behaviours section 4 lists. A property excepts them by name and nothing else.

## 3. What is checked

All runs are exhaustive for their constants. `CHECK_DEADLOCK FALSE` throughout: the
bounds on calls, crashes, kills and flips let every behaviour come to rest.

| run | module, bounds | properties |
|---|---|---|
| `lan` | `NetwizLanInv`; 3 addresses, 2 WAN settings, 2 calls, 1 respawn, 1 power loss; 208 000 states | `LanTypeOK`, `AlwaysRecoverable`, `LanInv`, `DurableByConsent`, `TrialRefined` |
| `lan_live` | `NetwizLan`; 2 addresses, 2 calls, 1 power loss, no respawn; 33 000 states | `TrialWatched`, `DisarmedIntact`, `AddressReturns`, `Quiesces`, `TrialKept` |
| `wan` | `MCNetwizWan`; 2 instances, cable in or out at first, 3 flips, 1 SIGTERM, every line with at most one working setting; 410 000 states | `WanTypeOK`, `TrapOnlyUnlocks`, `StartsDebounced`, `EndsOnline`, `LockReleased` |
| `wan_crash` | `MCNetwizWan`; 2 instances, 3 flips, 2 power losses, 1 SIGKILL, every set of working settings; 720 000 states | `OneEngine`, `DurableWanWorks` |
| `system` | `MCNetwizSystem`; 1 call, 1 respawn, 1 power loss, 1 flip, torn LAN backups, late confirm, DHCP works or nothing does; 1 160 000 states | `TimerBacked`, `BackupsPaired` |
| `system_live` | `MCNetwizSystem`; the same without a respawn, nothing works; 270 000 states | `LeavesNothing` |

| `lucky` | `Lucky`; 2 scripts, 2 versions, 2 settings (one that restarts), 3 pollers, 2 events (clicks that call, cron), 1 failing step or lost call; 415 000 states | `LuckyTypeOK`, `InstalledMatches`, `DaemonAsAsked`, `SwitchTells`, `EndsFresh`, `SaveKeepsOthers`, `WaitsEnd` |
| `pages` | `Pages`; bounds on clicks per machine, see `MCPages.cfg`; 514 000 states | `PagesTypeOK`, `AppearanceSettles`, `LooksKept`, `ScreenTrue`, `MenuSound`, `WifiFormHonest`, `WispWhole`, `StepsSound`, `WizardHonest`, `DotFollows`, `SlideKeepsColor`, `LogsSettle`, `SplitComesBack` |

What they show:

- `AlwaysRecoverable`: whatever command the plugin, the rollback, its job or the boot
  script is at, a power loss ends with complete configuration files.
- `DurableByConsent`: what survives a power loss changes only once a client has
  reached the new address, or by a change made without the safety timer. The
  hazards are the order of `rm` and `cat` in the rollback, and stale radar decisions.
- `TrialRefined`, `TrialKept`: the fail-safe implements `NetwizTrial` under the
  refinement mapping `durable <- Durable`, `disk <- Disk`, `open <- netBak # None`,
  `proven <- ` the address on disk has been reached. Every trial is accepted only
  proven, or abandoned with the old files in place, and every trial ends.
- `AddressReturns`: an address on trial that nobody reaches gives way to the old one.
  `TrialWatched` says who sees to that in every state in between.
- `DisarmedIntact`: no truncated file is left with neither backup nor timer.
- `Quiesces`, `LeavesNothing`: after the last request everything comes to rest with no
  backup, timer or lock left, in the fail-safe and in the whole system. The latter
  excuses behaviours in which the loop died: a respawn in the middle of a rollback
  loses it, since the timer files are already gone; the next boot completes it.
- `BackupsPaired`: no DHCP backup is ever left without its network backup, where
  neither rollback nor boot would look at it.
- `StartsDebounced`: the script starts only after three readings in a row without a
  carrier, until the first power loss. `streak` counts them independently of `DOWN_COUNT`.
- `TrapOnlyUnlocks`: without a signal the trap never finds a backup.
- `OneEngine`, `LockReleased`: mutual exclusion of the script and its release.
- `EndsOnline`: if the configured setting or one the script tries works, a cable that
  stays in ends up online.
- `DurableWanWorks`: a power loss or a SIGKILL at any command changes the surviving
  WAN setting only to one that leads to the internet.
- `TimerBacked`: no armed timer without a backup, also across the script's copies.

What `lucky` shows (a property that is a conjunction is given with its parts):

- `InstalledMatches`: outside an installation, the version recorded is that of the program on disk,
  whatever fails and whichever of the page and cron started it, unless two installations overlapped.
- `DaemonAsAsked`. `DownForAReason`: an enabled daemon that does not run has no program, was stopped by a
  stop that came late, or was left down by an installation that died (`lucky-update.sh:508`). `RunsSaved`: a
  running daemon with no restart pending runs with the saved settings.
- `SwitchTells`. `ControlsAgree`: switch, restart button and the page's own memory agree once everything
  is answered. `SwitchTrue`: the switch is then the router's, also after a lost answer.
- `EndsFresh`: a poller never ends with a word written before its task was started; the poller that a lost check call
  started is excepted (`Blindly`).
- `SaveKeepsOthers`: saving changes no setting the user did not touch.
- `WaitsEnd`. `ButtonsFreed`, `MissEnds`: a check ends and the card of a missing program is given back,
  through failures too. A check whose call was lost may wait for a task that never began: excepted (`Unstarted`).

What `pages` shows:

- `DotFollows`: a daemon that stays up is shown as running, whatever marks clicks left.
- `AppearanceSettles`. `PanelObeys`: the panel ends as the last click wanted it. `SettingKept`: after the last
  save, a page loaded again has the theme and background of this one, unless a load or save was lost.
- `LooksKept`: so it is with the colours. `SlideKeepsColor`: the opacity slider moves only opacity.
- `ScreenTrue`. `ShownIsView`: the screen is the view of the lines held. `NewLinesServed`: every line since the
  last clear is served; of sheep's log, every one inside the window.
- `LogsSettle`. `PausedStill`: a paused screen is still. `GhostsGo`: cleared lines do not stay.
- `MenuSound`. `MenusSettle`, `OneOpen`: interrupted animations leave menus whole, one of them open.
- `WifiFormHonest`. `NoIdleKey`, `KnownStaysClosed`, `NoModHonest`, `NothingOffUnasked`: the radio form declares no network
  open that shows a password, and where no select is blank the plugin sets none up open; it does not believe a
  changed form unchanged, turns no band off by itself.
  `SplitComesBack`: it gives split bands back as they were.
- `WispWhole`: name, encryption and radio of the relay belong to one network.
- `StepsSound`. `OneView`, `SubmittedSound`, `ConfirmTrue`: one step is shown; what is sent was checked,
  warned about and shown, and keeps LAN and WAN in two /24 subnets when both addresses were known.
- `WizardHonest`. `WizardConfirmed`, `WizardKeepsIpv6`, `WishKept`: the wizard sends what was confirmed,
  names the router's own IPv6 state, and the router remembers whether the wizard is wanted.

**Why these bounds.** The fail-safe has at most one trial open at a time for a
patient user, so two calls cover a trial after a trial, or after an unguarded change, and their
interference through leftovers; three addresses let a second trial differ from both addresses of the first.
One power loss in a trial and one in the boot script are the only
two positions that differ, and `Durable` covers "now" in every state; the same
properties hold with 3 calls, 2 power losses and 2 respawns. Two
instances of the script are what two starters can produce; three flips start it
twice when the cable is out at first. `wan_crash` gave the same results with 5 flips, 3 power losses and
2 kills. In `wan` several working settings at once add nothing to finding the first
one, and `wan_crash` has all sets. In `system` and `system_live`
DHCP is the only setting, so a probe consists of the backup, its restoration and
the reloads, which is where it meets the LAN's files.

In `lucky` two events are the smallest number with which two tasks, a task and a switch, or a save and an
install meet, and one fault is enough for each single step to fail in each such pair. In
`pages` the bounds are chosen for the longest row of steps that a property needs to go wrong: two edits of
one colour, or of two, with a save of each on its way; three settings of the theme with a curtain, a load and a
save between them; a ring of three lines of which a clear marks two before it turns; three menus, so that a third
click meets two running animations; three to five clicks for the forms: in the steps a card, a field and Next,
with the answers, dialogs and the first refresh in between, which are not counted. There the settings of the router are six, in which every two values meet. The
bounds are also what the run can hold in its few minutes: the colours, the logs and the steps have most of its states.
What a longer row of clicks in the steps could do (back, another field, Next again) is left to `AppliedSound`, which holds for
any number of moves; the steps alone gave the same result with six moves and twelve settings, as far as the page was
not overtaken (3.6 million states).

**Fairness.** `LanSpec` asks weak fairness of the plugin's commands, the restart jobs,
the deadline, the loop, its job and the boot script: a shell script that
runs goes on to its next command, procd keeps the loop running (service, lines
21-24), and clocks advance. No fairness is assumed of users, pages, cables, signals
or power losses. `WanSpec` and `SysSpec` do the same for the cycle, each instance of
the script, the poller and boot. Weak fairness is enough: no action of a process is
disabled for ever and again enabled by others, except the timer's under a rollback job,
which ends.

`Lucky` asks weak fairness of what is begun: scripts, init jobs, calls, the page's handler of a check or
download, and of each poller separately, since `setInterval` goes on whatever the others do. `Pages` asks
it of the polls of dot and log, of the mark's timer and of the first fetch. Never of users, cron, losses or
the daemon.

Each property of a passing run has a mutant in `PROJECT.json`: a definition of the
code changed as a plausible mistake would change it (`ArmTimeForgotten`,
`ExpireDropsBackups`, `TouchForgotten`, ...), under which TLC finds the property violated. Where a property
is a conjunction, the modules hold one mutant for every part; `PROJECT.json` lists one of them, and the others
are `save_settingsQuietly` (`RunsSaved`), `GiveBackAlways` (`ControlsAgree`), `DownloadDoneOnly` (`MissEnds`), `SavedPlain`
(`SettingKept`), `PressLazy` (`ShownIsView`), `AskUnpaused` (`GhostsGo`), `handleMenuExpandOnly` (`OneOpen`), `CleanQuietly`
(`NoModHonest`), `LoadSingleSwapped` (`NothingOffUnasked`), `GotoRoamOver` (`OneView`), `BackToFormBoth` (`ConfirmTrue`),
`ReopenThere` (`WizardConfirmed`) and `saveForgotten` (`WishKept`).

## 4. Where the code and its texts disagree

Four runs have `expect: violation`. Each shows behaviour of the code that a comment or
the documentation excludes.

1. `lan_overlap`, `ExpiryReverts`. `set_network` deletes all backups at line 87 and no
   timer. A second call within the 120 seconds, of any mode, also one that is then
   rejected, leaves an armed timer without a backup; on expiry the rollback finds
   nothing (loop, 112). The page says "If enabled, the system will auto-revert if you
   lose connection within 120s." (`netwiz.js:70`). TLC's trace lets the timer run out
   at once; the same happens after the full time.
2. `wan_two_starters`, `TrapOnlyUnlocks`. The trap is installed (46) before the lock is
   looked for (56): an instance that finds the lock taken exits through `cleanup`,
   which removes the other's lock and undoes its probe. Line 171 says that on a
   normal exit the trap only removes the lock file. Loop and boot poller are the starters.
3. `wan_killed`, `LeftoverRestored`. Lines 49-54 are there for `kill -9`, but act only
   without a lock file, which `kill -9` leaves too; and the loop (49) starts nothing
   while it exists. The leftover stays until the next boot.
4. `system_power`, `PowerLossUndoesTrial`. A WAN backup taken while an address is on
   trial contains that address; at boot it overwrites what the LAN backup restored
   (boot script, 18 then 35). `README.md:16` of the application "guarantees an automatic
   network restoration even if the router loses power mid-test".

Other limits met while modelling. They are reproduced by changing one constant of a run:

- `TornBackup = TRUE` in `lan`: `AlwaysRecoverable` fails when power is lost inside the
  `cp` that takes a backup (plugin, 126): boot restores an empty file. The script
  calls `sync` after its own backup (101), the plugin does not.
- `OldReachable = TRUE` in `lan_live`: `DisarmedIntact` fails when `confirm` comes
  between the rollback's test for the backup and its `cat` (loop, 112-114):
  `network` stays empty.
- `MaxTerms = 1` in `wan_crash`: `DurableWanWorks` fails, since after the trap the
  script goes on to set and commit without a backup.
- `StartsDebounced` speaks of the time until the first power loss. After one, the boot poller starts the
  script itself; `DOWN_COUNT` is frozen while the lock exists, so that readings before and after that script
  add up to three (`MaxCrashes = 1` in `wan`, with `crashes = 0` dropped from the property).
- `TwoStarters = TRUE` in `wan_crash`: `OneEngine` fails in the window between lines
  56 and 57.
- `MaxKills = 1` in `lan_live`: `TrialWatched` fails, for the rollback lost by a respawn.
- The WAN backup is a copy of the whole `network` file (script, 100), so putting it
  back also undoes a LAN change committed meanwhile, although line 31 calls it isolated
  from the LAN's.

In Lucky and the pages the properties name what they except. Each exception is a behaviour of the code
that was met in a counterexample; dropping the history variable from the property shows it again.

- `clash`: a manual and an automatic update share the extract directory (`lucky-update.sh:490`); Install is
  enabled again by choosing another version while one runs (`update.js:320`).
- `broke`: a failing `cp` (`lucky-update.sh:508`) dies with the service stopped; nothing starts the old program.
- `late`: a background stop may run after a newer start (`luci.lucky:215`). `hasty`: toggles overtake each other.
  `SwitchTrue` stops at the second loss: `syncToggleState` takes the empty answer of a lost call for a
  disabled daemon (`faults <= 1`; a first loss is repaired).
- `Disturbed`: clearing the cache or an overlapping run takes the poller's last word; "done" of an automatic
  run is none for a check (`update.js:255`). `Mute`: an automatic run that dies in its LuCI half leaves "ready".
- `Blindly`, `Unstarted`: a check call that was lost starts a poller (`update.js:209`) for a task that may never have begun: it
  ends with the word of an earlier run, or keeps the button disabled and polls for ever.
- `themeLost`: a lost `get_settings` reads as a background that is on, in the page and in `localStorage` (`common.js:172`). `colorsLost`:
  it empties all four colours (349), and the next edit saves that over the router's. A lost save is not noticed.
- `loaded_ok`: settings that did not load are shown as defaults, and saved as such (`config.js:195`).
- `DotFollows` says nothing of a daemon that never comes: the page says STARTING for ever (`status.js:336`).
- `crossed`: a save that meets a load or another value may be undone. `early`: a colour panel opened before the
  settings came wipes them with its first save (`common.js:392`). `thin`: opacity 0 is saved as 100 (343), and a
  translucent colour that is reset is read back as black (437, 983). `doubled`: a second close timer hides a
  panel opened in between (494).
- Kiwi's plugin resets its mark also when it equals the number of lines (`luci.kiwi:20`, `-ge`), where the comment
  at line 18 says when it exceeds it: after clearing a quiet log the old lines come back. `rotated`: a
  mark means nothing once the ring has turned.
- `copied`: a tab copies a password but not the encryption (`netwiz.js:2082`, `2097`). Two bands of one network of
  which one is off are shown as one that is off (1469). 5G's encryption is not restored by a split.
- Choosing another protected network for the relay keeps the former one's password (2256).
- `overtaken`: the answer to Next that comes after Back displays a second step (2377), and a refresh may fill
  the form between the click and the answer (1214).
- `Window`: sheep's plugin serves the last 64 KiB of its log, from the middle of a line (`luci.sheep:41`).
- `Blanked`: on a router with two chips the encryption is assigned to the select unchecked (`netwiz.js:1472`, `1478`, `1493`; on
  one chip it is checked, 1369). `psk2+ccmp` is no option, so the select is blank; Next asks only whether it is `none`
  (2344, 2578), and the plugin writes no encryption for an empty one (299, 339). The network is then open while the form
  shows its password, although line 333 of the plugin says that as long as there is a password, none is not allowed. TLC
  finds it with `KeyMeansClosed` as an invariant of `pages`.
- `unchecked`: Next skips the comparison when an address is empty (2398), and the WAN's is until the first refresh is over and
  after each that lost the status (1162, 1219-1224). `README.md:30` of the application says that it "actively stops users
  from putting WAN and LAN in the same subnet". TLC finds it with `SubnetsApart` as an invariant of `pages`.
- `OneClass = TRUE`: the comparison is of three bytes (1791), the mask that is sent is that of the address's class (1789, 2634).
  With a WAN of 10.1.1.2 and a LAN of 10.2.2.1 both end in one network, all addresses known: `NetworksApart` fails.
- After a clear that ubus refused, kiwi's and sheep's pages show an empty log, until the next poll brings the lines back.
- `missed`: a refresh that got no settings counts as "IPv6 off" (1271), and that is what the wizard sends. The plugin
  does nothing with it: it reads `arg6` in mode `lan` only (231-239). `muddled`: a
  wizard state saved while the first load is on its way is forgotten by the page (1194).
- `set_network` refused or failed is reported as success (2767, `.catch(function() { succ(); })`).

One more divergence concerns nothing modelled: logs go to `/tmp/netwiz.log`, not to
the `/etc/netwiz.log` of the application's README.

## 5. What is proved

`NetwizLan_proofs` proves, for every set of addresses and WAN settings and every bound,
theorems about `LanSafetySpec` (safety only; fairness adds nothing to them):

| theorem | states | assumes |
|---|---|---|
| `TypeCorrect` | `[]LanTypeOK` | nothing beyond the modules' assumptions |
| `Inductive` | `[]LanInv` | `PlainUse` |
| `Recoverable` | `[]AlwaysRecoverable` | `PlainUse` |
| `Intact` | `[]DisarmedIntact` | `PlainUse` |
| `Consent` | `DurableByConsent` | `PlainUse` |
| `Refinement` | `TrialRefined` | `PlainUse` |
| `Watched` | `[]TrialWatched` | `PlainUse`, `MaxKills = 0` |

`PlainUse == ~Overlap /\ ~OldReachable /\ ~TornBackup`. The assumption is as weak
as the code allows: section 4 shows a counterexample for each conjunct dropped.

**The argument.** None of the properties is inductive. `AlwaysRecoverable` speaks of
`Durable`, which reads the backups; to see that, say, `JobCleanup` may delete them
one must know that the files equal the backups then, hence that nothing wrote since
the rollback, hence that no request came in, hence where every process can be while
others work. `LanInv` collects this in layers (`NetwizLanInv`):

- `TypeInv`: `LanTypeOK` and `RequestInv`, what the plugin knows of its request.
- `FilesInv`: what is missing in a file is in its backup. This is the heart: it implies
  `AlwaysRecoverable` at once.
- `RpcInv`, `TimerInv`, `RollbackInv`, `BootInv`: which process excludes which. There is no
  lock among the LAN's processes; the exclusion follows from the timer files, from
  `Settled`, and from who creates and removes the backups.
- `PageInv`: a confirm in flight comes from an address the router no longer has, unless
  the rollback is over. It is why a late `confirm` is harmless in `PlainUse`.
- `AgreeInv`, `TargetInv`, `ClientInv`: the address that runs, the address on disk and the timer's
  target agree when the radar counts connections, so a defusal is consent.
- `BackupInv`: a backup about to be removed equals the files, or has been replaced by consent.
- `WatchInv` (for `Watched`): without respawns a backup is always somebody's business.

The proofs have one step per action of `LanNext`: first that the action preserves
`TypeInv`, then `StepInv`, then `ConsentInv`, each using the former. The refinement
has a lemma per kind of step: most leave `Durable` alone and map to `Write` or a
stutter, and the remaining ones map to `Begin`, `Accept`, `Abandon` and `SetDirectly`. `Watched` needs its own
invariant, `WatchInv`, on top. TLC checks `LanInv` in the run `lan`, where it was debugged before
it was proved.

### The menu and the colours

`ArgonMenu_proofs` proves `MenusSettleAlways`, `OneOpenAlways` and both together, `MenuSoundAlways`, for any set of menus, with no assumption. The
invariant `MenuInv` says what a running animation remembers: always the plain style, never the
style of the animation it interrupted, because `stop` restores before anything is remembered;
what slides down is active, what slides up is not. Without it `Elapsed` could write back anything.

`LuckyColors_proofs` proves `ColorRoundTrip`, `LooksKeptAlways` and `SlideKeepsColorAlways` for any keys, hues
and number of edits, from `ColorAssumption` (opacities are percentages, a hue is none of the special values). The
round trip is arithmetic over 0..100: the percentage survives both roundings. The invariant `ColorInv` adds to the types
that the sliders follow the colours once the settings came (`SlidersFollow`), that a value in the router is
whole (`ValuesWhole`), and that the last save on its way, or else the router, holds what is
painted (`LastSaveCounts`). Each conjunct was model-checked before it was proved.

### The WAN detection

`NetwizWan_proofs`, about `WanSafetySpec`, for any number of instances of the script, any lists of settings,
and any bounds on flips, signals, kills and power losses:

| theorem | states | assumes |
|---|---|---|
| `WanTypeCorrect` | `[]WanTypeOK` | nothing |
| `TrapUnlocks` | `[]TrapOnlyUnlocks` | `~TwoStarters` |
| `Exclusive` | `[]OneEngine` | `~TwoStarters`, `MaxTerms = 0` |
| `Durability` | `DurableWanWorks` | `~TwoStarters`, `MaxTerms = 0`, `~TornCopy` |
| `Debounced` | `StartsDebounced` | nothing |

Each assumption excludes a behaviour of the code for which section 4 has a counterexample: the two starters,
the script that goes on after its trap, the copy that power tears.

The lock alone excludes nobody, since an instance tests it and creates it in two commands, and its trap
removes a lock that is another's. What does is that at most one process may start the script at a time. `SoloInv` says
so: at most one instance runs, and none while the boot script or its poller does. `LockInv` ties the
lock to the commands of the instance, and `TrapInv` says that no backup is left where the trap
looks for one: `TrapOnlyUnlocks`. `TrialInv` adds that a probe has its backup and what is about to outlive it:
`network` is the backup again, or a setting that works; it implies `DurableWanWorks` command by command. The invariant is stated
under the condition that nobody has signalled *yet*, so that one proof serves `TrapUnlocks`, where
signals are allowed, and the others. `TriesInv` is what the type invariant needs: a setting is left wherever one is
used, also at the command to which a trap returns. `CountInv`, for `Debounced`, says that
`DOWN_COUNT` never exceeds the readings there were, and is 0 while a script starts: a reading that
the script's own lock hides is not counted.

TLC checked `WanInv` and `CountInv` on four instances (the constants of `wan` and `wan_crash`, and both with
the other's signals and torn copies; up to 5.5 million states) before they were proved.

### The whole system

`NetwizSystem_proofs`, about `SysSafetySpec`, where the LAN fail-safe, the detection, the debounce and the boot script
share `network`, backups and timers, for every value of the constants, torn copies, late confirms, signals and respawns
included unless the table says otherwise:

| theorem | states | assumes |
|---|---|---|
| `SysTypeCorrect` | `[](LanTypeOK /\ WanTypeOK)` | nothing |
| `TimersBacked` | `[]TimerBacked` | `~Overlap` |
| `Paired` | `[]BackupsPaired` | `~Overlap` |
| `SysTrapUnlocks` | `[]TrapOnlyUnlocks` | `~TwoStarters` |
| `SysExclusive` | `[]OneEngine` | `~TwoStarters`, `MaxTerms = 0` |
| `SysDebounced` | `StartsDebounced` | nothing |

What the parts prove alone is not true of the whole for free: the script replaces `network` at any command, and a request
deletes the script's backup. `ScriptLeaves` and `LanLeaves` say what each side does leave alone: the script touches no
LAN backup, timer or boot step, and no LAN step touches lock, boot or anything of the script's but its backup, which
it can only take away. `WanSide` sorts the steps of the whole into the two sides, so that the lemmas of `NetwizLan_proofs`
and `NetwizWan_proofs` about single steps are used again: all of them for the types, and those about the lock, the
trap and the debounce, for which a backup taken away does no harm.

`LanInv` does not survive the composition: with torn copies, a late confirm and a script that puts an old
`network` back, files and backups need not agree. `TimerBacked` and `BackupsPaired` need less, and `PairInv` says what: a request is served
while nothing of an earlier one is at work (`HandlerInv`); rollback and job begin when the timer has gone and nothing is
served (`LoopInv`). Only then does who removes a backup also remove its timer first. `~Overlap` is needed: `lan_overlap` shows
a timer without a backup. TLC checked `SysInv` with the constants of `system` and with two calls before it was proved.

`DurableWanWorks` is not a property of the whole: a request may set any WAN protocol, working or not. The other
theorems about the LAN stay with `NetwizLan`; for two of them the whole has counterexamples: `system_power`, where
boot puts a WAN backup back over the LAN's, and the item on the script's copy of the whole file in section 4.

### Lucky

`Lucky_proofs`, about `Spec` of `Lucky`, for any number of processes, versions, settings, pollers, calls and faults, with no
assumption but those the modules state of their constants:

| theorem | states |
|---|---|
| `LuckyTypeCorrect` | `[]LuckyTypeOK` |
| `Installed` | `[]InstalledMatches` |
| `DaemonObeys` | `[]DaemonAsAsked` |
| `SwitchTruthful` | `[]SwitchTells` |
| `PollsEndFresh` | `EndsFresh`, which excepts the poller of a lost check call |
| `SavesOnlyTouched` | `SaveKeepsOthers` |

The invariant (`LuckyInv`) has a part for each thing two processes must agree on, and the parts rest
on the types only, so that each has its own proof:

- `WireInv`: whatever is on its way is well formed. It makes the types inductive: a page keeps what it is told.
- `InstallInv`: until two installations meet, one process at a time has the extraction directory; what it holds is torn or is the
  version that process wants, and so is the program once copied. `installed` may differ only until it is recorded.
- `DownInv` with `RunsSaved`: the reasons for a stopped daemon, for every command between `stop` and `start`.
- `ButtonInv`, `SwitchInv`: what every call under way has told the switch, and what its answer will. A user who waits
  has one call under way; the repair of a failed toggle is that call.
- `FreshInv`: a word never is older than a run somebody waits for, because `runTask` removes the status
  file and counts the run before it answers; an answer of this generation was read after that. A poller without a run (`Blindly`) waits for
  nobody's word and is left out.
- `FormInv`: the form, and a save on its way, equal the settings where the user touched nothing.

The proofs are organised by who acts: the router's processes leave the page alone and the pages leave the router alone
(`PagesOutside`, `PollingOutside`, `Sides`), so a part of the invariant meets only the actions that touch it.
TLC checked `LuckyInvariant` with the constants of `lucky` and with two faults before it was proved.

### The pages

`NetwizForms_proofs` and `Pages_proofs`, about `Spec` of `Pages`, for any bounds on clicks, edits, lines and moves:

| theorem | states | assumes |
|---|---|---|
| `RelayWhole` | `[]WispWhole` | bounds are naturals |
| `WizardConfirms` | `[]WizardHonest` | bounds are naturals |
| `AppliedSound` | `[]StepsSound` | bounds are naturals |
| `WifiHonest` | `[]WifiFormHonest` | bounds are naturals |
| `SplitRestores` | `SplitComesBack` | bounds are naturals |
| `PagesTypeCorrect` | `[]PagesTypeOK` | the modules' assumptions |
| `AppearanceObeys` | `[]AppearanceSettles` | bounds are naturals |
| `LogsTrue` | `[]ScreenTrue` | `Ring >= 2`, `MaxLines >= 1`, `Window >= 1` |
| `PausedStays` | `PausedStill`, the safety half of `LogsSettle` | `Ring >= 2`, `MaxLines >= 1`, `Window >= 1` |
| `ColorsAndMenus` | `ColorSpec /\ MenuSpec` | `ColorAssumption` |

The bounds are those of the model. The system log of a router, by default some tens of kilobytes, holds more than the two lines
that are there at first, and a page keeps more lines than the one message of a failure (`__maxLines`, 500 in the code). The
values of the forms (bands, networks, addresses, settings of a router) are the small sets of the modules: these
theorems hold for every number of steps, not for every value of a field. What the properties except by name (section 4) the
theorems except too: lost loads and saves, the blank select, an address that is not known. Since the
machines share no variable and one of them runs per behaviour, each has an invariant of its own, and `Pages_proofs`
puts them together: every step of `Next` is a step of one machine and leaves the others alone (`MachineSteps`).
`ColorsAndMenus` says so for the two machines that were specified and proved alone, whose
theorems (`LooksKept`, `SlideKeepsColor`, `MenuSound`) therefore hold here.

What the invariants (`PagesInv`) add to the properties is what the code remembers across an answer:

- `WispInv`: the property with its types is inductive; the 5G switch clears what it makes untrue.
- `WifiInv`: what the smart switch put aside is what the bands had (`orig.left`), and is as whole as the form
  (`NoIdleFields`): else coming back would bring an idle password. `NoModHonest` follows from `MarksKept`, nothing loses its
  mark without `force`; `NothingOffUnasked` needs the panels that are not displayed too (`StaysOn`).
- `StepInv`: each step and each dialog vouches for something (`Vouched`): the third step for the checks and the text, the
  warning for what it warns of; and only what the checks accepted is being asked about (`AsksAccepted`).
- `WizInv`: what each step has checked, what a submission still stands on (`StepsChecked`), and
  what is on its way when an answer counts: `Ipv6Known` and `WishOnItsWay`.
- `PanelInv`: as long as nobody closed twice, at most one close timer runs, and only in a displayed panel that is not
  wanted; a wanted panel has its height or a frame that gives it.
- `ThemeInv`: with no crossing one value at most is on its way, and it is the page's; with nothing lost (`themeLost`) router and page agree without one.
- `LogInv`: the numbers of kept lines grow only by appending, and those under kiwi's mark were cleared (`RingInv`).
  The view is opaque to the proof, because `SelectSeq` is recursive: what is shown is `View(lines, bar)`, whatever that computes;
  of `Content` the proof uses that it is the log, for kiwi without its first `Skip` lines, for sheep its last `Window` lines.

TLC checked `PagesInvariant` with the constants of `pages` before it was proved. A proof that failed found one definition
that was not well defined: two arms of a CASE in `LoadSingle` (`NetwizWifi`) overlapped where the second interface has
no name, and TLA+ does not say which arm counts. TLC takes the first, as the code does, so the runs were right;
the definition is an IF now.

**Only model-checked.** Liveness (`AddressReturns`, `Quiesces`, `TrialKept`, `EndsOnline`,
`LockReleased`, `LeavesNothing`, `WaitsEnd`, `DotFollows`, `GhostsGo` in `LogsSettle`): the prover has no support for
fairness and ENABLED. `LooksKept`, `SlideKeepsColor` and `MenuSound` are proved of their modules, and reach `Pages` by
`ColorsAndMenus`. Every other invariant and action property of the passing runs is stated by a theorem.

## 6. Not modelled

NetWiz: the radio settings, WISP bridge and cron watchdog as the plugin writes them (a text generator over
`/etc/config/wireless`; its `uci commit network` changes neither setting kept); `check_wifi`;
restarting dependent services; logs and their trimming; the awk of the radar beyond its verdict; INT, which the trap
treats as TERM; of the page, texts and translations, styles, channel, power and width fields, traffic display.
The page's forms and its plugin are checked apart: `NetwizPage` and `NetwizRpc` take any request, so they
do not depend on what the forms let through.

Lucky: the LuCI half of updates (its own section of the page, `check_luci`, `download_luci`; the half inside an
automatic run is one step), the metrics and their charts, the variants of programs and mirrors, procd's respawn,
the schedule of cron.

Also every component of 1.4.

## 7. Plan

1. *Done.* The LAN fail-safe, its abstract specification, inductive invariant and
   proofs; the WAN detection; the whole of NetWiz's router side; Lucky; the log pages, the menu, NetWiz's forms.
2. *Next components*: `PassLock` (`flock` on a file that is unlinked: abstract mutual
   exclusion and the implementation that does not refine it), `SocksSwitch` (recursion
   until a node works, the monitor's restart limit), `Bandwidth` (wrtbwmon's lock, read-and-zero,
   ending). `calc_netmask` of the script against the address classes, as a pure function.
3. *Next theorems.* Every safety property of the runs has one; what is left is item 4 and the new components' own.
4. *Abstract specifications*: a probe as a trial of WAN settings, with `DurableWanWorks` as
   its step relation, in the manner of `NetwizTrial`; a page's setting as one register that saves and loads implement.

## 8. Reading order

`NetwizRouter`, `NetwizRpc`, `NetwizMonitor`, `NetwizLan`; then `NetwizTrial` and
`NetwizLanInv` for the argument; `NetwizLan_proofs` for the details;
`NetwizAutodetect`, `NetwizDebounce`, `NetwizWan` and `NetwizSystem` for the rest of the router.
For Lucky: `LuckyRouter`, `LuckyRpcd`, `LuckyPoller`, the three pages, `Lucky`. The machines that `Pages`
opens can be read in any order; `ArgonMenu` with its proofs is the shortest.

To repeat a check: `tlc -config MCNetwizLan.cfg NetwizLanInv` (each run's module and cfg are in
`PROJECT.json`); to repeat the proofs: `tlapm NetwizLan_proofs.tla`, and so for every module that ends in
`_proofs`. The inductive invariants of `NetwizWanInv`, `NetwizSystemInv` and `LuckyInv` are checked by naming them as INVARIANT in a copy of
`MCNetwizWan.cfg` (module `MCNetwizWan`), `MCNetwizSystem.cfg` (module `MCNetwizSystem`) and `MCLucky.cfg` (module `LuckyInv`);
`PagesInvariant` in one of `MCPages.cfg` (module `PagesInv`).
