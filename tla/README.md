# DrasticDS for Switch: a TLA+ model of the host around the emulator core

The repository runs the closed-source Android build of the DraStic DS emulator on
a console that has neither Android nor Linux. The emulator core is an ELF library
that `source/so_util.c` loads and relocates; everything the core believes to be
libc, bionic pthreads, OpenSL ES, EGL and the Java VM is implemented by the host
program in `source/`. A second program, the launcher in `launcher/`, keeps the
library of games, their settings and the storage they come from, and starts the
host. What can go wrong is mostly at two borders: between the core and the host, where two
threading models, two memory models and two lifetimes meet in code whose callers
cannot be read or changed; and between the launcher and the world, where disks, networks and
power come and go while workers read. This directory holds specifications of the parts
where that is hardest to test, the configurations that check them with TLC, and
proofs for TLAPS.

Everything runs from this directory:

    tlc -workers 2 -config Fastmem.cfg Fastmem
    tlapm Fastmem_proofs.tla

## 1. Inventory

The state, operations, interactions and hard behaviour of each component, and
what makes it correct. "Modelled in" names the module, "-" means not yet or not
at all (section 8).

| Component | State | Operations | Talks to | What is hard, and what is correct | Modelled in |
|---|---|---|---|---|---|
| Fastmem (`libc_shim.c` 1120-1560) | page table of the guest area, live count, kernel mapping | mmap/munmap/mprotect of the area, fault path | core threads through exceptions, kernel | lock-free read before the lock, kernel calls that fail half way, a limit on live mappings; the table must say what the kernel maps, each access must be answered | `Fastmem`, `FastmemView` |
| Core threads (`pthr.c`) | thread records, active count, reaper queue, shutdown flag | create, join, detach, exit, `pthr_shutdown` | core, libnx threads | threads are never killed: they leave at a condition wait; no thread may run when the core is unmapped, none may be joined twice, none may be missed | `CoreThreads` |
| Bionic condition variables and mutexes (`pthr.c`) | lazily made native objects, `frame_sync` capture | wait, timed wait, signal, broadcast, once | core threads | lazy initialisation raced by two threads, waking everybody at shutdown, a thread that leaves while it holds another mutex; no notification may go to an object nobody sleeps on, no screen may be lost, no initialiser run twice | `BionicCond`, `OnceControl` (timed waits and semaphores: -) |
| OpenSL ES player (`opensles.c`) | packet ring, wave buffers, voice, counters | enqueue, clear, play state, suspend, thread turn, shutdown | core callbacks, audio driver | a ring and a set of wave buffers in front of a driver that may refuse; order, the limit, one callback per buffer | `PlayerQueue`, `AudioQueue` |
| OpenSL ES recorder (`opensles.c`, `switch_mic.c`) | packet ring, sample buffer, microphone, settings, status | enqueue, clear, record state, settings, thread turn | core, host menu, audio-in service | settings, generation and status are separate atomics; devices come, go and fall silent; buffers must come back | `MicRecorder` |
| Controller sampler (`input_sampler.c`) | runtime settings, snapshot, latches, last input of the core, stylus | poll, read, update runtime, destroy, pointing | HID, core, host frame loop | polls at 1 kHz against reads at frame rate; no press lost or told twice, nothing left held; touch, stick and motion must point at what is drawn | `InputSampler`, `ScreenLayout` |
| GL ownership (`hooks/egl.c`) | owner thread, per-thread flag | make current, release, park | core render thread, host renderer | one context, several threads that want it; the flag and the owner are kept apart | - (planned) |
| Vulkan renderer and capture (`drastic_vk_renderer.c`, `drastic_renderer.c`, `drastic_vk_capture.c`) | frame slots, fences, swapchain, captured core frames | capture, present, suspend, resume, set shader | frame loop, core, menu, compositor | a ring of slots guarded by the fence of the next frame, early returns between acquire and present, flags set while commands are recorded; no slot rewritten in flight, each frame drawn as configured, no picture left with the core | `VkFrames`, `VkTextures`, `ScreenLayout` |
| Save snapshots (`libc_shim.c`) | sixteen slots of save data under rewrite | open for write, write, close, fsync | core file calls | a crash between truncation and the last write must not lose the save | - (planned) |
| ashmem, alias views, tracked mmaps (`libc_shim.c`) | arenas, views, mapping table | create, map, remap, unmap, shutdown | kernel, JIT, fastmem | remapping fails half way; fixed tables fill up | - (planned; fastmem takes its arenas from here) |
| JIT code (`drastic_jit.c`, redirects in `libc_shim.c`) | code regions with a writable and an executable view | map, write, flush, redirect | core recompiler | two views of the same memory, eight redirect slots | - (planned) |
| Network storage (`switch/SwitchStorage.cpp`) | registered and retired mounts, connections, open files with a read-ahead buffer | mount, reconnect, unmount, open, read, seek, write | launcher's screens and workers | a share unmounted while another thread has looked it up; a server position ahead of the file's; a retry on a new connection | `SmbMounts`, `SmbFile` |
| USB mass storage (`launcher/dependencies/libusbhsfs/usbhsfs_uasp.c`) | tags, endpoints, posted transfers, table of transports | command, abort, reset, bind, free | USB host service, file system | late answers of a command that was given up; a disk pulled while readers wait for it | `UasTransport`, `UasContexts` |
| Lifecycle (`main.c`) | game thread, menu, suspend flags, fast-forward word | start, frame, hotkeys, menu, suspend, resume, quit | all of the above | focus lost and regained in the menu or while a screen is awaited; the core must stand still exactly when it should | `EmuSession` |
| Frame generation (`lsfg/lsfg_bridge.cpp`) | backend instance, slots, source images, frame counter | create, present, destroy | renderer | two presentations for a frame, one of which may fail; sources in step with the backend, no command buffer reused too early | `VkFrames` |
| ELF loader (`so_util.c`), imports (`imports.c`, `dl_emu.c`) | loaded modules, symbol tables | load, relocate, resolve, unload | everything | sequential, table driven | - |
| Java VM (`jni_fake.c`) | classes, references, strings | JNI calls | core | sequential per call, mostly tables | - |
| In-game menu (`ingame_menu.c`, `overlay.c`) | page, preview, copies of cheats and of a state's picture, edited rectangles | settings, filter picker, layout editor, states, cheats | frame loop, renderer, core, preferences | a value has up to three homes; tries that are cancelled or fail; copies that age; two-step deletion | `MenuPages`, `LayoutEditor`, `MenuStates`, `MenuCheats` |
| Configuration and preferences (`drastic_config.c`, `prefs.c`) | settings in memory, launch configuration, the game's profile, layouts | load, default, migrate, save, mirror; calculate a layout | launcher, menu, renderer, sampler | files rewritten under power cuts; migrations that must happen once; rotation, swap, gap and aspect | `PrefsStore`, `ScreenLayout` |
| Archives (`archive_loader.c`) | cache of extracted games with descriptions | find, extract, replace | start-up | two files replaced one after the other, shared by archives of one name | `ArchiveCache` |
| GL and shaders (`drastic_gl.c`, `drastic_custom_shader.cpp`, `shaders/`) | GL objects, parsed presets | draw, parse | renderer | drawing and parsing | - |
| Exceptions and errors (`crash.c`, `exc_entry.s`, `error.c`) | exception slots | fault entry, deferred fault | fastmem | assembly; the entry is the fault step of `Fastmem` | - |
| Glue (`drastic_compat.c`, `util.c`, `config.c`, `SwitchPosixCompat.cpp`) | none to speak of | helpers | | | - |
| Launcher: library (`launcher/source/main.cpp`) | games, identities, scan worker's queues, mounted disks, shares, folders, pins | scan, refresh, notice a disk, edit folders and shares | storage, worker threads | a change noticed in the middle of a scan or marked as seen too early; one key for two games | `LauncherLibrary`, `LauncherIdentity`, `LauncherShares` |
| Launcher: start and stores (`main.cpp`) | `launcher.ini` and its companions, profiles, unpacked files and markers | recover, load, migrate, save, unpack, chain | SD card, host | two renames per save, any of which fails or is the last one | `LauncherBoot` |
| Launcher: screens (`main.cpp`) | nested loops, two option stores, three profile names | open, change, save, reset, close | stores, library | one copy in memory shared by nested screens; closing anywhere; older profiles that come back | `LauncherScreens` |
| Launcher: file manager (`main.cpp`) | clipboard, running transfer | copy, move, replace, cancel | file systems | failure half way through a tree or a replacement | `LauncherTransfer` |
| Launcher: covers (`main.cpp`, `griddb.cpp`) | request queue, decoder's result queue, cache, responses, picture files | request, decode, upload, evict, search, download, import | worker, SteamGridDB, SD card | requests dropped and marked, results late, a hand-written JSON scanner, replacement by renames | `LauncherCovers`, `GridDb` |
| Launcher: update (`launcher_update.cpp`) | own NRO, backup, download, job state | check, download, activate, recover | network, SD card | the running program replaces itself by two renames | `LauncherUpdate` |
| Launcher: HOME shortcuts (`forwarder.cpp`, `fwd/main.c`) | contents, metadata, record, configuration; next program and arguments | install, replace, remove; load, chain, return | ncm and ns services, host | four databases without a transaction; three programs that hand over to each other | `LauncherForwarder`, `ForwarderLoader` |
| Launcher: localization and sounds (`localization.cpp`, `ui_audio.cpp`) | tables | look up, play | | tables of texts and sounds | - |
| `third_party/`, `data/`, `extras/`, `tools/` | | | | vendored code, shaders, assets and build scripts | - |

## 2. Modules

| Module | Role |
|---|---|
| `FastmemView` | what an address area promises: each page shows its source or faults |
| `Fastmem` | the lazily mapped area, one action per loop iteration under the lock, and the fault path |
| `Fastmem_proofs` | its invariants and the refinement of `FastmemView`, for every instance |
| `AudioQueue` | what a buffer queue promises: order, limit, one report per buffer |
| `PlayerQueue` | the player's ring, wave buffers, voice and thread, which implement it |
| `CoreThreads` | creation, join, detach and exit of the core's threads, and `pthr_shutdown` |
| `BionicCond` | condition variables: first use, capture of the screen's condition, waits and notifications |
| `BionicCond_proofs` | its safety invariants, for any number of threads |
| `OnceControl` | `pthread_once`, with nested initialisers |
| `MicRecorder` | the recorder's thread, the microphone, its settings and its status; at its end, the proof that the status is true |
| `InputSampler` | the controller thread, its latches and its settings |
| `InputSampler_proofs` | its safety invariants, for every configuration |
| `VkFrames` | the Vulkan renderer's slots, queue and swapchain images, with the frame generator behind them |
| `VkTextures` | what a frame is drawn from: filter and overlay textures and the flags that keep them |
| `EmuSession` | the host from start to end: frame loop, hotkeys, menu, focus, the game thread's own end |
| `MenuPages` | settings pages and the filter picker of the in-game menu |
| `LayoutEditor` | the editor of the two screens' rectangles |
| `MenuStates` | save states and their page |
| `MenuCheats` | cheats and their page |
| `PrefsStore` | preferences: defaults, migrations, the launch configuration and the game's profile |
| `ArchiveCache` | the cache of games unpacked from ZIP archives |
| `ScreenLayout` | layouts, drawing and pointing in one geometry |
| `LauncherLibrary` | the library under scans, storage mounts and disks that come and go |
| `LauncherIdentity` | the keys games are stored under, as files move, change and are scanned |
| `LauncherShares` | network shares, game folders, pins and the screens that edit them |
| `LauncherBoot` | the launcher's files across failed operations and power cuts, up to the start of the host |
| `LauncherScreens` | the nested screens and what each saves |
| `LauncherTransfer` | the file manager's copies, moves and replacements |
| `LauncherCovers` | requests, decoding, installing and evicting of covers |
| `GridDb` | SteamGridDB: its responses, the JSON reader, the downloads |
| `LauncherUpdate` | the launcher replacing itself |
| `LauncherForwarder` | installing a HOME shortcut and taking it back |
| `ForwarderLoader` | what a shortcut runs: loader, launcher and emulator in turn |
| `SmbMounts` | mounts of a share, their connections and the threads that use them |
| `SmbFile` | an open file on a share and its read-ahead |
| `UasTransport` | one UAS command at a time, its failures and its recovery |
| `UasContexts` | the transports of disks that come and go |
| `MCInputSampler` | buttons, keys and hotkeys for the sampler (`Fastmem`, `BionicCond`, `MicRecorder` and `LauncherBoot` need only a configuration) |
| `MCCoreThreads` | threads and once controls |
| `MCOutput` | player and renderer |
| `MCHost` | textures, session, menu, preferences, archives and pointers |
| `MCLauncher` | the launcher and the storage below it |
| `CoreThreads_proofs` | the safety of `CoreThreads` and `OnceControl`, for any threads and controls |
| `Output_proofs` | the refinement of `AudioQueue` by `PlayerQueue`, and the safety of `VkFrames`, for every size |
| `Host_proofs` | of `MCHost`: each of its nine parts |
| `Launcher_proofs` | of `MCLauncher`: each of its fifteen parts, of SteamGridDB the files |

The last four `MC` modules are sums: a variable `part`, which never changes, says which of the
modules a behaviour exercises, and the variables of the others keep one value. The
state space is the union of the parts', not their product, and a property of a part is stated
under `part = ...`. The constants of the parts are constants of the sum, with the assumptions that the proofs need. Where the modules' variables differ only by module, the sum holds them in
slots `v1`, `v2`, ...; the `INSTANCE ... WITH` lines say which variable is in which.

The modules share no variables. The code couples the host's components through the core only
(a core thread calls the queue or faults) and through `main.c`: what `EmuSession` needs of the sampler, the renderer and the
core's threads (the gameplay flag, waiting for a screen, being paused) are variables of its own. The launcher's
components meet in `main.cpp`'s main loop; each of their modules has the loop's steps that concern it.

### 2.1 Fastmem

`pages` is `g_fastmem_pages`: per page the arena page it shows and the flags.
`live` is `g_fastmem_live_pages`, `kmap` is the kernel's own page table, which the
program cannot read. An operation is a record `op` (kind, range, loop index) that
exists while `g_fastmem_lock` is held; each loop iteration, that is one kernel call with
the stores that belong to it, is a step, and may fail. The kernel call
and its table stores are one step: nobody else can observe the moment between
them except a fault, and a fault takes the lock before it acts.

The fault path is per thread: `fault[t]` walks through the lock-free look at the
table, the wait for the lock, the second look, the batch mapping and the return,
as `fastmem_lazy_fault_candidate` and its caller do. A thread that lost a race
(its page is mapped now) goes on to the core's own handler, as the code does.

Assumptions that the code makes and so does the model: the fastmem mode is on;
arenas are freed only at shutdown, so the arena of a table entry always exists; the second
reservation of a whole area is not modelled.

### 2.2 PlayerQueue and AudioQueue

One step is one hold of the player's lock. The ring is kept with head, tail and
count, since the hand-back of a refused buffer moves the head backwards modulo the ring;
`wave`, `pending` and `device` are the driver's buffer states, the host's flags
and the voice's own playing order. `AudioQueue` has only sequences; the mapping
reads the ring out of `head` and `count`, and the playing buffers out of the
blocks of the voice, so the refinement says that the *contents* played are the
contents enqueued in order, and not merely that some buffer is.

### 2.3 CoreThreads

`pc` gives every thread and the main thread its place in `pthread_create_soloader`,
`pthread_join_soloader`, `pthread_detach_soloader`, a condition wait or
`pthr_shutdown`. A section under `thread_lock` is one step. Condition queues are abstracted to
"may be woken at any time", which the code must survive anyway because bionic
allows spurious wake-ups. `SelfDetach` says whether a thread may detach itself,
which POSIX allows and the code's records do not expect.

### 2.4 MicRecorder

The thread's turn is split at every shared access: the dequeue under the lock,
the reads of the enabled flag, the source and the generation, the status stores. The
host's setters are split likewise (value, generation, status). The generation
counter matters only through its comparison, so it is the boolean `changed`.
Samples are counted in captured blocks; a buffer takes `Need` of them. The audio-in
service may succeed, fail, deliver nothing or time out at each call.

### 2.5 InputSampler

Poll, call of the core, publication and sleep are steps of the thread. The
controller may hold any buttons at any poll, and the stylus may point anywhere,
so the arithmetic of sticks, sensors and mouse is outside the model. The hotkey
combinations, the masking of their buttons, the recenter hotkey that only
exists in motion mode, autofire and the touch button are kept.

### 2.6 BionicCond and OnceControl

A condition of the core is a word that may hold a host object (`magic`, `real`);
whichever thread comes first creates it. The test without `init_lock` and the
one under it are separate steps, and so are the test and the wait that follows it. The
list at `bionic_cond_head`, walked by the shutdown's broadcast, is `records`. `frameSync` and `latched`
are the captured condition and its pending notification. A mutex is
its holder; the condition is that of a caller that publishes under the mutex and
notifies after it, as the core does. `noticed` and `due` are history variables:
a notification that reached the captured condition, and one that had done so when the screen wait began.
A condition is destroyed only when no call uses it, as POSIX asks. `MaxObjects`
bounds how often one is made again.

`OnceControl` keeps a stack of controls per thread, since the initialiser of one
singleton may use another one; an initialiser uses later controls only, or it would wait for
itself. All controls share one lock and one condition, as in the code. A thread that
leaves at a condition wait inside its initialiser (`Exit`) keeps its control running.

### 2.7 VkFrames and VkTextures

`drastic_renderer_present` is one long function with many early returns. `VkFrames`
takes it apart at the calls that wait or may fail: a frame begins (and takes the
core's picture, or defers that in low-latency mode), waits for its slot, acquires
an image, is recorded and submitted, and presented. `gpu` is the device's
queue, an item per submission together with the presentation that waits for it;
`Execute` works off its head and signals the slot's fence. Images are counted, not named: `fifo` are
presented, one is `shown`, `leaked` were acquired and never given back, and `Free`
is what remains. `mode` is fixed when the renderer is made, as in the code, and decides
the number of slots and of images. The bridge's calls follow `LsfgNxRuntime::present`: a
first frame that only fills a source image, then for each frame the
generated image in place of the real one, and the real one in an image acquired for it, as a queue item of the same slot.
The backend's frame index lives in vendored code; only its parity matters. `DeviceWaitIdle` is
the guard `gpu = <<>>`. `Faults` names the calls that may fail in an instance.

`VkTextures` is the same function seen from its data. Since one queue runs the submissions in
order, a texture has the content that the last submitted frame gave it, and
`VkFrames` shows why the staging memory behind it is not changed before it is
read (`NothingReusedInUse`). A picture's identity is not kept, only whether a texture shows the latest one:
`output` names the filter whose passes made a texture from it. The overlay's generation
numbers are reduced to whether the renderer's copy is still equal. `tainted` is a history variable: validity flags
were set by commands that failed later.

### 2.8 EmuSession

The main thread's `stage` runs through the start in the order of `main`, the frame loop
(hotkeys, waiting for a screen, presenting, opening the menu) and the shutdown; a start
that fails goes to the shutdown from where it is, and a core that ended before its first picture without a result ends
the program with a message (`CouldNotStart`). The game thread is the record `game`; it may end
between any two steps of the main thread. Focus comes and goes inside `appletMainLoop`, so on the main
thread, at each place that calls it. `settings.config` is what the menu set last, `game.config` and
`game.fast` are the two parts of the word the core was given last.

### 2.9 MenuPages, LayoutEditor, MenuStates, MenuCheats

`MenuPages` keeps a value in its up to three places (running configuration, preferences, the core's word); one row
stands for the rows of a page that are kept in the same places. `backup` is what B goes back to, from the picker or
from the editor; a shader that is tried may fail to load. `LayoutEditor` has the arithmetic of moving,
resizing, clamping and the aspect lock on a square panel of whole units, in each rotation; panel, sides and steps are multiples that
make every 4:3 come out whole, so that what the code rounds to pixels is exact here.
`MenuStates` has the files of two games, the picture that is shown, the two presses that delete a state, and saves
that end at any time; `disturbed` is the history variable for a save that ended unseen. `MenuCheats` has the
database's cheats with their one-only folders, the user's own with their moving numbers, the page's
list of copies, and the bitmap of the preferences as a sequence of digits.

### 2.10 PrefsStore and ArchiveCache

Files are functions from keys to values; every file call is a step, may fail, and the power may go before it.
`PrefsStore` has the table's limit, the defaults, the migrations by version and `prefs_save_runtime_key` step by
step. `ArchiveCache` is about one name of a copy: the archives that share it, the copy,
its description, and the replacement of both. The history variables `spoiled` and `split` mark the
losses that the code does not see (section 6).

### 2.11 ScreenLayout

The geometry of what is drawn and pointed at: the seven layouts with integer scaling, gap and swap, the four
rotations, the drawing of each screen's rectangle, and the three maps from touch panel, stick and motion sensor to a pixel of the
touch screen. Lengths are integers in a unit that every division of the code leaves whole, and a place within a screen is a pair
of fractions, so that no rounding of the model's own comes in. The sampler's `runtime` is a copy that the main thread hands over
once a frame; `InStep` says that it is the configured one.

### 2.12 The launcher's library: LauncherLibrary, LauncherIdentity, LauncherShares

`LauncherLibrary` splits a pass of the main loop where a worker can come in between: each read of an atomic and
each section under a lock. Its folders lie on the card, on a share and on a USB disk that is stored by identity; another
disk may take the mount; the run has one disk, the theorem any. `dropped` is a history variable: a scan ended between the
loop's two last looks at it, with a game it had not handed over (section 6). `LauncherIdentity` has the files themselves: a record is found by path, or by fingerprint for a
moved file, is reserved while its old file may still be listed, and is claimed by one file per scan. `LauncherShares` has
the three screens that edit shares, folders and pins on top of each other, with the copy of the folders that the list below keeps;
folders are a set, their order is left out. `stale` is a history variable: what that copy held on a share when the share was
removed above it (section 6).

### 2.13 The launcher's files: LauncherBoot, LauncherScreens, LauncherTransfer

`LauncherBoot` follows `main` from the recovery of `launcher.ini` through migration, first setup, profiles and unpacking to the start of the
host, and back; saving is a subroutine (`after` is its return address) of three file operations.
`LauncherScreens` is a stack of loops; a request to exit unwinds it by each loop's own returns, with what each saves on its
way. `LauncherTransfer` has `copyTree` and `copyFileAtomic` with the partial copy, the file put aside, cancellation, and
the two ways of moving (rename or copy and remove). A directory whose reading fails counts as read to its end, as in the
code; the history variable `unlisted` has what that left out of the copy (section 6).

### 2.14 Covers: LauncherCovers, GridDb

`LauncherCovers` has the queue with its limit, the worker's one job, the results and the budgets of a frame. Request numbers and epochs are reduced to
what the code asks of them (`wanted`, `fresh`). A frame is pump, events and drawing; the drawing asks for one cover
after the other (`page` is what it has yet to ask for, `budget` what it may still request), while the worker goes on. `GridDb` reads responses as sequences of tokens with the code's own
scanner, which knows strings, escapes and braces; the responses are those of a server that writes correct JSON. Then it follows
downloads through `.tmp`, `.old` and the renames; a file is none, torn (being written) or the whole picture of an address.

### 2.15 LauncherUpdate, LauncherForwarder, ForwarderLoader

`LauncherUpdate` has the update screen's frame (which judges its events by a snapshot of the state), the worker's job, and
the renames; what may be in the launcher's place, in the backup and in the download is a release, nothing, or a partial
file. `LauncherForwarder` has the installation as a sequence of service calls, each with the rollback that its failure
triggers; ncm and ns are external, their calls succeed or fail and a metadata commit is atomic. An old
shortcut whose removal fails gets its record back even when its metadata could not be restored; the history variable
`unrestored` marks that (section 6).
`ForwarderLoader` has the loader's loop with `g_nextNroPath` and `g_nextArgv`.

### 2.16 Storage: SmbMounts, SmbFile, UasTransport, UasContexts

A mount in `SmbMounts` is one of the share's successive registrations; `call` is what each thread executes, with the mount it
has looked up; `registered`, `retired` and `context` are the registry, the unmounted ones, and the live connections. The calls that take a
path look for a connection first, except the opening of a file or a directory (`smbOpen`): it goes on
without one, the step `blind` (section 6).
`SmbFile` numbers the file's bytes by place, with a mark for overwritten ones, so that a wrong byte cannot pass for the right one; truncating may also extend it by zero bytes.
`UasTransport` keeps what is posted (`status`, `data`) and the device's units to come (`answers`, with tag and kind and the command they
belong to; a device told to give a command up may drop the last of them); recovery is the code's ladder of abort, unit reset and device reset. `UasContexts` has the table's mutex and
one per transport, and the manager's bind, give-up and free against readers.

## 3. Properties and runs

| Run | Instance | Properties | Why the bounds are enough |
|---|---|---|---|
| `fastmem` | 3 pages, limit 2, batch 2, arena of 2 pages, 1 thread | `TableMatchesKernel`, `ImplementsView`, `FaultsAreAnswered` | more pages than the limit, so the limit binds; runs of two pages and a batch smaller than the area; one faulting thread beside the requests, as a second one only finds its page mapped, which a request can do too; the proofs cover every size and any number of threads |
| `output` | player: ring 3, queue 3, 2 wave buffers, 2 packets; renderer: 3 slots, surface of 2 to 3 images, every fault | `ImplementsQueue`, `FullGetsRoom`; `FramesInOrder`, `FramesKeepComing` | the ring wraps, both wave buffers are busy while packets wait, two contents tell any reordering, and the proofs cover the other sizes; the renderer's own ring, and the fewest images each mode works with, so that every acquisition may have to wait and the bridge has as few slots as it can have |
| `output_images` | the renderer, only the generator's creation fails | `OneImageHeld`, violated | see section 6 |
| `threads` | threads: main thread and 2 threads; once: 3 threads, 2 controls | `ShutdownIsClean`, `ShutdownCompletes`; `OnceForAll` | a creator and a thread that is created, joined, detached or reaped while the main thread shuts down; a caller in a nested initialiser, and waiters of different controls on the one condition; the proofs cover more threads |
| `threads_selfdetach` | 1 thread that may detach itself | `RecordsAreUnjoined`, violated | see section 6 |
| `conditions` | main thread, 2 workers, 1 notifier, 3 objects | `NoWakeIsMissed`, `PublishedIsTaken` | two workers compete for one signal; each of the two conditions is made, and one made again; the proofs cover more threads |
| `microphone` | 2 buffers, each of two captured blocks | `ShownAndLetGo` | one buffer can be filling while another waits, and the capture may run dry within a buffer; the settings are not reduced |
| `microphone_capacity` | as `microphone` | `CapacityIncludesDevice`, violated | see section 6 |
| `input_sampler` | 2 buttons, 3 overlapping hotkeys | `InputIsWhole`, `MenuReleasesCore` | a two-button combination whose buttons are hotkeys of their own, a key, and the touch button: one button in several roles; the proofs cover more |
| `host` | nine parts, below | `ShownAsConfigured`, `SessionInStep`, `MenuLeavesNoTrace`, `EditsAsShown`, `DeletesWhatIsShown`, `SavedCheatsMatch`, `ChoicesSurvive`, `PlaysChosenArchive`, `PointedAsSeen` | below |
| `launcher` | fifteen parts, below | `DiskIsListed`, `KeyNamesOneGame`, `SavedHaveShares`, `RestartsWhole`, `OptionsAreKept`, `NothingLost`, `ReplacedIsKept`, `CoversAreServed`, `FetchedWhole`, `LauncherSurvives`, `ShortcutIsWhole`, `ChosenGameOnly`, `ContextOutlivesUse`, `FileReadsItsBytes`, `AnswerIsOwn`, `TransportOutlivesUse` | below |
| `bindings_lost` | `LauncherBoot`, 2 changes, 2 builds | `BindingsKept`, violated | see section 6 |

The parts of `host`:

| Module | Instance | Why it is enough |
|---|---|---|
| `VkTextures` | 2 screens, 2 built-in filters, 2 custom shaders, one of a single pass | changes within and between both kinds of filter; a layout that leaves a screen's texture out; any number of changes and failures; proved for all |
| `EmuSession` | 2 settings, 2 slots, at most 2 hotkeys between two reads | two settings tell a stale word; two hotkeys are one that returns early and one behind it |
| `MenuPages` | 2 built-in filters, 2 shaders | from any filter to any other of either kind, with a shader that fails in between |
| `LayoutEditor` | panel of 48 units, sides of at least 12, moves of 8, 2 operations, 4 rotations | every edge and the minimum can be reached by two operations from the loaded rectangles |
| `MenuStates` | 2 games, 2 slots, 3 pictures | another game's file with the same number, with the same or another picture |
| `MenuCheats` | 2 or 4 database cheats, at most 3 listed, digits of 2, 2 own cheats | more cheats than the list takes, two digits of which one is partly used, a one-only folder, a deletion that moves a number |
| `PrefsStore` | table of 8, settings of versions none to present, with and without a profile | a table that has no room left for the versions; old values at every version |
| `ArchiveCache` | 2 archives of one name, 2 versions | either can be older, newer or unusable |
| `ScreenLayout` | panel of 1280 x 720 pixels, 4 x 3 pixel screens, 7 layouts, 4 rotations, 2 gaps, 2 custom layouts, 12 points | points in each corner, in and between the screens; one custom layout is not 4:3 |

The parts of `launcher`:

| Module | Instance | Why it is enough |
|---|---|---|
| `LauncherLibrary` | three folders, the configured disk | one source of each kind; the disk may come and go at every step of a pass |
| `LauncherIdentity` | 2 paths, 4 records, 2 changes, 2 games of 2 fingerprints | a move, a copy or a replacement, and one more after it, in the middle of scans |
| `LauncherShares` | card and one share, a folder each, at most 2 game folders | a share removed, and added again under its identity, while folders of it are used |
| `LauncherBoot` | 2 changes, 2 builds | an older and a newer build; two saves tell the last from the one before |
| `LauncherScreens` | 2 changes, 2 contents of a game's options, pages nested two deep | a change above a change; a profile under each of its names |
| `LauncherTransfer` | folders of 3 files, a single file that replaces another | failure at the first, a middle and the last file |
| `LauncherCovers` | 2 games on pages of one; queue, results, upload budget and cache of one, 2 requests a frame | every limit binds; a frame's second request drops its first |
| `GridDb` | 2 objects, texts with quotes, brackets, backslash and a character of two escapes, 2 addresses, 2 icons | one object before the one that is read; each way a text can upset the scanner |
| `LauncherUpdate` | 3 releases | update, another update over its backup, and nothing newer |
| `LauncherForwarder` | 3 installations, present and legacy title, 2 places of the launcher | an installation over one that failed over one that is whole |
| `ForwarderLoader` | launcher and emulator, no hbmenu | every chain of loader, launcher and emulator; a configuration that names a program that is not there |
| `SmbMounts` | 2 threads, 3 successive mounts | a thread that holds the mount before last |
| `SmbFile` | 5 bytes growing to 6, read-ahead of 2 to 4, requests of at most 3, reads of at most 4 | reads shorter and longer than the buffer and than a request, across its end and the file's |
| `UasTransport` | 3 commands | late units of a command may come in either of the next two |
| `UasContexts` | 2 readers, 2 drives, 3 transports, table of 2 | a drive that is plugged again while readers of its old transport wait; a full table |

What the properties say. Several are conjunctions, each conjunct of which the module
states on its own; a dash lists them.

* `TableMatchesKernel`: a page the table calls mapped is mapped to that very arena page, and no other is.
* `ImplementsView`: each page always shows the source it was given, or faults.
* `FaultsAreAnswered`: every fault is resolved or handed to the core's handler.
* `ImplementsQueue`: playing order is enqueue order, and each buffer is reported once.
* `FullGetsRoom`: the core is not refused for ever while the player plays.
* `FramesInOrder`:
  - `NothingReusedInUse`: staging memory and commands of a slot are rewritten only when the GPU, and the frame generator, are through with them; so are the bridge's slots, those of frames that set no fence included, because the renderer's ring runs ahead of them; and switching frame generation off leaves nothing of it in the queue;
  - `PendingFenceWillSignal`: no slot waits for a fence that nothing will signal;
  - `CoreFrameTaken`: every early return still takes the core's finished picture;
  - `SourcesInStep`: bridge and backend agree which source image is the current frame.
* `FramesKeepComing`: slots, queue and swapchain never wait for each other for ever.
* `ShutdownIsClean`:
  - `ShutdownLeavesNoThread`: at the end no thread runs, and each one was joined;
  - `RecordsAreUnjoined`: `pthr_shutdown` joins no thread twice.
* `ShutdownCompletes`: `pthr_shutdown` ends, a wait begun just after its broadcast included.
* `OnceForAll`: an initialiser runs once (`InitialisedOnce`), and each caller returns, unless the core is being shut down (`CallerReturns`).
* `NoWakeIsMissed`:
  - `SleepersOnCurrentObject`: nobody sleeps on a host object that its condition no longer has;
  - `BroadcastReachesAll`: the shutdown's broadcast walks exactly the live objects;
  - `NoticedScreenNotSleptOver`: a screen notified before the wait for it began is not slept over.
* `PublishedIsTaken`: a published screen, and published work, is taken, in whatever order publication, notification, first use and wait happened.
* `ShownAndLetGo`:
  - `ActiveIsShownTruly`: the menu never shows an active microphone that is closed;
  - `MicrophoneIsReleased`: an unwanted microphone is closed, whichever stale setting the thread read;
  - `BuffersComeBack`: a silent or failing microphone keeps no buffer of the core;
  - `Reconnects`: a lost microphone is opened again.
* `InputIsWhole`:
  - `PressesAreLatched`, `NoHotkeyTwice`: a press is told to the host once, however rarely it reads;
  - `ReleasedAtTheEnd`: no key stays down in the core when the sampler has gone.
* `MenuReleasesCore`: nor when a menu opens in the middle of a poll.
* `ShownAsConfigured`: each screen shows the latest picture through the configured filter.
* `SessionInStep`:
  - `CoreStandsStill`: with the menu open or the focus away a live core is paused and gets no input, and the main thread waits for no screen of a paused core;
  - `CoreRunsAsSet`: a frame is run with the settings of the menu and the fast-forward of the hotkey, whichever was sent last.
* `MenuLeavesNoTrace`: outside picker and editor the running configuration, the preferences and the core agree, and a chosen shader is the loaded one, after any tries, failures and cancellations.
* `EditsAsShown`: an edit moves and resizes what is seen in the direction that is seen, keeps the lock's aspect, stays on the panel and leaves the other screen alone.
* `DeletesWhatIsShown`: only the state that was shown when the user was asked is deleted.
* `SavedCheatsMatch`: what the page lists, what the core runs with and what the preferences save are the same cheats.
* `ChoicesSurvive`: mirroring one value loses no other of the profile (`ProfileKeepsOthers`); no default or migration changes a choice made after it (`RestartKeepsChoices`).
* `PlaysChosenArchive`: the game that is started is the one that is in the chosen archive now.
* `PointedAsSeen`:
  - `TouchIsSeen`: a touch means a pixel seen under the finger, or nothing;
  - `CursorIsStylus`: the cursor is drawn on the pixel that the stylus touches;
  - `CursorFollows`: the stick moves it the way it is pushed, the motion sensor to the nearest pixel.
* `DiskIsListed`: when nothing is left to do, a connected disk has its game listed.
* `KeyNamesOneGame`: no step gives a key to another game.
* `SavedHaveShares`: no pinned folder, clipboard entry or game folder is on a removed share, but for a game folder that an open folder list still held and saved again (`stale`).
* `RestartsWhole`: the last saved store, or the one being saved, is found again (`SavedIsRecovered`), and the host is started with files of this launcher's build (`ChainedWithOwnFiles`).
* `OptionsAreKept`: the grid never shows with unsaved options (`NothingUnsaved`); a launch uses the options the game was last saved with (`MeantIsUsed`).
* `NothingLost`, `ReplacedIsKept`: each file is at the source or whole at the destination, but for those that a directory's failing reading left out of the copy (`unlisted`); and a replaced one stays until its successor is in place.
* `CoversAreServed`: a game that waits for its cover has a request that will be answered (`QueuedIsServed`), and what is shown is the cover file as it is (`CoverIsCurrent`).
* `FetchedWhole`: responses are read as they were meant (`ReadAsOffered`), and the cover on the card is always whole (`CoverIsWhole`).
* `LauncherSurvives`: a whole, verified launcher is in its place or in the backup.
* `ShortcutIsWhole`: a title that HOME shows has metadata, but for an old shortcut whose failed removal did not put it back (`unrestored`); and registered metadata has all its contents.
* `ChosenGameOnly`: the game starts only when it was selected.
* `ContextOutlivesUse`: no connection is destroyed under an operation, and none outlives its mount's last user; only the opening of a file or directory goes on without a connection, and only on a mount that is not connected.
* `FileReadsItsBytes`: server position and read-ahead fit the file's position.
* `AnswerIsOwn`: no command is answered by another's status, and no posted buffer is reused.
* `TransportOutlivesUse`: a transport in use is in the table, not freed, and used by one thread.

Each module has a type invariant, `TypeOK`; where proofs exist it is proved for every instance
(section 5), and the runs check other properties. `LiveCountExact`, `RequestHonoured`,
`CapacityRespected`, `VoiceMatchesWaves`, `ActiveCountExact`, `ReturnsAfterInitialiser` and `OverlayCurrent` are stated and
proved, and not checked by a run.

Every property is checked against a mutant of the model that breaks it; the
mutants stand before the definitions they change, named for the bug. Conjunctions have one for
several of their conjuncts.

`CHECK_DEADLOCK FALSE` is set where the system really stops: the threads of the player,
the recorder and the sampler exit, the main thread ends after `pthr_shutdown`, a session and the launcher end, and
counted changes of a part are used up.

## 4. Fairness

Fairness is assumed of what the console schedules, and never of the core, the
player of the game or the host's menu. `host` and `launcher` check safety only and assume none:
where something must eventually happen there, the property says instead that nothing is left undone or that a step which will do it is under way
(`DiskIsListed`, `QueuedIsServed`).

* Fastmem: a thread that holds the lock runs on, and one that waits gets it in the end (libnx mutexes hand over to waiters; `SF` on `Resolve`).
* PlayerQueue: the thread loops once per audio frame; the driver plays what it holds; `SF` on `ServeOne` because a driver that refuses for ever would starve any player.
* CoreThreads: every thread is scheduled; a thread in core code comes to a condition wait or returns again and again (`SF`). The emulator's worker loops are of that kind; a core thread that spins for ever would hang `pthr_shutdown`, in the code as in the model.
* BionicCond: every thread is scheduled (`WF` on its own steps); a notifier that has published notifies. When, or whether, the core publishes, initialises or destroys is free.
* OnceControl: a caller gets the lock; an initialiser returns unless its thread left at a wait.
* MicRecorder: the thread and a begun setter run on, ticks pass, and `SF` on `Opened`: the service does not refuse for ever while a device is there.
* InputSampler: the thread runs.
* VkFrames: the main loop presents once a round (`SF`, as the menu's changes come in between), a call goes on, GPU and compositor go on; `SF` on `Acquire`, as the 50 ms may run out, but not each time while images become free. Focus is free.

In a sum (`MCOutput`, `MCCoreThreads`) the fairness of one part's step and of another part's is one condition on
their disjunction; as `part` never changes, that is the fairness of the one that can happen.

## 5. Proofs

`Fastmem_proofs` proves, for any number of pages, threads, arenas, any limit and any batch size:

* `TypeCorrect`, `TableAgreement`, `LimitRespected` (the exact count), `RequestsHonoured`, and
* `ImplementsTheView`: `Spec => ImplementsView`.

The inductive invariant is `TypeOK /\ TableMatchesKernel /\ LiveCountExact /\
RequestHonoured /\ OpInv`. `OpInv` is needed because the properties alone do not
survive the second loop of a mapping request: while entries are installed, the
range ahead of the loop index must be known to be empty and within the bounds of
the arena, which was established by the loop before. The count needs finite-set
reasoning (`FiniteSetTheorems`): a run of n mapped entries is an interval of n pages, and taking it
from the set of mapped pages lowers its cardinality by n.

`MicRecorder` proves at its end, for any capacity, fifo, buffer size and number of time-outs (`SizesAssumption`): `RecorderTypes`
(`TypeOK`, which bounds queue, fifo and time-outs) and `StatusIsTrue`, the safety half of
`ShownAndLetGo`. The status and the microphone are changed in different steps, so "active means open" alone is not
inductive: the thread closes the microphone for a new generation and only then decides anew. `IInv` says that this
is the only place where the status may lag, and that no retry is pending there, as with a retry pending the
thread would keep what it no longer has.

`InputSampler_proofs` proves, for any buttons, hotkeys and bindings:
`SamplerTypeCorrect`, `PressesLatched`, `HotkeysOnce`, `CoreReleased` and, of them, `InputWhole` (`InputIsWhole`).
The strengthening is `ThreadInv`: the buttons the thread compares the next poll
with are those of the snapshot it published, and the core has what was sent
last. Without the first a press between snapshot and comparison could be lost.

`Output_proofs` proves, for any ring, queue and number of wave buffers:
`PlayerTypeCorrect`, `LimitHolds`, `VoiceAgrees` and `PlayerIsAQueue`
(`Spec => ImplementsQueue`). The invariant adds to the properties `RingInv` (the tail is `count` places after
the head, modulo the ring) and `WaveInv` (a buffer not yet reported is queued or
done; the voice is as long as there are queued buffers). Without `RingInv` a
refused packet could not be shown to go back to the place it came from. The refinement has a lemma per action;
each says what the action does to the sequence that the mapping reads out of
the ring.

It also proves `FramesKeepOrder` (`FramesInOrder`) of the renderer, for any surface and two or three slots
(`FramesAssumption`: the bridge has four slots of its own, so that with more slots in the renderer it would be overtaken; the code has three).
That nothing is reused is an argument about distances in two rings. `SlotsWait` says which slots the queue holds;
`QueueInOrder` orders the queue by how many frames were submitted after a slot's own (`Back`), so that the fence of a
slot that is taken again vouches for all that was queued with and before it, the submissions without a fence included;
`TurnsInOrder` bounds the age of a bridge slot (`Since`) by that of its frame, one slot per frame at most, so that the
bridge's next one is free whenever the renderer's is. `BridgeInStep` counts the real frames against the backend's index.

`BionicCond_proofs` proves, for any workers and notifiers: `CondTypeCorrect`, `SleepersReachable`, `BroadcastComplete`,
`NoticedScreenSeen` and, of them, `WakesReachSleepers` (`NoWakeIsMissed`). `ObjectInv` adds that a thread past the first-use step has an
initialised condition until its call is over, and `NoticeInv` how history and latch relate.

`CoreThreads_proofs` proves `RunsOnce` and `NobodyEarly` of the once controls, for any
threads and controls; the invariant is that an initialiser has been started as often as
its control's state says, that it has finished when the state is done, and that a thread is inside started initialisers only.

Of the threads it proves, for any number of them: `ThreadsTypeCorrect`, `CountIsExact`,
`ShutdownCollectsAll` and, when no thread detaches itself, `NoneJoinedTwice` and `ShutdownClean` (`ShutdownIsClean`; with self-detachment they are false, section 6).
`CreateInv` says that a thread being created has one creator and does not exist yet, so that the
count can be compared with a set. `JoinInv` says where each born thread
is accounted for: joined, on record, about to be put on record by its creator, or in the hands of `pthr_shutdown`.
`QuietInv` is the argument of the shutdown: once it has read zero, no thread can do anything but
end, so nothing is created or waited for behind its back. `ClaimInv` orders record, claim and
join.

`Host_proofs` and `Launcher_proofs` are about the parts of the two sums. Each part has an inductive invariant, `IInv`, stated at the
end of its module, where it can be run as well (of `ScreenLayout` it is `TypeOK`). A lemma per action shows that it survives, and since `part` never changes, the theorem at the
end says of the whole what was shown of the part. They hold for every value of the constants named here;
the counts that bound a behaviour are any number.

| Theorem | Property, module | What the invariant adds, and why |
|---|---|---|
| `TexturesTypeCorrect`, `FramesShownAsConfigured`, `OverlayIsCurrent`, `ShaderIsInstalled` | `ShownAsConfigured`, `VkTextures`, for any screens, layouts, filters and shaders | `FlagInv`: a validity flag that no failed frame set stands for a texture of the filter that `g_filtered_filter` names, and, as all custom shaders share one name there, of the installed shader; this is why installing another must clear the flags. `AcquireInv` carries that from the slot to the image; `OverlayInv`: a generation taken over has its pixels in the texture of its orientation |
| `CoreFollowsHost` | `SessionInStep`, `EmuSession`, for any slots and settings | `RunsOtherwise`: a core is paused for a reason, and the focus gives it back running unless the reason is the menu; `SetAsKnown`: only an open menu, or a host that knows it has to set them, leaves the core with older settings |
| `MenuForgets` | `MenuLeavesNoTrace`, `MenuPages`, for any filters and shaders | `BackAsSaved`: what B goes back to is what is saved; `OnlyTried`: picker and editor change nothing beside what they try. `FiltersAssumption`: there is a filter, and none of the built-in ones is the custom one |
| `ShownIsDeleted` | `DeletesWhatIsShown`, `MenuStates`, for any slots and pictures | `AskedAsShown`: a question is about the picture of the game's own state, though the page finds it by number; `FoundAsAsked`: of the files that match one is removed, the own |
| `ChoicesOutlive` | `ChoicesSurvive`, `PrefsStore`, for any limit and any finite files | `SessionsSettled`: in a running session every default is there unless the table is full, and the versions are the last ones; settled preferences are loaded unchanged. `WrittenFirst`: before the profile is removed its successor is written |
| `ChosenIsPlayed` | `PlaysChosenArchive`, `ArchiveCache`, for any archives and versions | `CopiedFirst`: a copy is the chosen game before it is described; `DescribedAsCopied`: a copy next to a description is the described one |
| `CheatsOutlive` | `SavedCheatsMatch`, `MenuCheats`, for any databases, folders and cheats of the user | the types, and that the page's list is fresh (`ListIsFresh`) and the core runs with what the menu holds. The list and the digits are functions with no recursion over the database, so that their meaning at an index is a lemma. `CheatsAssumption`: a digit of the bitmap stands for one to four cheats |
| `PointersMeanWhatIsSeen` | `PointedAsSeen`, `ScreenLayout`, for any panel, pixels, gaps and custom rectangles | that `runtime` and `config` are layouts; the rest is geometry: each rotation is undone by its inverse, a place within a screen goes to a pixel and back. `PointersAssumption`: a fraction is fine enough for the pixels, of which a screen has at least two each way |
| `EditsMeanWhatIsShown` | `EditsAsShown`, `LayoutEditor`, for any panel, steps and saved layouts whose aspects come out whole | the rectangles lie on the panel with at least the least side (`ArePlaced`), and with the lock each is 4:3 as it is seen (`IsNative`): the code recalculates both rectangles after an edit, and only for a native one that changes nothing. `EditorAssumption`: sides and steps are multiples of what makes them come out whole, and the least side is at most the height, 3/8 of the panel, that a reset gives |
| `DiskShowsUp` | `DiskIsListed`, `LauncherLibrary`, for any disks | `KnownIsListed`: once the launcher knows of the disk, the disk's folder is queued, or is ahead of the worker, or its game is on the way to the list, or listed and not about to be cleared; `ScanInOrder`: what a scan hands over it also remembers as found, so that its end removes nothing it listed |
| `RestartFindsWhole` | `RestartsWhole`, `LauncherBoot`, for any number of saves and builds | `KeptSince`: the file that a recovery would take, wherever the power goes, is not older than the last save that succeeded, nor is what is in memory; `SaveUnderWay`: how far a save has come; `MarkedAsUnpacked`: the marker never names a later build than the installed one, so that an older core is unpacked anew |
| `KeyIsOneGames` | `KeyNamesOneGame`, `LauncherIdentity`, for any paths | types only: each of the ways of taking a key over is shown to take one of the same game |
| `OptionsStay` | `OptionsAreKept`, `LauncherScreens`, for any depth, changes and contents | `WellNested`: which loops can be on the stack and what is below each; so the loop that saves is still there whenever something is unsaved (`SavedOrOpen`), and the store that is edited is the one the screen belongs to (`ActiveStore`) |
| `NothingIsLost`, `ReplacedKept` | `NothingLost`, `ReplacedIsKept`, `LauncherTransfer`, for any files | `SourceWhole`: until everything listed is copied the source is whole, then the destination is, but for `unlisted`; `CopyUnderWay`: the file put aside is the one that is being replaced |
| `SavedLeadToShares` | `SavedHaveShares`, `LauncherShares`, for any shares and folders | `HeldHaveShares`: what an open folder list's copy holds is on the card, on a share that is there, or `stale`; `Opened`, `BrowsesShare`: the folder that an open browser shows is on a share that is there, also under the screen that removes it. `ShareAssumption`: no share is called like the card |
| `CoversCome` | `CoversAreServed`, `LauncherCovers`, for any library, page and limits | `ComingIsCurrent`: what the worker or a result brings for a game that waits is current, or of a cover known to have changed; `QueuedIsServed` is its own invariant. `CoversAssumption`: the library has a game, and page and queue have room |
| `CoverNeverTorn` | the half of `FetchedWhole` that is about files (`CoverIsWhole`), `GridDb`, for any responses, addresses and limits | only `.tmp` is ever torn, and not any more when it is about to take a name; until the old cover is moved aside it has its name, and then it is `.old` |
| `LauncherIsThere` | `LauncherSurvives`, `LauncherUpdate`, for any releases | `DownloadVerified`: what is about to be put in place was verified and nobody writes to it; `OldIsKept`: until then the backup is whole |
| `RegisteredIsWhole` | `ShortcutIsWhole`, `LauncherForwarder`, for any number of installations | `CreatedIsOwn`: what an installation may take back is its own build's and was not there before; `Registering`, `Replacing`: what the older metadata refers to is there besides; an old shortcut's record is put back without metadata only where `unrestored` says so |
| `StartsItsGame` | `ChosenGameOnly`, `ForwarderLoader`, for any programs | `NextIsChosen`, `StartedIsChosen`: the key comes with the default only, and the emulator is next only for a selection |
| `ContextOutlives` | `ContextOutlivesUse`, `SmbMounts`, for any threads and mounts | `MakersApart`: a mount that is being made is its maker's alone; `LockHeld`; `OrphansFenced`: a connection of an unmounted share has the thread that will destroy it; `ConnectedHasContext`: a mount that counts as connected has its connection, so that an opening goes `blind` only where it does not |
| `ReadsItsBytes` | `FileReadsItsBytes`, `SmbFile`, for any file, buffer and request sizes | `HandleAtItsEnd`, which the property says only for a buffer that was not gone past: a direct read keeps the server's position although it leaves the buffer behind; `UsedUp`: a read goes to the server with its buffer used up |
| `AnswersItsCommand` | `AnswerIsOwn`, `UasTransport`, for any number of commands | `TagsAreSpent`: the tags of units to come are spent, so that the next one is not among them; hence `OwnStatus`. `TagsAssumption`: a command uses three tags, and the tags do not come round within the bound. The code's 16-bit tags do come round after some ten thousands of commands, and a unit as late as that is outside this theorem and this model |
| `TransportOutlives` | `TransportOutlivesUse`, `UasContexts`, for any readers, drives and slots | `FoundInTable`: what a reader found stays in the table until it lets go; `TableSound`, `ManagerAt`: one transport per drive, and none once the drive's endpoints are gone. `ReaderAssumption`: no reader is called like the manager |

The only assumptions are the named `ASSUME`s on the constants, which the runs evaluate.

Model-checked only:

* liveness, which is outside what the prover can do: `FaultsAreAnswered`, `FullGetsRoom`, `FramesKeepComing`, `ShutdownCompletes`, `OnceForAll`, `PublishedIsTaken`, `MenuReleasesCore`, and of `ShownAndLetGo` what comes back in the end (its status half is `StatusIsTrue`);
* of `FetchedWhole` the half about text (`ReadAsOffered`): that a response is read as it was meant is an induction over its characters.

## 6. Findings

* A core thread that detaches itself before its creator has pushed its record
  can be reaped first; the record is then pushed for a thread that is already joined, and
  `pthr_shutdown` joins it again. The comment at `source/pthr.c:530` says
  "Core-owned joins removed their records already." (run `threads_selfdetach`).
* A recorder takes one buffer more than `numBuffers` while it fills one, because
  the packet it took out of the ring is in no counter; the comment at
  `source/opensles.c:866` says the limit includes buffers handed to the device
  (run `microphone_capacity`).
* When the frame generator cannot be created (`Lossless.dll` is only tested for being
  readable), each frame returns with its image acquired and never presented, so
  that the next one acquires a second image and soon none is left; creation is not
  tried again, and switching frame generation off does not help. The comment at
  `source/lsfg/lsfg_bridge.cpp:166` says "VI allows only one acquired image here."
  (run `output_images`).
* The launcher decides whether this is its first start by a `stat` of `launcher.ini` before
  the store is recovered from its companions (`launcher/source/main.cpp:7395`). After a power cut between the two
  renames of a save the store is recovered and the first setup runs all the same; if the
  USB disks are not ready by then, it saves the game folders without their disks. The comment
  at `launcher/source/main.cpp:2373` says "Saving while USB is still initializing must
  not erase a known stable binding." (run `bindings_lost`).
* A share's removal asks "Saved folders on this share will also be removed."
  (`launcher/source/main.cpp:3863`). A folder list that was left open below the share list has read the folders before,
  and saves its copy at its next change, with the removed share's folders (`launcher/source/main.cpp:5790`, `5818`, `5831`). No run shows this on
  its own; without the exception `stale`, TLC finds `SavedHaveShares` violated in `launcher`.
* An opening on a share whose reconnection was cancelled, timed out or failed to make a client calls `smb2_open` or `smb2_opendir`
  with a null context (`source/switch/SwitchStorage.cpp:395`, `426`, `758`): the mount stays registered, and of the calls that take a path only these two do not look.
  What the library does with it is outside this repository; the model takes the step `blind`, and
  `ContextOutlivesUse` bounds when it can come.

The first four are runs of their own.

Losses that the code has are excluded from the properties by history variables; of these a document denies only `stale`:

| Variable | Module | What it marks |
|---|---|---|
| `skipped` | `VkFrames` | after a failed generated presentation the bridge's source images are out of step with the backend's |
| `tainted` | `VkTextures` | after a failed submission the filter textures count as filtered until the next picture |
| `spoiled` | `PrefsStore` | a profile that lost lines because it could not be read or written, or was removed and not replaced |
| `split` | `ArchiveCache` | a copy that was replaced while its description was not |
| `disturbed` | `MenuStates` | a save of the slot that ended between the reading of the picture and the deletion |
| `unread` | `LauncherBoot` | a recovery that failed, whose empty store the next save keeps |
| `dropped` | `LauncherLibrary` | a scan that ended between the main loop's look into its queue and its look at the end (`main.cpp:2930`), with a game that is dropped |
| `unnoticed` | `LauncherCovers` | a cover imported although the import was cancelled |
| `unlisted` | `LauncherTransfer` | the files that a directory's failing `readdir` left out of a copy (`main.cpp:3549`); a move then removes them with the source (`main.cpp:3622`) |
| `stale` | `LauncherShares` | the game folders of a removed share that an open folder list still held (`main.cpp:5790`) and may save again |
| `unrestored` | `LauncherForwarder` | an old shortcut whose failed removal did not put its metadata back, and whose record is put back all the same (`forwarder.cpp:1229`) |
| `overtaken` | `SmbFile` | a buffer whose end was sought to and that a direct read went past |

Hazards met while modelling that no property covers (`PROJECT.json` lists those that one does):

* `opensles.c:1061`: clear empties the ring while the recorder still fills the buffer it took; `opensles.c:238`: the host uses player and recorder while the core may destroy them; `opensles.c:743`: shutdown joins a thread that may sit in a callback of the core. What the core does then is closed source.
* `opensles.c:196`: a setter's late "connecting" can stay on the menu while the microphone records.
* `pthr.c:40`, `pthr.c:606`: a capture flag left set by a screen wait that never waited; a caller of once that the shutdown does not wake. Both depend on the core's code.
* `libc_shim.c:1485`: the fastmem table is freed while a faulting thread may still hold the pointer it read.
* `prefs.c:314`, `archive_loader.c:334`, `main.cpp:266`: the losses marked `spoiled`, `split` and `unread`.
* `main.cpp:5818`: the folders' screen keeps the list it read while a disk is plugged and bound anew (left to the composition in section 7).
* `main.cpp:7742`: an index into the library is used after the view may have shrunk; `main.cpp:4425`: a request to close is lost in the capture of a button; `main.cpp:3529`: a backup left by a power cut blocks later replacements.
* `griddb.cpp:88`: a cover left as `.old` comes back with the next download although the user removed it; `main.cpp:6448`: the icon picker empties its directory under a chosen icon.
* `SwitchStorage.cpp:956`: the first list of USB devices may overwrite a newer one.
* `main.c:454`: a motor that runs when the menu opens is not stopped; `main.c:684`: hotkeys latched by the same read as the menu's are dropped; `drastic_config.c:299`: with the aspect locked, turning the console changes the custom rectangles in memory.

## 7. Plan

What is left, in this order.

1. `GlOwnership`: the context's owner against the per-thread flags (`hooks/egl.c`); mutual exclusion as the abstract specification, proved.
2. `SaveSnapshots`: the sixteen slots, with crashes between truncation, writes and close (`libc_shim.c`); abstract specification: the file is the old or the new save.
3. `AliasViews`: ashmem arenas, their views and the remapping that can fail half way; `MmapTable`, the tracked mappings, with their fixed sizes.
4. `Semaphores`: the semaphores of `libc_shim.c` and the timed waits of `pthr.c`, which both turn a deadline into slices.
5. `JitViews`: code regions, redirect slots and cache maintenance.
6. `LauncherLibrary` composed with `LauncherScreens`: the folders' screen open while a disk comes.

## 8. Not modelled

* Drawing, GL objects, shader parsing and text: data without interleaving; tests serve better. Of the menus and the launcher's screens only what they change and save is modelled.
* The ELF loader, import tables and the Java VM: sequential and table driven.
* `exc_entry.s` and register contexts: below the level of these models; the fault step of `Fastmem` stands for the exception path.
* Of the Vulkan renderer: creation of the device, of textures and pipelines, image layouts, a lost device. That `set_custom_shader` waits for the device before it replaces a shader is not checked.
* Of storage: directory listings, path handling, libsmb2 and the file systems of libusbhsfs; its bulk-only transport; the drive manager's list of disks, apart from what the launcher sees of it.
* Of the launcher: decompression, decoding of pictures, ROM headers, the building and encryption of a shortcut's contents, the comparison of versions, search and filter of the library, localization, sounds.
* Vendored code, assets, build tools: not this program's logic.
* Time in seconds, sample values, resampling: abstracted; no property speaks of them.
* In `pthr.c`: failed allocations, timed waits, semaphores, lazily made mutexes (the same first-use race as the conditions'), and the hand-over of the GL context around a wait (planned with `GlOwnership`).
* Memory that the lock-free reader of the fastmem table may still hold when the table itself is unmapped: a lifetime question the model has no heap for (listed as a hazard).
* What the core stores by itself between sessions, and what it does with a buffer or a state it was given: closed source.
