# Verification of the ruan device tree

TLA+ models of the code in this device tree (Xiaomi *ruan*, a LineageOS port):

- the sensor-notifier daemon that runs on the device;
- the scripts that flash a build, turn the list of proprietary files into a
  vendor tree, and take kernel, device trees and modules out of a stock ROM;
- the interfaces of the kernel headers the tree carries: IPA with its messages to
  the modem, KGSL, sound, display, colour formats, bcache.

TLC checks the models on small instances; TLAPS proves the main safety properties
for every value of the constants.

The tree has 917 files, most of them data, headers and binary modules. The
scripts and the daemon are small and have the control; the headers are long, and
what they decide is whether two programs that include them, or two compilers that
read them, understand each other. Both are modelled.

## 1. Inventory

| Component | State | Operations | Talks to |
| --- | --- | --- | --- |
| Sensor notifier object (`sensors/SensorNotifier.cpp`, `notifiers/NonUiNotifier.cpp`, `utils/`) | `mQueue`, `mSensorHandle`, `mActive`, `mThread`; in the thread: three descriptors, `enabled` | constructor, `activate`, `deactivate`, destructors, `notify` | sysfs attributes of the touch driver (poll), `ISensorManager` and `IEventQueue` (HIDL) |
| Sensor notifier daemon (`sensors/main.cpp`, `sensor-notifier.rc`) | the process, one notifier, the touch driver's mode | `main`, `onEvent`, restart by init | sensor service, init, `/dev/xiaomi-touch` |
| Flash script (`flash_bootfirst_from_out.bat`) | partitions of both slots, active slot, `HAS_RECOVERY` | checks, probe, ten flashes, `set_active`, `reboot` | fastboot |
| Blob filter (`extract-files.py`, `filtered_entries`) | `unique_dests`, two winner tables, `final_entries`, `dropped` | three loops | reads `proprietary-files.txt` |
| Vendor tree (`extract-files.py`, the rest of `main`) | prebuilt modules, makefiles, `proprietary/` | `make_prebuilt_modules`, `emit_*`, `stage_from_dump` | consumes the filter's result, reads a dump |
| Prebuilt extraction (`extract-prebuilt-images.sh`) | `prebuilts/`, `dtb/`, `modules/`, a temporary directory | checks, deletes five directories, extracts step by step, EXIT trap | OTA tools, network |
| Stock alignment (`stock_boot_alignment.ps1`) | prebuilts (with `-SyncFromRom`) | parses images, compares, overwrites three files, checks sizes | ROM images, `BoardConfig.mk` |
| Boot preflight (`boot_preflight.ps1`) | none | checks presence and prefix of the prebuilts | prebuilts, fastboot |
| IPA QMI service (`ipa_qmi_service_v01.h`) | messages, their elements, declared lengths | encode, send, decode | the kernel's QMI library, the modem |
| IPA driver (`msm_ipa.h`) | client numbers, client classes, event numbers, ioctl structures | ioctls, connect, events, modem restart | processes, the modem |
| KGSL (`msm_kgsl.h`) | flag words, ioctl structures | ioctls, allocate, import, query | GPU clients |
| Sound, display (`asound.h`, `mi_disp.h`) | ioctl structures | ioctls | audio and display services |
| Colour formats (`mmm_color_fmt.h`) | none | strides, scanlines, sizes of planes and buffers | codecs, camera, display |
| bcache (`bcache.h`) | packed keys, btree nodes, superblock flags | field macros, `bkey_next`, `bkey_copy` | the block layer |
| Extraction wrappers (`extract-files.sh`, `setup-makefiles.*`) | temporary list, vendor directory | filter, clean, extract, regenerate | `extract-files.py`, `extract_utils.sh` |
| Variant properties (`init/init_ruan.cpp`) | system properties | lookup at boot | init |
| Init scripts, USB triggers (`rootdir/`, `configs/usb/`) | properties, services | property triggers | init |
| Makefiles, configs, overlays, sepolicy, other headers, kernel modules | none | none | the build, other programs |

What is hard in it:

- **Concurrency.** The notify thread, its owner, the driver and the service
  interleave freely. `sysfs_notify` may come between any two of the thread's
  `poll`, `lseek`, `read` and HIDL call. `mActive` is a plain `bool` shared by
  two threads; every turn of the loop makes an opaque call, so the build reloads
  it and the model treats it as an atomic flag.
- **Failure.** `open`, `poll`, `read`, the calls of the service and the service
  itself fail. The code logs some failures, ignores others and dies of the rest.
  Every call of fastboot may fail and leave a torn partition; the user repeats
  the script. A dump may lack blobs. The ROM tools fail or are killed at any
  command, after they deleted what was there.
- **Ordering.** The last `disableSensor` against the thread's last
  `enableSensor`; vbmeta after the other images; winners of collisions against
  the order of the list; the order of a Python set.
- **Waiting.** `poll` has no timeout, so `join` may wait for ever.
- **Two readers of one header.** A 32-bit process and the 64-bit kernel compile
  the same structure; a message is bounded by a constant that nobody recomputes; a
  list of clients is kept by hand in six macros; flags above bit 31 pass through
  members of 32 bits; a buffer sized by one function is filled by the sizes of
  eight others.

Correct means, for each modelled component:

- *Notifier*: the sensor is on exactly when some gesture is on, whenever the
  thread sleeps; off after `deactivate`; the process dies only of causes that
  are in the code; only the chosen sensor is touched.
- *Daemon*: it recovers from a crash of the service or of itself, and the touch
  mode follows the sensor.
- *Flash*: slots are switched and success is reported only for a complete chain;
  whenever the script stops, no new vbmeta is over an old image; retries finish.
- *Filter*: nothing is lost without a replacement, nothing is installed twice,
  nothing is shadowed.
- *Vendor tree*: what the filter kept is built, a successful run has staged it,
  and from the right partition.
- *ROM tools*: module directories never hold modules of two ROMs, a reported
  success is complete as far as the script notices failures, temporary directories
  do not pile up, and of what the build reads only the module directories are emptied,
  by an extraction that will fill them again unless it fails.
- *Driver interfaces*: the command, flag, client, event or message that one side
  means is the one the other side reads.
- *Colour formats*: every plane lies inside the allocation, the metadata covers
  the tiles, and the sizes agree with each other and with the comments.
- *bcache*: bit fields in variable-length keys behave as records in a list.

`PROJECT.json` lists the places in the code where these can go wrong
("hazards").

## 2. Modules

| Module | Models | Composes |
| --- | --- | --- |
| `SensorNotifier` | the notifier object, its thread, driver and service | |
| `SensorNotifierDaemon` | `main()`, init, service restarts, `onEvent` | extends `SensorNotifier` |
| `FlashBootFirst` | the flash script and the device | |
| `BlobFilter` | `filtered_entries` | |
| `VendorTree` | `main()` of `extract-files.py` | extends `BlobFilter` |
| `Prebuilts` | the three ROM tools over one tree | |
| `UapiLayout` | how the arm64 and arm compilers lay out structures, and request numbers | |
| `MsmIpa`, `MsmKgsl`, `Asound`, `MiDisp` | structures and ioctls of a header | extend `UapiLayout` |
| `DeviceCall` | an ioctl from a process of either ABI to the driver and back | any table of ioctls |
| `KgslFlags` | the flag words of KGSL | extends `MsmKgsl` |
| `MsmIpaNames`, `IpaDriver` | client numbers, classes and events; pipes, the message queue, a modem restart | `IpaDriver` extends `MsmIpaNames` |
| `IpaQmiTypes`, `IpaQmi` | the messages; one message through encoder, socket and decoder | `IpaQmi` extends `IpaQmiTypes` |
| `DriverInterfaces` | the four uses of the driver headers | `DeviceCall`, `KgslFlags`, `IpaDriver`, `IpaQmi` |
| `ColorFmt`, `FrameBuffer` | the functions of the header; a buffer reused for frames | `FrameBuffer` extends `ColorFmt` |
| `KeyList` | what a btree node promises (abstract) | |
| `Bcache` | the bit fields and keys of `bcache.h` | implements `KeyList` |
| `MC*` | values of the constants for TLC | |
| `*_proofs` | theorems | extend the module they are about; `SensorNotifierDaemon_proofs` also the proofs of the module below it; the theorems of `BlobFilter` are in `VendorTree_proofs`, those of `KgslFlags`, `IpaDriver` and `IpaQmi` in `DriverInterfaces_proofs` |

Definitions marked *mutant* in a comment are plausible mistakes in the
definition that follows them. No specification uses them; they are there so that
each property can be seen to fail when the code is wrong in that way.

### SensorNotifier

`owner` and `pc` are the program counters of the owner's thread and of `notify`.
One action is one step that another thread can observe: `Construct` is the
constructor with the whole of `initializeSensorQueue` (no thread runs yet);
`Activate`; `deactivate` is `Deactivate` (clears `mActive`), `Join` and
`Disable`; destruction is `Destroy` (the `deactivate()` of `~NonUiNotifier`),
`ClearQueue` and `DestroyMembers`. In the thread: `Open`/`OpenFails` for each
path, `Loop` for `while (mActive)`, `Poll`/`PollFails`, `ReadConsume`,
`ReadValue` and `ReadFails` for `readBool`, `Apply` for the HIDL call.

The driver is external. It stores a value and then calls `sysfs_notify`
(`DriverStore`, `DriverNotify`). A descriptor has an event from the time it is
opened, and after each notification, until it is read; a read consumes the event
first and fetches the value afterwards, as kernfs does. The service is external
too: a call returns a `Result` error and changes nothing, or hits a dead process,
and libhidl then aborts the caller, because the code never looks at the
transport status.

An early return of `activate` or `deactivate` changes nothing and is a stuttering
step. `proc` records how the process died: `segv` (null `mQueue`), `terminate`
(assigning to or destroying a joinable thread), `abort` (transport error). The
history variables `initRes`, `openFailed`, `ioErr` and `lostCall` say which
failures happened, and the properties are stated in terms of them.

### SensorNotifierDaemon

`main` calls `getService`, constructs, activates and then sleeps for ever, so
`deactivate` and the destructors never run in the daemon. The service may die and
return; init restarts a process that ended (`class main`, no `oneshot`). `manager`
says whether the process behind the proxy that `getService` returned still runs: a
service that dies and returns before the constructor leaves a dead proxy, and the
unchecked calls of the constructor abort although the service is up. The thread's
`open`, `poll` and `read` fail as in the object (`NotifyFaults`), and the service may answer a
call with an error. The sensor reports its value when it is enabled and when it
changes; `events` holds the oneway `onEvent` calls in flight, in order.

### FlashBootFirst

`FlashOrder` lists the ten flash calls in order. A failed call leaves the
partition as it was or torn and ends the run; between runs the user starts again.
`ProbeTokens` is what the loop over `fastboot getvar` yields. Its command begins with a
quote and has four, and of such a command `cmd /c` removes the first and the last
(`CmdKeepsQuotes`, external): the pipe then lies inside quotes, nothing is read, and
the loop's body does not run. `REC_SIZE_HEX` then has the value it inherited from the
caller's environment (`callerHex`), since nothing clears it. The script is not run
again after it rebooted the device.

### BlobFilter and VendorTree

A destination is a number, its place in the order of the strings, and the
function `Info` holds what the script derives from it: partition, normalized
destination, kind, word size, stem and module name. These derivations are regular
expressions on text; which destinations share a value is what matters to the
program, and a run gives `Info` as a table with the cases the expressions tell
apart. `kept`, `winner`, `final` and `dropped` are the script's own variables;
`final` is a set because the list is sorted afterwards, and `VendorTree` takes
its elements by destination (`IsNext`). `module_name` is not injective, and `Info` may
give two destinations one name: the entry that comes later then overwrites the source
of the earlier one (`SetSource`). Of a module the model keeps the two sources; its stem and
install path are those of the entry that came first.

A dump is the set of places where it has a file. `Own`, `Tried` and `Elsewhere`
are the candidates of `stage_from_dump` in their order: a source that begins with
the name of a partition is looked up only at the root; others also under both of
their names in their own partition and its nested copy, and then in any
partition, which is a choice because the code walks a set. Option
`--write-filtered-list` writes the filter's result and changes nothing else.

### Prebuilts

A file is absent, or has the ROM its bytes come from and their form (raw, still a
boot image, torn); a module directory is a set of names (modules, `modules.load*`,
`modules.blocklist`) with their ROM. The extraction is one step per command that
changes the tree. `set -e` ends it at a failing command (`Fail`), which may leave the
copy torn or a directory with some of its modules (`Interrupted`); `Cleanup` is the EXIT
trap, which does nothing while `mktemp` has not run. `find -exec cp \;` succeeds
whether the copies do or not: in `CopyModules` any of them fail, leaving nothing or a
torn file, and the history variable `lost` says which. The build reads
`prebuilt/` and both module directories (`BoardConfig.mk:136`). The alignment is
its checks, its parsers with the two outcomes "found" and "throws", three writes
and then the size check; the preflight is one step. `Kill` ends a program between
two commands or inside a copy. `PlaceByHand` is the reader of
`prebuilt/README.md`.

### UapiLayout, DeviceCall and the tables of ioctls

A C type is a function from the ABI to size, alignment and *cells* (offset and
width of every scalar, in order of declaration). `Struct`, `Union`, `Packed`, `Arr`
and `Flex` compute it from the members as the compilers do, and `MsmIpa`,
`MsmKgsl`, `Asound` and `MiDisp` list the members of every structure that an ioctl
of the header passes, and the ioctls with direction, magic, number and argument.
In `DeviceCall` a process of either
ABI makes the request number with *its* compiler; the driver (external) enters the
case whose number, made with the kernel's compiler, is equal, reads the argument
with the kernel's layout, and returns. Where a header puts a pointer type instead
of the structure into the number, a 32-bit entry translates it, as the drivers
with such an entry do.

### KgslFlags

A word is the set of its one bits; a client ors constants, passes the word in a
member of 32 or 64 bits, and the driver reads it with the header's masks. Of a
buffer the driver marks the kind of memory and returns the word to whoever asks.

### MsmIpaNames and IpaDriver

`ipa_client_type` is the enumeration with its numbers and the one further name that a
`#define` gives a client (`WLAN2_PROD`, `msm_ipa.h:526`), and each `IPA_CLIENT_IS_`
macro is the set of numbers it accepts. The driver keeps one pipe per number; before
the modem stops it silences what the ZIP and non-ZIP lists name, afterwards it
closes what `IS_Q6_PROD` and `IS_Q6_CONS` name. Events are 27 enumerations, each
starting at the MAX of the one before; a message carries the number in one byte.

### IpaQmiTypes and IpaQmi

A message is a sequence of elements with width, bound and whether they are
optional, and its declared `MAX_MSG_LEN`. `EncodeElement` and `SkipElement` are the
encoder's loop over the elements, with the sender's choice of what to pass; the
encoder refuses what exceeds the declared length. `Overrun` is the receiver's
fixed buffer, `Decode` picks a message by kind and identifier.

### DriverInterfaces

A specification with one instance of each of the four modules above. They share the
headers and no state, so a behaviour is about one `partner`, chosen in `Init`: an
interleaving of two would multiply the states and show nothing new.

### ColorFmt and FrameBuffer

`ColorFmt` has the functions of the header under their names, in unbounded numbers:
the sizes of the run, and of any frame a 32-bit `unsigned int` can describe without
overflow, are the same. `FrameBuffer` allocates a buffer, then lays out frames of
that or a smaller size plane by plane, progressive or in two fields. The `Doc_`
operators are the layouts as the comments of the header draw them.

### Bcache and KeyList

A 64-bit word is the set of its one bits; `Get` and `Put` are the getters and setters
that `BITMASK`, `KEY_FIELD` and `PTR_FIELD` generate. A key has two words and as
many pointers as its own bits 60 to 62 say. Building, editing, inserting, copying
and walking keys are actions. `KeyList` is the same without bits: records in a list.
The refinement mapping reads every field back through the getters, at the places
where keys were inserted (history variable `starts`).

## 3. What TLC checks

| Run | Instance | Shows |
| --- | --- | --- |
| `notifier_safety` | 3 attributes, contents `0` and `1`, lists with no, several and non-wake-up sensors, all faults; 2.3 million states | the safety properties of the object |
| `notifier_live` | 3 attributes, failing `poll`; 53 thousand states | convergence, sleeping, joining |
| `daemon` | 2 attributes, a service that dies and returns, failing `open`, `poll`, `read` and sensor calls, two readings, three events in flight; 326 thousand states | crash causes, recovery, touch mode |
| `flash` | boot and recovery image possibly missing, any `REC_SIZE_HEX` of the caller, 3 failures; 49 thousand states | commit only complete, vbmeta last, retries finish |
| `flash_recovery` | the same | **violation**: recovery not flashed on a device that has it |
| `blob_filter` | all lists of up to 4 entries over 8 destinations; 62 thousand states | nothing lost, unique, not shadowed |
| `blob_duplicates` | the same | **violation**: a dropped "duplicate" of another word size |
| `vendor_tree` | all lists of 1 or 3 out of 10 entries, two of them with one module name and word size, 4 dumps, all options; 518 thousand states | kept is built or overwritten by its namesake, success means staged, own partition first |
| `prebuilts` | 2 ROMs with overlapping modules, one with another partition table, failing copies, 1 kill; 1.8 million states | modules of one ROM, success is whole, temporaries bounded, build inputs kept but for the wipes |
| `driver_interfaces` | every ioctl of four headers on both ABIs, every pair of items of a flag word, every client and event, every message; 94 thousand states | both sides of the headers agree, with the exceptions named below |
| `frame_buffer` | all formats, 6 widths and 6 heights; 23 thousand states | planes inside, sizes agree, metadata covers the tiles, layouts as documented |
| `bcache` | 5 words in a node, 2 edits, values that overfill the fields; 122 thousand states | `Bcache` implements `KeyList` |

**Bounds.** Three attributes are what the code has; the daemon's run uses two
because its state space is a product, and one attribute before and one after the
other already make the short-circuit of `enabled || readBool(...)` matter. Empty
contents read as off, like `0`, and are left to the proofs. Three events in flight
(`MaxEvents`) are the least for which order matters: a changing sensor leaves one place
free so that the report of an enabled sensor always fits, and two readings
that differ are queued in the other two. The daemon's run has no failing
initialization (`"init"`) only to save time; with it the same properties hold over
672 thousand states. Three failures (`MaxFailures`) allow a torn partition in a first
run, another in a second and a failure of `set_active` or `reboot` after that;
the proofs need no bound. Four entries allow a winner, its loser, a tie and a
repeated destination in any order. The dumps hold everything, nothing,
additional copies elsewhere, and only displaced files. Two ROMs are what mixing needs;
one kill (`MaxKills`) and any number of failures may hit any command of any of the
unbounded number of runs; the proofs need neither bound. An ioctl is one call, and all are tried. Two items
(`MaxItems`) of a flag word show every overlap of two masks. One open pipe
(`MaxOpen`) and a second client that asks for one show every clash of two numbers,
and the macros are tested client by client; one unread event (`MaxQueue`) is enough
because each is read by itself. A message is sent full or empty but for
`MaxDeviations` = 3 elements: the full one and those
near it meet the declared length and the receive buffer, and every element is left out, passed
alone and passed next to any other; the proofs need none of these four bounds. The widths and heights are
one macroblock, the usual ones, and both sides of the interlace limits. Five words
(`NodeWords`) hold two keys, one with a pointer; two edits (`MaxEdits`) set one
field next to another, before or after the key was copied.

**Deadlock.** TLC checks for it in all runs but those of the flash script, the filter and the
vendor tree: these scripts end, and so do their runs.

**Fairness.** Weak fairness of each thread: the kernel schedules a runnable
thread. Weak fairness of `DriverNotify`: a driver that stored a value reaches its
`sysfs_notify`. Strong fairness of `Poll` against `PollFails`: Linux reports
`EINTR` only when no event is pending, so a `poll` with pending events does not
fail for ever. In the daemon the same holds of its thread and of `NotifyPoll`,
init restarts a dead process and binder delivers events, but the service need not
come back, so the properties assume it where they need it. In the flash script the
user repeats failed runs and at most `MaxFailures` calls fail. Nobody has to change
a gesture or to call a method.

**What the exceptions in the properties say.** `NoLostWakeup` excepts an I/O error
in the last pass, an error `Result` and a dead queue: the code logs these and does
not retry. `SleepsWhenOff` is
about attributes that are all off: with one set, the short-circuit leaves the
later descriptors unread, each with an event pending since its `open`, and the
thread spins through `poll` and `enableSensor` instead of sleeping.
`JoinCompletesUnlessAsleep` excepts exactly the thread that sleeps with
no event pending: there `deactivate` does hang. `DaemonConverges` excepts the
thread that sleeps on a dead queue (shed at the next gesture change, which is
`DeadQueueShed`), the thread that ended after a failed `open` while `main`
sleeps on, a failed read in the last pass, an error `Result` of the last call, and
an initialization that the service refused: nothing retries these.
`EventuallyRebooted` excepts a device without the recovery partition when the caller's
`REC_SIZE_HEX` has a size. `KeptIsBuilt` excepts manifests on `vendor_dlkm`, for which
`emit_vendor_mk` has no variable, and the libraries and binaries that a later
destination of the same module name and word size overwrites; the 3818 entries of
`proprietary-files.txt` have no such pair. `SuccessMeansWhole` excepts the modules
whose own copy failed: `find` drops the status of `cp`
(`extract-prebuilt-images.sh:104-113`), so the script prints "Done." and lists directories
in which they are missing or torn. `BuildInputsKept` excepts the two wipes of
`modules/` (lines 70-72): after them, a failure of any later command leaves the build
without modules. In the driver interfaces the exceptions are
what the headers get wrong, or get right only by convention:

- `ServedAsAsked`: `IPA_IOC_NAT_DMA` is another name of `IPA_IOC_TABLE_DMA_CMD`;
  `IOCTL_KGSL_CFF_USER_EVENT` and `..._TIMESTAMP_EVENT_OLD` have one number. The
  commands of `OwnCompat` need a structure of their own for 32-bit callers though
  the number does not show it; one is the 64-bit `SYNC_PTR`, whose `avail_min` has its
  padding on the other side of what a little-endian reader expects (`asound.h:581`, compare 497).
- `ClientsByNumber`: `APPS_WAN_PROD` and `APPS_LAN_WAN_PROD`, and `A5_WLAN_AMPDU_PROD` and
  `WLAN2_PROD`, are two names of one client each.
- `ReadsAsAsked`: flags above bit 31 are lost in the older 32-bit structures.
- `ModemSweptOnRestart`: `IPA_CLIENT_IS_Q6_PROD` (`msm_ipa.h:608`) does not have
  `IPA_CLIENT_Q6_DL_NLO_ETH_DATA_PROD`, whose pipe stays open.
- `ArrivesAsPassed`: the declared length of `INDICATION_REGISTER_REQ` is 16
  (`ipa_qmi_service_v01.h:2985`), a full one needs 24 bytes, so a client that registers
  for more than four indications is refused. The receive buffer of 22685 bytes (line 3038), "the largest
  MAX_MSG_LEN we have" (line 3033), is smaller than filter requests with the lists
  added last.
- `DeclaredLengthIsExact`: `MOVE_NAT_REQ` declares one byte too many.
- `PlanesInside`: a buffer beyond the interlace limits is sized for progressive
  frames and may be too small for two fields of a smaller frame.
- `LayoutAsDocumentedBut10Bit`: `NV12_BPP10_UBWC` aligns to 16 lines
  (`mmm_color_fmt.h:971`), its comment says 32 (line 435).

**Paths.** The programs around the prebuilts do not agree where they are, and no
property says they do. The build reads `prebuilt/kernel`, `prebuilt/dtb.img` and
`prebuilt/dtbo.img` (`BoardConfig.mk:97`). The extraction writes `prebuilts/kernel`
(`extract-prebuilt-images.sh:91`) and `dtb/`; `-SyncFromRom` writes `prebuilt/kernel`
and `dtb/` (`stock_boot_alignment.ps1:142`); the preflight looks where the latter
writes (`boot_preflight.ps1:27`), while `README.md:131` names `prebuilt/`. The model has
these paths, and reaches trees in which a successful `-SyncFromRom` leaves the build
with the kernel of one ROM and the device trees of another.

**Findings.** (1) The recovery probe of the flash script (`flash_bootfirst_from_out.bat:49`)
reads nothing, because `cmd /c` strips the outer quotes of its command and the pipe
ends up inside the inner ones. `HAS_RECOVERY` stays 0, and a device that has the
partition gets the boot chain without its recovery image. With the quotes repaired
the probe would still not see a size: the second token of
`partition-size:recovery: 0x0` is `recovery`. (2)
The blob filter reports a 32-bit library as a duplicate of a 64-bit one.

## 4. What is proved

All proofs are checked by TLAPS without further assumptions than the named
`ASSUME`s of the modules:

- `SensorNotifier`: `NumPaths` is a positive number, catalogues are sequences of
  sensors with handles in `Nat`, faults are of the known kinds;
- `BlobFilter`: `Info` is a function of the right type, lists are sequences of entries;
- `VendorTree`: dumps are sets of places (`TreeAssumption`); nothing is assumed of the
  names `module_name` gives;
- `FlashBootFirst`: missing images are images, `MaxFailures` is a number;
- `Prebuilts`: the first ROM is one of the ROMs, each has a set of names for each module
  directory, `MaxKills` is a number;
- `FrameBuffer`: widths and heights are positive; one theorem, on the documented
  layouts, also assumes even heights (below);
- `DriverInterfaces`: `MaxItems`, `MaxOpen`, `MaxQueue` and `MaxDeviations` are numbers;
- `Bcache`: values are 64-bit words, `NodeWords` and `MaxEdits` are numbers.

**SensorNotifier_proofs.** `TypeCorrect`, `NoLostWakeupHolds`,
`DeactivatedMeansDisabledHolds`, `TerminateOnlyAfterOpenFailureHolds`,
`SegvOnlyIfInitFailedHolds`, `OnlyChosenSensorEnabledHolds`,
for any number of attributes, any sensor lists and any set of faults. The
inductive invariant `IInv` has three parts besides the properties.

- `QueueInv`: only `mSensorHandle` is ever enabled, only on a live queue, and the
  queue is missing only after a failed initialization or during destruction.
- `ThreadInv` ties `pc` to `mActive`, `joinable` and `owner`: an active object has
  a running thread, and an inactive idle one has none, or one that ended after a
  failed open.
- `PassInv` is the argument against lost wake-ups. During a pass every attribute
  already read as off *is* off, or a change of it is still on its way
  (`Stale`: stored and not notified, or notified and not consumed). At `Apply`
  that covers all attributes; while the thread waits, the enabled state agrees
  with the attributes up to such changes. When nothing is pending, the agreement
  is exact. Consuming the event before fetching the value is what makes this
  inductive.

**SensorNotifierDaemon_proofs.** The action property `DaemonCrashCausesHolds`, and
`DaemonNoLostWakeup` and `DaemonOnlyChosenSensor`: what was proved of the object holds of
the object inside the daemon, through any number of deaths of the process and of the
service. `DaemonInv` is `IInv` of the notifier while there is a process, and

- `MainInv`: where `main` is tells where its notifier is. There is no thread before
  `activate`, no second `activate` and no destructor, so `std::terminate` is out of reach;
- `ManagerInv`: while `manager` is good, the service it came from is up and so is the queue made
  through it. An abort therefore means that this process of the service died, whether or not
  another has taken its place;
- `NoOrphanQueue`: a queue exists only while both sides run. Without it a restarted
  process could begin with a sensor enabled by its predecessor, and `IInv` would not
  hold again after the restart.

Most steps of the daemon are steps of the notifier with `main` unchanged, and keep
`IInv` by the lemma of the object. New are a dying or returning service, an exit, a
restart, and the steps of the sensor.

**VendorTree_proofs, the filter.** `FilterTypeCorrect`, `NothingLostHolds`, `DestinationsUniqueHolds`,
`NoShadowingHolds`, for all lists. `KeptInv` accounts for the entries read so far,
`WinnerInv` says that a winner has its key and the least priority of the entries
passed, `SelectInv` that the third loop put each entry on one side. The lemma
`LoserHasWinner` closes the argument: the winner of a key is its own winner, so
it is never dropped.

**VendorTree_proofs, the tree.** `KeptIsBuiltHolds`, `SuccessMeansStagedHolds` and
`OwnPartitionFirstHolds`, for every list, dump and choice of options. `TreeInv` keeps
`FilterInv` while the filter runs and then only what the later loops need of it
(`ListInv`: no two kept entries have one normalized destination). `ModulesInv` says that
every entry passed is where it belongs or overwritten (`Placed`), and that no entry passed
comes after one that is still to do. So when an entry sets a half of a module that was
set before, it is later in the order of destinations, strictly because no two kept
entries have one destination, and it overwrites all its namesakes at once; a half of another word size or
name is left alone (`HalfKept`). `StageInv` says that every entry passed is optional, staged or
reported missing, and `OwnPartitionFirst` is an invariant of each copy: it is
stated per source, because two entries may share one.

**FlashBootFirst_proofs.** `FlashTypeCorrect`, `CommitsOnlyCompleteHolds` and `VbmetaLastHolds`, for any
number of failures and runs. `WrittenSoFar` says that what this run has flashed is
new; `RunInv` that a successful run is the last. No call ever makes a partition
old again, so earlier runs cannot break `VbmetaNeverOverOldImages`.

**FrameBuffer_proofs.** For every format and all sizes of buffers and frames:

- `FrameTypeCorrect`, and `PlanesAlwaysInside`. Strides and scanlines are monotone, and
  so are their products rounded to pages (`FrameFits`); two fields of half the height need
  at least as much as one progressive frame (`TwoFields`, `UbwcTwoFields`), so the larger
  of the two that `MMM_COLOR_FMT_BUFFER_SIZE` takes covers both. The invariant says that
  the planes placed so far are the first ones of the frame and lie one behind the other;
  the last end is then the sum of the sizes.
- `UsedAlwaysExtent`: that sum, rounded to a page, is what
  `MMM_COLOR_FMT_BUFFER_SIZE_USED` computes. The invariant is stronger here than for the
  previous theorem: a frame in fields is within the interlace limits itself, so
  the function takes the same branch as the layout.
- `MetaAlwaysCovers`: the padded plane is a multiple of what one byte of metadata
  stands for, and rounding up first and dividing afterwards loses nothing.
- `LayoutAlwaysAsDocumented`, for all widths and all *even* heights. Of an odd height the
  comments take `Height/2`, read as C rounded down, and the code `(h+1)/2`; they agree after
  alignment for most odd heights and not for all.

**DriverInterfaces_proofs.** `ClientsByNumberHolds`, `ReadAsPostedHolds`, `ReadsAsAskedHolds`,
`ArrivesAsPassedHolds`, `DeclaredLengthIsExactHolds` and the action property
`ModemSweptHolds`: for any number of open pipes and unread messages, any set of items in a
flag word, and any choice of the elements of a message. Each has two layers.

*Tables.* Facts about the names of the headers, computed name by name: producers have even
numbers and consumers odd ones, and no two names share one but the two pairs of section 3,
each two names of one client (`ClientNumbers`); each of the
27 event enumerations begins where the one before it ends, so the events are numbered
from 0 to 59 without a gap and fit in one byte (`EnumsPlaced`, `PostedNumber`); the masks
of one flag word do not overlap and every value lies under its own (`MemoryWord`,
`ContextWord`, `CmdbatchWord`); the elements of each message add up to its `MAX_MSG_LEN`,
with the exceptions of section 3 (`BodiesFit`), and no two messages have the same kind and
identifier (`KeysApart`).

*Steps.* `PartSteps`: a step of `DriverInterfaces` is a step of one partner, and leaves the
others alone. Then one inductive invariant for each:

- `IpaInv`. `PipesInv`: the pipes are exactly the numbers of the clients that were served, and no
  two of these share a number; a client is therefore never refused because of
  another one's pipe. `SilencedInv`: while the modem stops, its open pipes are paused. It is what
  makes the sweep of `IPA_CLIENT_IS_Q6_CONS` and `_PROD` reach only silent pipes, and it is
  kept because no modem client opens a pipe in between. `QueueInv`: every unread message
  carries the number of its own event.
- `GpuInv`: each item's bits in the word are the ones asked for (`Kept`), or a 32-bit member
  has dropped all of them (`Dropped`), never a part. Without disjoint masks the step that
  ors one item into the word would disturb another's. The driver's mark of user memory is
  under its own mask, outside all others.
- `QmiInv`. `EncoderInv` says what the encoder has done: the wire holds exactly what was passed,
  all of it behind the encoder, and its length is at most what the elements behind it can
  take (`UpTo`), exactly that when all of them are full. The bound is kept in two versions,
  with all elements and without the late lists (`Late`), because the receive buffer
  is large enough only for the second (`ReceiveBuffer`). The registration, whose
  declared maximum is four elements, is counted apart: 4 bytes per element, so it
  is refused exactly from the fifth on.

**Prebuilts_proofs.** `PrebuiltsTypeCorrect`, `ModulesNeverMixed`, `SuccessIsWhole`,
`TempsAlwaysBounded` and the action property `BuildInputsAlwaysKept`, for any ROMs, any
number of failures, kills and runs. The properties are not inductive: `OneRom` adds that a module
directory is empty from its wipe to its copies, and that the modules copied are of the ROM at hand;
`Written`, which files the running program has finished and which directories it has
filled (`Filled`); `Temps`, that the temporary directory exists
exactly between `mktemp` and the end.

**Bcache_proofs.** `KeysAsRecordsHolds`: `Bcache` implements `KeyList`, for every size of
node, every set of 64-bit values and any number of edits. In three layers:

- *Fields.* The getter after the setter of the same field returns the value cut to its
  width (`GetPutSame`), after that of a disjoint field what was there (`GetPutOther`), and
  the fields of each word are disjoint (`KeyFieldsApart`, `PtrFieldsApart`,
  `SbFieldsApart`). `KEY` and `MAKE_PTR`, which shift without cutting, agree with the
  setters as long as their arguments fit, which is their guard.
- *Places.* `NodeInductive`: each key begins where the one before it ends, by
  the length in its own first word, and the cursor is at a key (`ChainInv`, `CursorInv`).
  `KeysAsRecords` is not provable without it: an edit at the cursor could reach
  into another key. The number of pointers is
  set in the padded buffer, before the key is inserted; setting it on a key inside a
  node would shift the keys behind it, and is not among the actions.
- *Steps.* One lemma per action shows that, read back through the getters, it is the
  step of `KeyList` or a stutter.

**Only model-checked.**

- All liveness properties: the prover has neither fairness nor `ENABLED`.
- `ServedAsAsked`. `DeviceCall` has no bound: the run tries every ioctl of the four headers
  with both ABIs and is complete as it stands. The sizes of structures are folds over
  their members, and what a fold computes needs induction over the sequence.

## 5. Plan

Done: the modules of section 2, and the theorems of section 4. Next, in this order:

1. An abstract specification of the notifier ("the sensor is on when a gesture is,
   unless a change is on its way") with `SensorNotifier` as its implementation; its
   safety part is already in `PassInv`.
2. `sde_drm.h` and `msm_audio_calibration.h` as further tables of `DeviceCall`.

## 6. What is not modelled

- `init/init_ruan.cpp` does not compile as it stands (two versions of
  `vendor_load_properties` are interleaved, `GetVariant` has lost its head).
- `extract-files.sh` and `setup-makefiles.sh`: their state changes are in functions of
  `extract_utils.sh`, which is not in the repository. What `--section` does with a list
  that lost its section headers is decided there.
- `rootdir/` and `configs/usb/`: triggers and services of the stock boot; what they
  set is read by drivers and programs outside the repository.
- The text of makefiles and messages, and the regular expressions that classify
  paths; they enter as data.
- The header arithmetic of `stock_boot_alignment.ps1`: a payload is found or an
  exception is thrown.
- Descriptors and the memory of `pollfds`, which `notify` leaks per activation.
- The failed open of `/dev/xiaomi-touch`, after which events change nothing.
- In the modelled headers: enumerations that only name values of a field, tables of
  names, structures that no ioctl, message or function of the header uses, the
  on-disk journal, prio and uuid records of bcache.
- The other headers below `include/`: constants and structures without functions,
  or ioctl tables not yet done.
- Build configuration, properties, overlays, policies, binary modules: no behaviour
  of their own.
