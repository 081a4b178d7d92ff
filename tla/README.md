# Verification of tuntap4j

tuntap4j gives Java programs TUN and TAP network devices. It is one Java class
hierarchy (`NetworkDevice`, `TunDevice`, `TapDevice`) over three JNI libraries,
one per operating system, with the same functions. This directory holds TLA+
models of the library, the TLC configurations that check them on small
instances, and TLAPS proofs for every value of the constants.

Paths are relative to the repository (`src/`): "linux.c" is
`native/linux/one_papachi_tuntap4j_NetworkDevice.c`, likewise "macos.c" and
"windows.c"; "NetworkDevice.java" is `src/main/java/one/papachi/tuntap4j/NetworkDevice.java`.

## Inventory

| Component | State | Operations | Where |
|---|---|---|---|
| Device lifecycle | field `deviceHandle`; the process's descriptor table; the interface a tun file is attached to | `open`, `close`, `isOpen`, and every use of the handle | NetworkDevice.java 30-55, linux.c 31-56, 128-132, macos.c 97-157, 229-234, windows.c 74-97, 169-173 |
| utun list (macOS) | linked list from descriptor to interface name, no lock | `add`, `delete`, `getDeviceName` | macos.c 23-80 |
| Data path | the `ByteBuffer` (position, limit, array or native memory), JNI's copy of the array | `read`, `write` | linux.c 58-126, macos.c 159-227, windows.c 99-167 |
| Interface configuration | settings of the interface in the kernel; a `struct ifreq` per call (Windows: registry, IP helper tables) | `setStatus`, `get/setMTU`, `get/setIPAddress`, `get/setMACAddress` | linux.c 134-304, macos.c 236-426, windows.c 175-379 |
| Device listing | none of its own; probes devices | `getAvailableTunDevices`, `getAvailableTapDevices` | linux.c 310-386, macos.c 429-482, windows.c 381-433 |
| Library extraction | one file in `java.io.tmpdir` shared by all JVMs | the static initializer | NetworkDevice.java 12-20 |
| Platform choice | none | `Utils.getOperatingSystemFamily` | Utils.java 5-29 |

**How they interact.** A Java method reads the field `deviceHandle` and passes it
with `deviceName` to a static native method; `open()` stores what the native
method returns, unless an exception is pending. The lifecycle and the data path
find their file by descriptor number. The configuration calls on Linux ignore
the number and find their interface by name, on macOS they translate the number
to a name through the utun list. Everything is reachable from several threads at
once and nothing is synchronized. The descriptor table is shared with the rest
of the JVM, the interfaces with the rest of the machine, the extracted library
with all other JVMs.

**What is hard.** Numbers are reused, and `close()` keeps the old number in
`deviceHandle`. `read()` blocks between taking the handle and using the buffer,
and a file lives on while a system call holds it. Configuration is made of
several ioctls, any of which may fail. Heap buffers go through an array that the
JVM copies or pins. The library file is truncated and rewritten under other
processes, and errors of the copy are swallowed.

**What makes each component correct.**

* Lifecycle: error paths give back what they took; a descriptor of an interface
  is never lost while the library could still close it; a device that is open
  stays open until its own `close()`; a call acts on the device it was made on.
* Data path: a packet goes exactly where the client says, the bytes sent are
  exactly the client's, the position tells how many, no other byte changes.
* Configuration: a call is about the device's own interface, a setter that
  returns took effect, a getter answers one state, other settings survive.
* Listing: reports exactly the devices that are free, disturbs none.
* Extraction: a JVM loads the library of its own jar, complete.

`PROJECT.json` lists the hazards line by line with the property aimed at each.

## Modules

| Module | Models |
|---|---|
| `DescriptorTable` | the kernel side: descriptor numbers, open files, attached interfaces, system calls in progress (external: modelled from how the libraries use it) |
| `DeviceContract` | abstract specification of `open()` and `close()` |
| `LinuxLifecycle` | the lifecycle on Linux over `DescriptorTable`; implements `DeviceContract` |
| `MacLifecycle` | open, close and the list of utun devices on macOS over `DescriptorTable`; implements `DeviceContract` |
| `ByteBufferTransfer` | the data path of all three libraries |
| `InterfaceConfig` | configuration on Linux and macOS |
| `WindowsDevice` | handles, registry and IP helper: lifecycle and configuration on Windows; implements `DeviceContract` |
| `DeviceListing` | the listing functions of all three libraries |
| `LibraryExtraction` | the static initializer |
| `MC...` | the instances TLC checks |
| `...Proofs` | theorems about the module of that name; `DescriptorTableProofs` holds lemmas for the two lifecycles over the descriptor table |

### Lifecycle: `LinuxLifecycle`

`handle[o]` is the field `deviceHandle`, `fdTable`, `file` and `ref` the kernel,
`pc`, `obj`, `fd` the frame of a thread in a call. Each field access and each
system call is a step:

| Call | Steps |
|---|---|
| `open()` | `OpenClone` (open of /dev/net/tun), `SetIff` or `SetIffFails` (TUNSETIFF), then `UndoOpen` (close and throw) or `Assign` (the Java assignment) |
| `close()` | `CallClose` (reads the field), `DoClose` (close) |
| `read()` | `CallRead`, `DoRead` (enters the kernel or throws), `ReadReturns` |
| `write()` | `CallWrite`, `DoWrite` |
| `isOpen()` | `CallIsOpen`, `DoIsOpen` |

`JvmOpen` and `JvmClose` are descriptors the rest of the JVM uses; they make the
reuse of numbers visible. They close only numbers they got themselves.

What a client may do is a parameter: `Discipline` holds what all clients promise,
nothing (`{}`), "serial" (open and close of one object do not overlap),
"closeOnce" (one close per open); `Quiet` holds the objects whose clients also
keep every call out of open and close of the object and call nothing but open
after close. Each property is checked under the weakest promises it holds for;
that is the answer to "what must a client of this library promise".

The variable `held` is the client's view: opened and not closed since. It is
assigned with the steps of the call and read by no action of the code, only by
the guards of the disciplined clients.

`DeviceContract` knows the devices that are open, opening and closing. Under the
refinement mapping a device is open when its handle, or the number an `open()`
is about to store, is a descriptor that its own `open()` made and attached.

### Lifecycle on macOS: `MacLifecycle`

The same kernel, handles and contract, with the calls of macos.c. `list`, `node`
and `memory` are the linked list of utun devices and the heap its nodes come from,
`frame[t]` a thread's native frame: its step, object, number, and the pointers
`item`, `prev` and `device` of the C functions.

| Call | Steps |
|---|---|
| `open()` of a TAP | `CallOpen`, `OpenTap` or `OpenFails`, `Assign` |
| `open()` of a TUN | `CallOpen`, `OpenSocket`, `Connect` (CTLIOCGINFO and connect), `GetName` (getsockopt, malloc), `Add` and `AddWalk` (the list), `Assign`; `Fill` at any time in between; `BuildFails` and `Undo` on the error paths |
| `close()` | `CallClose`, `Delete`, `DelWalk`, `Unlink`, `Free` (the list), `DoClose` |
| a configuration call | `CallLookup`, `Lookup`, `LookWalk` (the list), `CopyName`; the ioctls are in `InterfaceConfig` |

CTLIOCGINFO changes nothing, so its success is no step; that it may fail is in
`BuildFails`. The library is built for x86_64 and arm64 (macos/CMakeLists.txt), and
nothing orders the stores to a new node before the store that links it: `Fill`
may come after. Memory that was freed or not filled has no contents worth telling
apart; `FollowsFilledNodes` shows that nobody reads it.

What the library needs from its clients here is more than on Linux, and the run
fails without any one of it: "serial" and "closeOnce" as above; "oneWriter", the
calls that change the list do not overlap, even those of different devices;
"lookups", a configuration call does not overlap a `close()`, and overlaps an
`open()` only when it is on an open TUN, whose entry comes before the new one.

A device counts as open from `getsockopt` on: until then `open()` may still give
its number back, even a number that a stale `deviceHandle` happens to hold.
`NameOf` is the interface a constructor's name stands for (`atoi` of the name's end).

### Data path: `ByteBufferTransfer`

One call is `Begin` (position and remaining, as the client set them), `Access`
(direct address, or the array and JNI's copy of it), `SystemCall`, `SetPosition`,
`Release` and `Finish`, where the client takes the packet and clears the buffer.
`mem` is the content of the memory; a byte is known by its origin, so "the right
byte in the right cell" is an equation. The libraries differ in one operator
each, where a transfer starts: `HeapAddress` is alike everywhere, the direct
branch on Linux and macOS starts at the buffer, on Windows at the buffer plus the
position. The variables `platform` and `jvmCopies` never change after `Init`: the
library in use, and what `GetByteArrayElements` does; a JVM may do either. `Apart`
keeps clients from using one buffer, or the same bytes, from two threads, and,
when arrays are copied, from using two parts of one array at a time: the
copy-back of the whole array makes that a race (linux.c 88, 123).

### Configuration: `InterfaceConfig`

A call begins with the name it will ask about (`Target`) in `ifr`, and then makes
its ioctls one by one, each of which may fail (`Fail`). `NameOf[o]` is the name the
device was given and `bound[o]` the interface that `open()` really got. They are two
things: Linux cuts a name to IFNAMSIZ (`Cut`, in `open()` and in each call), and
TUNSETIFF may complete a pattern (`Grants`); macOS makes a unit of the end of a TUN's
name (`Connects`: `mytun5` is some utun).

On macOS the name comes from the list of utun devices, searched by number
(`MacTarget`). `handle[o]` is `deviceHandle`, which `open()` sets and `close()` leaves;
`list[n]` is the entry for number n, made by the `open()` of a TUN and deleted by
`close()`; `open()` may get any number that no open device has, one that a closed
device still keeps included. A call on such a device is about the open TUN that has got its
number. `SettingsAreIsolated` says that this is the only way in which a call on one device
changes another: `misled[t]`, which no action reads, holds the open TUNs that
had the number of the closed device of t's call when it began. What clients call on closed
devices is a constant (`ClosedCalls`): in the run everything on Linux; on macOS the
methods of one ioctl, since those of two on a closed device are a second client of
the TUN that they reach, and clients keep such calls on one device apart.

`platform` is fixed in `Init`. `SerialCalls` says which methods
clients keep from overlapping on one object: on Linux those of two ioctls, on
macOS all, since there the name depends on whether the device is open. Addresses and
masks are model values; a string `inet_pton` rejects leaves the union as it was
(`Parse`). `open()` and `close()` are one step each here.

`buffer` is what `inet_ntoa` returns: one for each thread on Linux, one for all on
macOS (`BufferOf`). `getIPAddress()` fills it with an ioctl's answer (`GetAddr`,
`GetMask`) and copies it in a later step (`CopyAddr`, `CopyMask`). `AloneCalls`
holds the methods that clients keep apart even on different objects: on macOS
`getIPAddress()`, and `GetIPIsWhole` fails without that promise.

### Windows: `WindowsDevice`

An object of class `TapDevice` has a handle and a name, the GUID of an adapter, and the
calls use one or the other:

| Call | Steps |
|---|---|
| `open()` | `CallOpen`, `CreateFile` or `CreateFails`, `Assign` |
| `close()` | `CallClose`, `CloseHandle` |
| `isOpen()`, `read()`, `write()`, `setStatus()`, `getMACAddress()` | `CallUse`, `Control` or `ControlFails`, `ControlReturns`: one system call on the handle, which holds the file meanwhile |
| `getMTU()` | `GetMTU`, `CountKeys`, then for each index `EnumKey`, `Compare` or `Unreadable`, `ReadValue`; `EnumEnds`, `Leave` |
| `setMTU()` | `SetMTU`, `CountKeys` or `Overflow`, `EnumKey`, `Compare` or `Unreadable`, `WriteValue` or `WriteFails`; `EnumEnds`, `Leave` |
| `getIPAddress()` | `GetIPAddress`, `Resolve`, `GetAdaptersInfo`, `Leave` |
| `setIPAddress()` | `SetIPAddress`, `Resolve`, `GetAdaptersInfo`, `DeleteIPAddress` for each address, `AddIPAddress`, `Leave` |

`reg` is the class key with a numbered subkey per adapter, `mtu` and `addrs` the
settings of the adapters. Some adapters are there at the start; `Install` and
`Uninstall` change all three at any time, in the middle of a call about the adapter, too.
Only an adapter with an open file stays. What the model keeps of the code, and
what it shows:

* A walk counts the keys once and then asks by index; the result of
  `RegEnumKey` is ignored (windows.c 282, 331), so a name that does not come is the name
  of the key before, and before the first one whatever the buffer holds (`LastName`).
  A key that goes shifts the ones after it, so `getMTU()` may answer 1500 and `setMTU()`
  may do nothing, silently, for an adapter that is there. `disturbed` holds the calls
  to whose walk one of this happened.
* Between the comparison of a key's GUID and the use of the key its adapter may go and
  another one get the key (windows.c 288 to 293, 337 to 341): then the call reads or
  writes the MTU of that one. `moved` holds the calls during which their own adapter
  came or went, and those of an adapter that was written to in this way. Nothing is
  promised to these calls; to all others `GetMTUIsOwn` and `SetMTUTakesEffect`
  promise that the MTU is their own adapter's or the adapter is passed over, and
  `SettingsAreIsolated` that no other adapter is changed.
* `RegSetValueEx` may refuse the value, and `setMTU()` returns all the same (windows.c
  342). `refused` holds those calls: `SetMTUTakesEffect` says that, walks
  that pass the adapter over aside, it is the only way to return without effect.
* `setMTU()` goes on after an exception, and may throw although it has set the
  value: the class key often has subkeys a process cannot read (`Foreign`, and they come
  last), and the query of any key may fail. To throw a second time is an error of which
  JNI leaves the outcome open; in the model the process dies or goes on.
* A number of more than four characters overflows `_mtu`; the C runtime's
  invalid parameter handler then ends the process (`Overflow`, `Die`).
* `getIfIndex()` does not look whether the adapter exists, and returns an
  uninitialised index if not: any adapter's or none. `strayed` records that
  this has happened, and the properties about addresses hold until then.
* `DeleteIPAddress` refuses an address from elsewhere (`Given`, DHCP), and nobody looks;
  an address added after the snapshot survives, so two calls on one adapter must not
  overlap ("config" in `Discipline`).

### Listing: `DeviceListing`

`listing` is the function in use; `place` the order in which devices are visited (units
on macOS, registry keys on Windows, a directory on Linux), `holder[d]` who has a
device open. macOS: `Unit`, `Probe` or `ProbeFails`, `AskName` or `AskNameFails` for a
TUN, `CloseProbe`. Windows: `EnumKey`, `ReadComponent`, `ReadGuid`, `Probe` or `ProbeFails`,
`CloseProbe`, and for queries that fail though the key is there `EnumKeyFails` and
`GetValueFails`. Linux: `ReadDir`, `Stat`, `ReadKind` or `KindUnknown`.
`ListFails` is a call that finds nothing to go through: `opendir` throws (linux.c 344,
383), the registry's class key cannot be opened or asked and the list is empty
(windows.c 395, 398).

On Linux the path that `Stat` asks about is made from an uninitialised pointer
(linux.c 320, 359; `tmp1` was meant). The choice has three outcomes: the string
names a file, its own device's or another's; it names none; the process dies. A build in
which it is one and the same each time is among them. A machine has ordinary interfaces
as well ("ppp" and "ether" in `Kinds`). When `stat` succeeds for one of those, only the first
character of `addr_len` is left to tell it from the tun devices (`LooksRight`), and an
Ethernet interface is listed as a TAP. `ListedWasAvailable` says that nothing
worse happens: such a device is in `mistaken` and its addresses have the length of the
kind's.

`seen`, `due`, `failed`, `mistaken` and `came` are what an onlooker notes about a call
(`Observe`); no action of the code reads them. A Linux list has devices, free or
not; elsewhere it has what was free, and a lister holds a device while
it looks: two listers hide it from each other, and an `open()` in that moment
fails. That is why `FreeIsListed` promises only devices nobody else took. `failed` holds
the devices left out because a query about them failed (`Missed`), which is
silent on macOS and Windows; one failure excuses no other device, but for a call
that could not begin. On
Windows an adapter installed during the call may push its successors ahead of
the walk, which then lists one twice (`came`).

### Extraction: `LibraryExtraction`

A library is a row of chunks, the file the chunks at the shared path. `OpenStream`
truncates, `CopyChunk` writes at the stream's own offset, errors lead to `Load` like
success does, `Restart` ends a JVM at the end or anywhere. `clean[p]` records
that p's copy went through and nobody wrote since; no action reads it.

## Runs

| Run | Instance | Shows |
|---|---|---|
| `LinuxSerial` | 2 objects of one name, 2 threads, "serial" | `TypeOK`, `HalfOpenInFlight`, `NoLostDescriptor`: no error path leaves a half-open descriptor, and the last copy of a descriptor is not lost, though closes repeat and handles are stale |
| `LinuxContract` | the same, "serial" and "closeOnce", object a quiet | `HeldDevicesStayOpen`, `ImplementsContract` for both devices, `CallsReachOwnInterface`, `IsOpenAccurate` for a |
| `MacContract` | macOS: 3 TUN objects and a TAP object, 2 threads, all four promises | `ListIsExact`, `FollowsFilledNodes`, `LookupFindsOwnName`, `HalfOpenInFlight`, `ImplementsContract` |
| `MacProgress` | macOS: 2 TUN objects and a TAP object, 2 threads, all four promises, fairness | `CallsReturn`: every call returns |
| `Windows` | 3 objects of 2 adapters, any of them installed at the start, 2 threads, 2 handles, 2 registry keys; "serial", "closeOnce", "config" | `UseReachesOwnAdapter`, `GetMTUIsOwn`, `SetMTUTakesEffect`, `IPCallsAreAboutOwnAdapter`, `SettingsAreIsolated`, `ImplementsContract` |
| `Listing` | five functions, 3 devices of 2 kinds (tun devices and ordinary interfaces), a user, a second lister on macOS | `ListedWasAvailable`, `FreeIsListed`, `ListedOnce`, `ProbesLeaveNoTrace` |
| `Transfer` | three libraries, copying and pinning JVMs, heap and direct buffers and slices of them | `ReadFillsWindow`, `WriteSendsWindow`, `PositionFollowsCount`, `OutsideWindowUntouched` |
| `DirectPosition` | Linux, a direct buffer at any position | **violated**: the position is ignored |
| `Config` | Linux and macOS, a TAP and a TUN device of a name that is no interface's, 2 numbers, all calls, on closed devices, too | `ConfigReachesOwnInterface`, `SettingsAreIsolated`, `StatusKeepsOtherFlags`, `SetIPTakesEffect`, `GetIPIsWhole` |
| `MacSecondTap` | `tap0` and `tap1` on macOS | **violated**: `getMACAddress()` asks for `tap0` |
| `ExtractMixed` | two versions and a jar without library; failures, kills | `UndisturbedLoadIsOwn` |
| `ExtractSame` | three JVMs of one version, no failures | `FileGetsComplete` |

The two violated runs are listed under "findings" with the lines of the README
they contradict. In `Transfer` clients of Linux and macOS clear a direct buffer
before they use it, as the README's examples do; `DirectPosition` drops that.

**Bounds.** Two objects and two threads give every pair of overlapping calls, on
one device or on two; on macOS three TUN devices put an entry in the middle of the list.
Descriptors are two or three and files four or five: enough
for two devices, a socket of the JVM, a number that was reused, and files that outlive
their number in a blocked read. When the table is full `OpenFile` is not
enabled, as open(2) fails there and leaves everything as it was. Arrays have two
cells: positions 0, 1 and 2, empty and full windows, a slice with an offset.
Interfaces have one address to be given, two masks (one of them the address's
class mask, so that a mask that was not set shows), two MTUs and one MAC. Two descriptor
numbers are enough for a closed device to keep one that an open TUN gets.
On Windows two objects share an adapter and a third has its own, so a stale handle
may be reused by the same adapter and by another; with two keys, one of them another
adapter's, foreign or absent, a removal shifts an index and a key passes from one
adapter to the other. Two MTU values tell a write from none. Handles, registry values and addresses are
separate state that no call relates, so the clients of one behaviour use one of the three
(`Usages`); within each everything interleaves. The listings have two devices of
one kind, so an order among them matters, and one of another; on Windows and Linux
a second lister is to the first what any user is.
Libraries have two and three chunks, so a shorter one can be written over a
longer one and the reverse. The theorems below have none of these bounds.

**Deadlock** is checked in every run and does not occur.

**Fairness.** `MacProgress` assumes weak fairness of each thread's steps inside a
call (`WF_vars(Step(t))`): the operating system runs a thread that can run, and no step of
`MacLifecycle` waits for another thread; the library has no lock. That a client
calls at all is not assumed. Under it `CallsReturn` says that every call ends, which is
about the walks over the utun list: each must reach an end of a list that others have
changed. read() and write() are not part of that model; a read that waits for a
packet need not return. The other runs state safety only and assume no fairness.

## Proofs

The theorems hold for all values of the constants that satisfy the named
assumptions of the modules: any number of objects, threads, names, descriptors,
files, adapters, registry keys, buffers, cells, processes and versions. The runs
satisfy every hypothesis in the column "assumes", except where a run is about
clients that do not (`LinuxSerial`, `DirectPosition`, `MacSecondTap`).

| Module | Theorem | Property | Assumes |
|---|---|---|---|
| `LinuxLifecycleProofs` | `TypeCorrect` | `TypeOK` | |
| | `NoHalfOpenLeak` | `HalfOpenInFlight` | |
| | `NoDescriptorLost` | `NoLostDescriptor` | "serial" |
| | `HeldStayOpen` | `HeldDevicesStayOpen` | "serial", "closeOnce" |
| | `QuietCallsReachOwnInterface` | `CallsReachOwnInterface` | "serial", "closeOnce" |
| | `QuietIsOpenAccurate` | `IsOpenAccurate` | "serial", "closeOnce" |
| | `LinuxImplementsContract` | `ImplementsContract` | "serial", "closeOnce" |
| `MacLifecycleProofs` | `TypeCorrect` | `TypeOK` | |
| | `NoHalfOpenLeak` | `HalfOpenInFlight` | |
| | `MacImplementsContract` | `ImplementsContract` | "serial", "closeOnce" |
| | `WalksFollowFilledNodes` | `FollowsFilledNodes` | `Promised` |
| | `LookupsFindOwnName` | `LookupFindsOwnName` | `Promised` |
| | `ListAlwaysExact` | `ListIsExact` | `Promised` |
| `WindowsDeviceProofs` | `TypeCorrect` | `TypeOK` | |
| | `HandlesReachOwnAdapter` | `UseReachesOwnAdapter` | `Carefully` |
| | `WindowsImplementsContract` | `ImplementsContract` | `Carefully`, `DiesUnopened` |
| | `SettingsIsolated` | `SettingsAreIsolated` | |
| | `GetMTUOwn` | `GetMTUIsOwn` | "config" |
| | `SetMTUEffective` | `SetMTUTakesEffect` | "config" |
| | `IPCallsOwn` | `IPCallsAreAboutOwnAdapter` | "config" |
| `DeviceListingProofs` | `TypeCorrect` | `TypeOK` | |
| | `NothingLeftOpen` | `ProbesLeaveNoTrace` | |
| | `ListsWhatWasAvailable` | `ListedWasAvailable` | |
| | `ListsWhatWasFree` | `FreeIsListed` | |
| | `NothingListedTwice` | `ListedOnce` | |
| `ByteBufferTransferProofs` | `TypeCorrect` | `TypeOK` | |
| | `PositionFollows` | `PositionFollowsCount` | |
| | `ReadFills` | `ReadFillsWindow` | `DirectFromStart` |
| | `WriteSends` | `WriteSendsWindow` | `DirectFromStart` |
| | `OutsideUntouched` | `OutsideWindowUntouched` | `DirectFromStart` |
| `InterfaceConfigProofs` | `TypeCorrect` | `TypeOK` | |
| | `ReachesOwnInterface` | `ConfigReachesOwnInterface` | `OwnName`, `OneTap`, `InTurn` |
| | `SettingsIsolated` | `SettingsAreIsolated` | `Apart` |
| | `StatusKeepsFlags` | `StatusKeepsOtherFlags` | `Apart`, `InTurn`, `OnOpenDevices` |
| | `SetIPEffective` | `SetIPTakesEffect` | `Apart`, `InTurn`, `OnOpenDevices`, `AllParsed` |
| | `GetIPWhole` | `GetIPIsWhole` | `Apart`, `InTurn`, `OnOpenDevices`, `OneAnswer` |
| `LibraryExtractionProofs` | `TypeCorrect` | `TypeOK` | |
| | `OwnLibraryLoaded` | `UndisturbedLoadIsOwn` | |
| | `ConcurrentCopiesComplete` | `FileGetsComplete` | `Failures = FALSE` |

**What the hypotheses mean.** They are what clients must promise, or facts of an
installation, and each is needed.

* "serial", "closeOnce", "config" are members of `Discipline`; `Carefully` is the
  first two together, `Promised` (macOS) all four of "serial", "closeOnce", "oneWriter" and
  "lookups". Without the first two the library closes numbers of somebody else; without the
  others threads change the pointers of the utun list under each other.
* `DiesUnopened` (Windows): no behaviour mixes `setMTU()`, in which the process may
  die, with `open()`. The contract has no step for a process that ends.
* `DirectFromStart`: on Linux and macOS a direct buffer is at position 0. The run
  `DirectPosition` shows what happens otherwise. On Windows any position will do.
* `OwnName`: on Linux a `deviceName`, cut to what fits, is the name of the interface that
  `open()` gets (a pattern with `%d` is not). `OneTap`: `getMACAddress()`
  of macOS is called on `tap0` only; `MacSecondTap` drops it. `Apart`: two objects do not
  lead to one interface. `InTurn`: the calls of several ioctls (on macOS all calls) do
  not overlap others on one device. `OnOpenDevices`: on macOS calls of several ioctls are not made on
  closed devices. `OneAnswer`: on macOS one `getIPAddress()` at a
  time. `AllParsed`: on macOS strings parse.
* `Failures = FALSE`: a JVM that fails half way leaves half a library for the next.

**Descriptors** (`DescriptorTableProofs`). `TableSound` says that no file is under
two numbers and every file in the table was made by someone; `NamesExclusive` that an
interface has one file; `RefsSound` that a file in a system call exists. With
them each system call is shown to change one entry and no other (`Kept`), which is
what the two lifecycles are proved from.

*Half-open descriptors.* `HalfOpenInFlight` is not inductive alone: a step of
`close()` frees a file, and the next `open()` may take it over. With `TableSound` a
file that is freed is in no other entry and a file that is attached is attached once.

*Lost descriptors.* `NoLostDescriptor` needs to know more about calls in flight:
`FramesSound` (an open in progress has an object and a number), `OneLifecycleCall`
(what "serial" gives: one open or close per object at a time) and `AttachedTracked`,
the property in a form that follows the object whose `open()` made the file. The
step that matters is `Assign`, which overwrites a handle: the number it hides must
not be an attached descriptor of the same name, since TUNSETIFF granted the name
to the new file.

*Ownership* (`OwnedSoFar`, in both lifecycles). Every number the library has is one
its object's own `open()` made: in the handle of a held device, in the frame of
an `open()` from the first system call to the assignment, in the frame of a `close()`.
Two of those are therefore never the same number (`NumbersApart`), so no step
closes or overwrites what another one relies on. `QuietApart` adds, for the clients in
`Quiet`, that no lifecycle call of the object is in progress while another call is.

*Refinement.* Under the mapping of `ImplementsContract` each step is a step of
the contract or leaves it unchanged. Linux: TUNSETIFF is `Grant`, close(2) is
`EndClose`, `Assign` and `UndoOpen` are `EndOpen`. macOS: `OpenTap` and `GetName` are
`Grant`, `DoClose` is `EndClose`, `Assign`, `Undo` and `OpenFails` are `EndOpen`, and all
steps on the list stutter, which needs no promise about the list. Windows:
`CreateFile` is `Grant`, `CloseHandle` is `EndClose`. `Grant` needs `NamesExclusive`: that no
other open device has the interface.

**The utun list** (`MacLifecycleProofs`). `InTurn` is ownership together with what "oneWriter" and
"lookups" come to (`Turns`): one thread changes the list at a time, nobody looks anything up
during a `close()`, and during the `open()` of a TUN only devices that are held.
`ListInv` says that there is a set L of nodes and a rank for each, such that

* `Chain`: the pointers lead from `list` through all of L by increasing rank to the null
  pointer. An entry that is added gets the highest rank and one that is deleted takes its rank
  with it, so the ranks of the others never change and say where a walk is;
* `EntriesSound`, `HeldListed`, `NoneLost`: a filled entry is that of an attached utun
  socket, no number is in two entries, every held TUN has an entry, and an allocated node that
  is not in L is in the hands of the `open()` or `close()` that has yet to link or free it;
* `AddSound`, `DelSound`, `LookSound`: an entry is linked only while no other has its
  number; no entry before the one `delete` has reached has the number it looks for, and
  `prev` is where the pointer to that entry is; a lookup of a held device has its entry
  still ahead.

The last entry of L may be linked and not filled yet. `LookerSeesFilled` is why no lookup
reads it: its number is not that of a held device, so the entry looked for lies before it,
and the walk stops there. It is also where the promise about lookups is needed: a TAP or a
closed TUN has no entry, its lookup runs to the end.

`ListIsExact` also needs that every open descriptor is known (`Accounted`: to a held device or
a call in progress), and that `Entries`, which follows `Link`, is L. `Link` is a recursive
function; what it is for each k is proved by taking the least k for which it would be something
else (`LeastNumber`, from the well-foundedness of finite sets under inclusion) than the
node with k entries before it (`Places`, `OneLink`, `Links`).

**Windows configuration.** `Rank(k)` is the index of a registry key among those
installed. `WalkSound` says that while no key has moved, the own adapter's key is `Ahead` of
the walk or its value has been dealt with (`Settled`: answered, set or refused), and
`KeysUnique` that there is only one. Both are about calls that are not in `moved`: one that
meets another adapter under the key it compared has lost its own. `ListSound` follows the
snapshot of addresses that `setIPAddress()` works off.

**Listing.** `SeenSoFar`: what is in hand or listed was noted as available. `DueSoFar`:
each device that is due is listed, `AtHand`, its query failed, or its place is still
`Ahead`. `OnceSoFar`: what is listed lies `Behind` the walk; on Windows, where
uninstalling moves the indices, the number of keys behind it bounds the index
(`KeysPassed`). The three need `Placed`: a device has one place.

**Data path.** `PositionsSoFar`: two calls have different buffers (`OwnBuffer`), and
where a call is decides the position (`Placed`). `BytesSoFar`: windows of calls in
progress share no cells (`OwnCells`), the copy JNI took is what the array holds outside the
window of the call (`CopySound`), and the packet is, cell by cell, in the copy
or in the array (`BytesSound`).

**Configuration.** `TypedSoFar` ties each step to the method it belongs to and to
the member of the union that is valid there. `Reaching` says what the name in the
ifreq leads to: `ListSound`, that a number is one open device's and the list has the
open TUNs under their numbers and nothing else, gives that a call on an open device starts with the
name of its own interface, and on a closed one with its own name or that of a TUN in
`misled`. With `OneSerialCall` it stays so until the call ends (`MacSound`). `StatusSoFar`,
`SetIPSoFar` and `GetIPSoFar` say what each later ioctl finds of
what the earlier ones read or wrote, and on macOS whose answer is in the buffer.

**Extraction.** `CleanSound` says of an undisturbed copy that the file holds
exactly the chunks it has written; `FileGetsComplete` follows from "nothing
beyond the end" and "each missing chunk is ahead of some copy".

**Only model-checked.** `CallsReturn`: liveness under fairness and ENABLED are beyond the
prover. Every invariant and action property that a passing run checks is proved,
under the hypotheses of the table. There are no RECURSIVE operators.

## Assumptions and limits

* `deviceHandle` is a `long` that several threads access without
  synchronization. It is modelled as sequentially consistent; a torn or stale
  value of a 32-bit JVM is not.
* The kernel is external code. What is assumed of it: lowest free number
  first; a name belongs to one file; a file lives until its last reference goes;
  TUNSETIFF may fail at any time; setting an address keeps the mask or brings
  the one of its class; Linux refuses a word that is no mask; asking for an
  address that is not set is an error.
* The macOS runs use strings that parse: whether that kernel refuses the address
  as a mask, which is what a malformed mask turns into, cannot be told from this
  code.
* An address that is itself a valid mask (128.0.0.0), given together with a mask that
  does not parse, is not tried: on Linux the kernel would take it for the mask.
* `getDeviceName()` reads the list at one step of `InterfaceConfig`; what happens when that
  overlaps a change of the list is in `MacLifecycle`, which promises an exact answer only
  to clients that keep calls from overlapping `close()`. `MacLifecycle` merges the read
  of a node's link with the comparison or store that follows it (`Add`, `AddWalk`).
* A name TUNSETIFF completes (`tun%d`) makes `open()` succeed on an interface that
  no configuration call finds: `open()` drops the name the kernel returns. The
  runs leave such names out.
* Windows: the C runtime has its default invalid parameter handler; `deviceName` is a
  well-formed GUID; adapters do not go while a file of theirs is open; an interface index
  that was resolved is not given to another adapter while the call runs. Only one process is
  modelled: that another one holds the adapter is one of the reasons of `CreateFails`.
* Memory of the native code is modelled where a property is about it (the utun
  list, JNI's arrays, `inet_ntoa`). Leaks of names and the deallocation of the message in
  `throwException` on Windows (windows.c 28-36) are not.
* Read-only heap buffers, whose `array()` throws before anything is done, are not modelled.
* The listing functions are `protected` in NetworkDevice.java (114-116): client code
  calls them from its own package, as the samples of the repository's README do, only
  if it extends the class. Models say nothing of access rules.
* Left out as data: formatting of addresses, exception texts, flag bits other
  than "up" (one stands for all), packet sizes beyond the window.
* Not modelled: `TunTap4j.main` (one sequence of calls of one device), `Utils` (reads a property),
  generated headers, build files, `nativeList` of linux.c (no Java declaration).

## Plan

1. Done: the modules above, in the order lifecycle, data path, configuration,
   extraction.
2. Done: `MacLifecycle`, its liveness, and the buffer of `inet_ntoa` in `InterfaceConfig`.
3. Done: `WindowsDevice`.
4. Done: `DeviceListing`.
5. Dropped: liveness of the interface after `close()`. When a read that is blocked
   ends is up to the kernel and the network, so the property would be one of `DescriptorTable`.
6. Done: the proofs listed above.
7. Done: the proof for the list of utun devices.
8. Left: the safety part of `CallsReturn`, a variant in ranks (`Chain`) that each step of
   a walk lowers and no step of another thread raises.
