# A verification model of python-libs (`xcp`)

This directory holds TLA+ modules that model the parts of the XenServer Python
library `xcp` that keep state, TLC configurations that check them on small
instances, and machine-checked proofs, for instances of any size, of every safety and action
property that is checked. All paths below are relative to the repository.

## 1. The system and its parts

The library is used by the host installer and by start-up scripts of the host
(`interface-rename` above all), which are not part of the repository. Nothing
in it is multi-threaded; what is hard is sequences of calls, files that outlive
crashes and reboots, external commands that fail, and a server that answers
late.

| Part | Source | State it keeps | Operations |
| --- | --- | --- | --- |
| Interface rename logic | `xcp/net/ifrename/logic.py`, `util.py`, `macpci.py` | the nics with kernel name and decided name; the transactions so far | `rename()`: checks of the input, `rename_logic()` in four passes, `__rename_nic()` |
| Dynamic rules | `xcp/net/ifrename/dynamic.py` | the file; the lists `lastboot` and `old` | `load_and_parse()`, `save()`, `generate()` |
| Static rules | `xcp/net/ifrename/static.py`, `xcp/pci.py` | the file; the formulae; the rules | `load_and_parse()`, `generate()`, `save()` |
| Link renaming | `xcp/net/ip.py` | the kernel's links | `ip_link_set_name()` |
| Accessors | `xcp/accessor.py`, `xcp/mount.py` | start count, mount point, mount options; FTP connection and `cleanup` flag | `start()`, `finish()`, `access()`, `openAddress()`, `writeFile()` |
| Repositories | `xcp/repository.py` | what an accessor reaches | `findRepositories()`, `getRepoVer()`, `getProductVersion()` |
| Boot loader configuration | `xcp/bootloader.py` | `grub.cfg`, `grubenv`; menu, order and default of the object | `readGrub2()`, `writeGrub2()`, `commit()`, `append()`, `remove()`, `setNextBoot()`, `newDefault()` |
| Driver multi-version | `xcp/dmv.py` | links under `/lib/modules/*/updates`; the report | `create_dmv_symlink()`, `parse_dmv_list()`, `parse_dmv_file()` |
| Command cache | `xcp/cmd.py` | cached results of commands and files | `runCmd()`, `fileContents()`, `clearCache()` |
| cpio archives | `xcp/cpiofile.py` | the archive on disk; members read so far, whether all are (`loaded`), position, inodes known | `add()`, `addfile()`, `close()`; `next()`, iterators, `getmembers()`, `extract()`, `extractfile()`, `extractall()` |
| The rest | `version.py`, `dom0.py`, `environ.py`, `logger.py`, `net/mac.py`, `net/biosdevname.py`, ... | none, or tables read once | parsing, arithmetic |

How they interact. At every boot the renaming program loads the dynamic rules,
generates rules from the static ones, calls `rename()` with both and the nics
the kernel shows, carries out the transactions one by one with
`ip_link_set_name()`, and saves what the next boot has to remember. An
interruption between any two of these leaves a file, or links, that the next
boot has to cope with. A `Repository` works through an `Accessor` whose
`start()` and `finish()` nest; the program may have started the same accessor
itself. A `Bootloader` object is a copy of `grub.cfg` that goes stale: the
label of an entry exists in memory only, the index of one on disk.

Which behaviours are hard, and what makes each part correct:

- *Renaming*: a nic takes a name another one has, so that order and temporary
  names matter; four passes that must not touch each other's decisions; lists
  that disagree. Correct: names are distinct at every step, the transactions can
  be carried out in order, static rules win, remembered nics keep their names,
  replaced ones pass theirs on.
- *Over boots*: crashes, failed saves and commands, the kernel's order of nics.
  Correct: the same hardware keeps its names, a change of one nic leaves the
  others alone, and `rename()` never rejects what it once produced.
- *Files* (dynamic and static rules, `grub.cfg`): what is saved is what is
  loaded, whatever crash comes between; what a reader makes of a file does not
  depend on accidental order.
- *Accessors*: nesting, failed mounts and umounts, replies that arrive later.
  Correct: mounted while started, nothing left afterwards; every reply read by
  the command it belongs to.
- *Repositories*: exceptions on every path must not unbalance the accessor.
- *Boot menu*: indexes, labels and titles name the same entry differently and at
  different times. Correct: the override boots what was asked for, once; no
  commit moves the default; a replaced kernel can still be booted.
- *Drivers*: a switch is many steps over many directories. Correct: a switch
  that reports success is complete whatever preceded it; no link is ever absent.
- *Archives*: iterators, look-ups and extractions share one list of members and one
  position; the data of a hard link are with another member. Correct: what was added
  is found again, whole or up to where the writer stopped; a loop sees every member
  whatever is called in its body; a file never gets the data of another.

## 2. Modules

| Module | Models | Composes |
| --- | --- | --- |
| `NicNames` | the names of nics: `eth<n>`, `side-<r>-eth<n>`, `ibft<n>`, and `eth` followed by something else | |
| `RenamePlan` | abstract: a list of renames the kernel can carry out in order | `NicNames` |
| `Rename` | one call of `rename()`: its checks, then one step for each rule, nic or function of the four passes | `NicNames`, `RenamePlan` (refinement) |
| `IpLink` | calls of `ip_link_set_name()`, one `ip` command a step, and the kernel's links | `NicNames` |
| `CarriedOut` | any plan of `RenamePlan`, carried out by `IpLink` | both |
| `Sublists` | the elements of a list at some of its positions, in order: what a loop that keeps some elements makes | |
| `DynamicRules` | the dynamic rules file and its object, crashes while saving, hand edits | |
| `BootCycle` | boots of one machine whose nics change | `Rename`, `IpLink`, `DynamicRules` |
| `StaticRules` | the static rules file, its object, and `generate()` | |
| `FtpAccessor` | one FTP accessor, its connection and the server | |
| `MountingAccessor` | one device or NFS accessor with the mounts of the machine | |
| `Repository` | the looks for repositories and versions | `MountingAccessor` |
| `Bootloader` | `grub.cfg`, `grubenv`, one `Bootloader` object, grub at boot | |
| `DriverMultiVersion` | the variants of one driver: links, index, initrd, loaded modules, the report | |
| `CpioFile` | one archive: writers that add, append, fail and crash; a reader with its iterators and extractions | |

Every `MC<module>` gives the constants values for TLC. Eight modules hold the theorems of
section 4: `BootProofs` (about `Rename` and `BootCycle`), `HostProofs` (`CarriedOut` and
`Bootloader`: what programs change in place on a running host), `DynamicProofs`,
`StaticProofs`, `FtpProofs`, `MountingProofs` (`MountingAccessor` and `Repository`),
`DriverProofs` and `CpioProofs`. The lemmas about `Sublists` are in `DynamicProofs`, of which
`BootProofs`, `HostProofs`, `MountingProofs` and `StaticProofs` take instances to cite them.
`Bootloader` shares nothing with `CarriedOut` but the module of their proofs, hence its names
`MenuInit`, `MenuNext`, `MenuSpec`.

### Correspondence to the code

`Rename`. The variables are those of `rename_logic()`: `static_rules`,
`cur_state` (`nics`), `last_state`, `old_state`, `transactions`, `nextethnum`,
`multinic_functions`; `pc` is the pass, `work` and `fns` what its loop has yet to
visit. `RenameNic` is `__rename_nic()` with its four ways out (`TakeFree`,
`TakeOwn`, `TakeOver`, `Refused`: an assertion). `Reject`, `Accept` are the
checks of `rename()` (lines 440-545), in their order; `StaticRule` is pass 1,
`Dynamic` one iteration of pass 2, `VisitFunction` and `ReplaceOnFunction` pass
3, `NumberKept` and `NumberNew` pass 4. Python sets are visited in any order,
the temporary name is any free one. MAC addresses are naturals in the order of
`MAC.integer`. The ppn and the label of a nic, type checks on the arguments and
logging are left out: no decision depends on them.

`IpLink`. `show`, `down`, `rename` and `up` are the four `ip` commands; the
kernel refuses unknown sources, taken destinations and renames of links that are
up. `GiveUp` is the early return after a command that failed, by refusal or, up
to `MaxFail` times, otherwise.

`DynamicRules`. An entry of a list has a form, because the forms are what the
code stumbles over: a list of strings, a list of objects, a `MACPCI`, no valid
address. `SaveOpen` empties the file (`open(..., "w")`), `SaveWrite`,
`SaveUnserialisable` and `SaveWriteFails` are how the write ends, `Restart` is a
crash between the two. The renaming program in `BootCycle` (external) assigns
new lists before it saves.

`BootCycle`. `PowerOn` chooses hardware and the kernel's names, `Load`,
`Decide`, `Apply`, `RunCommand`, `Remember` and `Save` are the program (external), `Stop` is
a crash or the end of a boot at any point. What the program remembers, it
remembers as the docstrings of `rename_logic()` and `DynamicRules` say:
`lastboot` are the nics of this boot, `old` those "which have disappeared in the
meantime".

`StaticRules`. A line is its target, its method, the shape of its value and
whether that is quoted. `Insert` keeps dictionary order, `Generate` evaluates a
formula with `pci_sbdfi_to_nic()` (index by MAC, nics with one MAC in the order of the
kernel, as the sort of `pci.py:343` is stable) or by ppn, label, MAC: of several nics that fit
the first one. `Load` may fail on a file that exists, as that of `DynamicRules` may;
`SaveOpen` and `SaveWrite` are separate, so that a save can be cut short.

`FtpAccessor`. A step is a call up to the first reply it waits for, or the
reading of one reply. `cleanup` and `start_count` are the attributes of the
code; `inbox`, `replies`, `sending` are the server's side, `reader` is the data
connection handed to the program. The server answers `RETR` twice, and may refuse
whatever servers refuse: a name, a `STOR`, and `SIZE` where it is not implemented or not
allowed in ASCII mode. Two variables are chosen once: `careful`, whether the program reads
to the end what it opened, and `sizes`, whether the server tells the size of every file it has.

`MountingAccessor`. `StartFirst` makes the directory, each further step tries a
file system type, `StartFails` is the exception after the last one, `FinishLast`
unmounts and removes the directory; `umount` may fail; `__del__` is modelled.

`Repository`. A method is a script of tests and parses between `start` and
`finish`; an exception drops the rest of the script, the `finish` included,
unless the code has a handler there. XML and package metadata are abstracted to
whether parsing works and which kind of exception it raises if not, and to whether the
repository is named `xcp:main`, `xs:main` or otherwise, which `getRepoVer()` tells apart. Between two looks
the program may start and finish the accessor itself, and open and close files on it
(`OwnFiles`).

`Bootloader`. An entry is a title, a kernel and whether it clears the override. A title is
what it says and the versions `newDefault()` added. `Parsed` is `readGrub2()`: labels from
titles (`Label` is `create_label()`: numbers for titles it does not know, one label for all with
a ` / `), of entries with one label the last in the menu and all in the order, entry 0 as the
default of a menu without a line for it, and the lines that look for an override unless the
environment is read already (`load`). `Written` is `writeGrub2()` (an index from the default
label, or a string); a commit writes a temporary file and renames it in the next step.
`setNextBoot()` writes the index to `grubenv` at once. `Version` gives the version in the name
of a kernel, which several may share. Kernel arguments, console, file formats and the RPU
chainloader are left out. `twins` and `mixed` are history: that two entries have come to share
a label, and that a title may no longer tell what its entry boots. One program at a time holds a
`Bootloader`; it appends entries under labels it has not, those they will be read with.

`DriverMultiVersion`. `tree` is what is installed; `links`, `index` and
`initrd` are three copies of the choice, made by the renames, `depmod` and
`dracut`. `Unlink`, `Symlink`, `RenameLink`, `WeakModules`, `Depmod`, `Dracut` are the
steps of `create_dmv_symlink()` in the order of the code; `Restart` and `Boot`
may come between any two. `ParseList` passes the
`info.json` files to `process_dmv_data` one after the other (`Listed`), in any order of
directories that has those of one kernel in a row (`Walks`), with the modules of each in any
order (`KeyOrders`). PCI matching, ELF notes and the
list of loaded modules are left out.

`CpioFile`. The archive is a sequence of cells: a header, the data behind it, a trailer,
something cut short. `Tree` is what the program may add: names, inodes, link counts, and
whether a file is empty. A writer keeps what it wrote in `pending`, of which any part may be
on disk when it crashes (`Crash`, with `Cut` for a cell partly written and `InStep` for an
older archive that is read on with behind the new part); `at` is where it began, in mode `a`
the header of the last member, because `__init__()` seeks to the `offset` of the last
`CpioInfo`, which is where its header begins. `todo` is the recursion of `add()`. A reader is
`obj`: how many members have been read, whether the first is still to be yielded, whether all
have been read, the stream's position, the inodes extracted. `NextOf` is `next()`, `Step` is
`CpioIter.__next__()`, `Load` is `_load()`, `Datamember` is `_datamember()` with the iterator
it makes and the members it takes from others by it. `ExtractOf` is `_extract_member()`;
`extractall()` is the job, one member or directory a step. In `fs`, `attr` is the inode whose
owner, mode and time were set on a path last. `written`, `before`, `whole` and `astray` are
history; an archive that has been read is not written again, so the history of writing ends
there. Left out: symbolic links and devices, compression (the code below the seekable or
non-seekable file), `extractall(members=...)`, `CpioFileCompat`, and the bytes of a header. No
name is a file and a directory at once, and source files do not change while they are added
except by becoming shorter (`AddFails`).

### Naming of faults

An operator whose comment begins with "Fault" is a slip of the code that was
not made, kept beside the definition it would replace. Each shows that a
property is not true by construction: with the fault in place TLC finds the
property violated. No specification uses them.

## 3. Runs

| Run | Module / configuration | Properties |
| --- | --- | --- |
| `rename` | `MCRename` | `NamesDistinct` `StaticPriority` `NoAssertion` `RemembersName` `InheritsName` `NumberedByMac` `ReplacedByMac` `NamedForGood` `PlanSpec` |
| `carried_out` | `MCCarriedOut` | `NeverRefused` `Arrives` `Ends` |
| `boot_cycle` | `MCBootCycle` | `MemoryAccepted` `StableNames` `OthersKeepNames` `NeverMisnamed` |
| `boot_assertion` | `MCBootCycle_assertion` | `AssertionMeansInvalid` (violated) |
| `dynamic_file` | `MCDynamicRules` | `LoadsWhatWasSaved` |
| `static_file` | `MCStaticRules` | `SavedIsLoaded` `LastLineWins` `OrderFree` |
| `ftp` | `MCFtpAccessor` | `InStep` `AccessTruthful` `CleanupIsDue` `Returns` |
| `repository_looks` | `MCRepository` | `MountedWhileStarted` `NothingLeft` `ReadOnlyAsAsked` `OwnStartsHold` `FindsAllOrYum` |
| `boot_menu` | `MCBootloader` | `OverrideOnce` `BackupKept` `DefaultStays` |
| `driver_variants` | `MCDriverMultiVersion` | `AllLinked` `SelectedIsWanted` `NeverUnlinked` `LoadsWanted` |
| `cpio` | `MCCpioFile` | `KeepsWhatWasWritten` `IteratesAll` `ExtractsRightData` `ExtractsAll` |
| `cpio_append` | `MCCpioFile_append` | `AppendKeepsAll` (violated) |

Run one with `tlc -config <configuration>.cfg <module>.tla`; the module is the part of the
configuration's name before `_`. The type invariant of a module
is a conjunct of one invariant of its run (in `rename`, of `NoAssertion`).

### What the runs show, and their bounds

`rename`. All inputs of three kinds. (a) Two nics on functions of their own, with
any kernel names out of `eth0`-`eth2` and a left-over `side-` name, against every
memory of up to three entries in all (one static rule, two of last boot, one
older) over three MACs, three slots and two names: swaps, moves, replacements and
every conflict of two sources about one name occur. (b) Three nics of which two or
all are on one function, in every order of their MACs, with firmware orders that
are distinct and that are not, and a memory of up to two last nics and an older
one. (c) Inputs that `rename()` rejects, for each of its reasons, and empty ones.
A name is moved aside at most once, and no rule, nic or entry looks at more than
two others, so that three of each show every interaction of the code.

`carried_out`. Three links with four names, plans of up to three commands, one
command that fails at any place. A rotation of three names needs four commands;
the swap, which needs three, already makes the second use of a link and of a
temporary name. Fairness: weak, of starting the calls and of every `ip` command;
the calls are made by a sequential loop and each command ends, because
`subprocess` waits for it.

`boot_cycle`. Three boots, up to three MACs in two of three slots, with and without
one static rule, a failing command in each boot, a file that cannot be read, a crash at any
step. Three boots are the least in which a nic is remembered, replaced and comes back. The
slots are a symmetry set: they differ in nothing but which nic is in them, and the rule may be
for any. `StableNames` and `OthersKeepNames` are stated for boots at which the file could be
read; the kernel names that only a list made by hand can hold (`Knamed`) are in `rename`.

`boot_assertion`. The same without rules or failures. After eth0's nic was replaced by
another in its slot, and both are then plugged elsewhere, the last boot and the
older nics both say `eth0`; all checks pass, and the second nic of pass 2 fails
the assertion of `__rename_nic()`, which the docstring of `rename_logic()`
reserves for "invalid entries" of the current state.

`dynamic_file`. Two entries in every form, lists of up to two, loaded repeatedly;
saves that fail to open, fail to write, meet an item JSON does not know, or are
cut short.

`static_file`. All files of two lines over 70 lines, two targets, the nine shapes of
value, quoted or not; formulae of an installer; machines whose order of nics is
against that of their MACs, and machines on which nics share a ppn, a label or a MAC.
`OrderFree` compares the rules of the first `generate()` with those for every other order of the
nics, for nics that can be told apart: of two with one label the rule names the first listed.

`ftp`. Three files: one that fits the buffers between server and client, one that
does not, one that is missing; two nested starts; two lost connections; servers that tell
sizes and that refuse to.
`AccessTruthful`, `CleanupIsDue` and `Returns` are stated for a program that reads
to the end what it opened and as long as no connection is lost, because the code
does not ensure them otherwise (section 5); `InStep` holds always, and so does the half
of `AccessTruthful` that what is found is there. The other half needs a server that never
refuses to tell a size (`sizes`).
Fairness: weak, of the client's reading of a reply that is there and of the server's
steps: the client blocks in `recv`, the server is a live process. Nothing is assumed
of the program's next call or its reading of data.

`repository_looks`. Accessors as `DeviceAccessor` and `NFSAccessor` make them, up to three
nested starts, failing mounts and umounts, files that the program has open, the end of
the object at any time. Two known locations, each empty, good, `xcp:main`, `xs:main`, or broken in one of
two ways; yum metadata good, broken or absent; the extra list absent, broken or naming
one: sixteen media, each broken in one place at most, because the first exception ends a
look. Three starts are those of the program and the two that one look may nest.
`NothingLeft` (with it: an accessor has at most one mount) is stated up to the first
umount that fails, whose result the code does not look at. `OwnStartsHold` is the balance
of starts: no look takes the program's mount away, and only a broken medium leaves one behind.

`boot_menu`. Menus of up to three entries (`MaxMenu`) with two kernels, one of which has a
version in its name, titles with up to two versions added (`MaxAdded`), from seven first
menus: like `tests/data/grub.cfg`, with either entry as the default, but of its entries only
one of each kind; one without a line for the default, like `tests/data/grub-linux.cfg`; one of
which only a backup is left; one of other programs that reads the environment; an empty one and
one with a default past its end. Three entries hold two that share a label next to another, a
current entry with its backup and an upgrade, and a backup of a backup. About 890,000 states.

`driver_variants`. Two kernels, two modules, two variants in four arrangements (both
complete; one for a single kernel; one with fewer modules; one alone), with and without
`dracut`, two calls that may crash or fail at any step, reports in every order.
`SelectedIsWanted` says that after a switch the report is of the variant asked for unless a
module which that one does not have is still linked to the reported one.

`cpio`. A tree of seven names: a directory that holds a file and an empty directory, two hard
links of one inode in different places, another file, an empty file that has another name
outside the tree, and the archive itself; also an
archive as cpio writes it, with the data of two links behind the second. Two openings for
writing with up to two members each begun at will (a call may add three, being recursive), a
file that has become shorter, a crash after any part of what was written; then a reader, of a
file or a stream, with one iterator that the program resumes between, before and after two
look-ups and extractions to two directories. One iterator is enough because those extractions
have iterators of their own (`extractall()`, the search for data), so that two are under
way at once. The reader of a torn archive gets one call: what is particular about it is
`KeepsWhatWasWritten`, which needs none. `ExtractsAll` is stated for the first
`extractall()` of an archive whose data come with the first link, and in which, if it is read
from a stream, no empty file has several names; section 5 says why.

`cpio_append`. The same instance. Opening an archive with mode `a` and closing it loses its
last member: `__init__()` (`cpiofile.py:970`: "Move to the end of the archive, before the
trailer") seeks to the header of the last member that `next()` returned, and the trailer
is written over it.

Deadlock is checked in the runs `dynamic_file`, `static_file`, `boot_menu` and
`driver_variants`, where something can always be called. In the others the modelled system
really stops: `rename()` returns, the calls of `carried_out` end, the bounded boots or
openings of an archive are used up, an accessor is gone or its peer will never answer.

## 4. Proofs

The runs show their properties on small instances; the theorems below hold for all values
of the constants: any number of nics, rules, links, kernels or members, inputs of any
length, and any value of the bounds (`MaxBoot`, `MaxFail`, ...) that keep TLC's instances
finite. `tlapm <module>.tla` checks them.

| Module | Theorem | Statement |
| --- | --- | --- |
| `BootProofs` | `TypeCorrect` | `Spec => []TypeOK` |
| | `NamesStayDistinct` | `Spec => []NamesDistinct` |
| | `ImplementsPlan` | `Spec => PlanSpec`, the refinement of `RenamePlan` |
| | `NamesAreFinal` | `Spec => NamedForGood` |
| | `RulesComeFirst` | `Spec => []StaticPriority` |
| | `AssertionsHold` | `Spec => []NoAssertion` |
| | `NamesAreRemembered` | `Spec => []RemembersName` |
| | `NamesAreInherited` | `Spec => []InheritsName` |
| | `ReplacedInOrder` | `Spec => []ReplacedByMac` |
| | `NumbersFollowMacs` | `Spec => []NumberedByMac` |
| | `MemoryIsAccepted` | `BootSpec => []MemoryAccepted` |
| | `NamesAreStable` | `BootSpec => []StableNames` |
| | `OthersKeepTheirs` | `BootSpec => []OthersKeepNames` |
| | `NoneIsMisnamed` | `BootSpec => NeverMisnamed` |
| `HostProofs` | `PlansAreAccepted` | `Spec => []NeverRefused` |
| | `LinksArrive` | `Spec => []Arrives` |
| | `NextBootIsWanted` | `MenuSpec => []OverrideOnce` |
| | `BackupsAreKept` | `MenuSpec => []BackupKept` |
| | `DefaultIsKept` | `MenuSpec => DefaultStays` |
| `DynamicProofs` | `SavesAreLoaded` | `Spec => []LoadsWhatWasSaved` |
| `StaticProofs` | `SavedIsReadAgain` | `Spec => []SavedIsLoaded` |
| | `LastOneCounts` | `Spec => LastLineWins` |
| | `RulesAreOrderFree` | `Spec => OrderFree` |
| `FtpProofs` | `StaysInStep` | `Spec => []InStep` |
| | `AccessIsTruthful` | `Spec => []AccessTruthful` |
| | `CleanupIsExact` | `Spec => []CleanupIsDue` |
| `MountingProofs` | `LooksUseAccessor` | `RepSpec => Spec`: `Repository` implements `MountingAccessor` |
| | `AlwaysMounted` | `Spec => []MountedWhileStarted` |
| | `NothingIsLeft` | `Spec => []NothingLeft` |
| | `MountedAsAsked` | `Spec => []ReadOnlyAsAsked` |
| | `LooksKeepMounts` | the last three for `RepSpec` |
| | `OwnStartsAreKept` | `RepSpec => []OwnStartsHold` |
| | `AllOrYumIsFound` | `RepSpec => []FindsAllOrYum` |
| `DriverProofs` | `SwitchesAll` | `Spec => []AllLinked` |
| | `LinksStay` | `Spec => NeverUnlinked` |
| | `LoadsTheVariant` | `Spec => LoadsWanted` |
| | `ReportsTheWanted` | `Spec => SelectedIsWanted` |
| `CpioProofs` | `CpioTypes` | `Spec => []TypeOK` |
| | `IteratorsAreComplete` | `Spec => []IteratesAll` |
| | `WritingIsKept` | `Spec => []KeepsWhatWasWritten` |
| | `FilesGetTheirData` | `Spec => []ExtractsRightData` |
| | `AllIsExtracted` | `Spec => []ExtractsAll` |

### Assumptions

Each is named in the module that declares the constants, and TLC evaluates it in that module's
run. `RenameAssumption`: MACs are naturals, temporary numbers positive, `None` is no name,
inputs have their types. `CarriedOutAssumption`, `DynamicAssumption`, `FtpAssumption`,
`DmvAssumption`: types, that the value which stands for "none" is none of the others, and for
drivers that there are finitely many kernels, variants and modules. `MountingAssumption`: the
file system types and options with which the constructors of `accessor.py` make accessors (a
CD type comes with `ro` or without options). `RepositoryAssumption`: media have their types,
and no location is spelt like a step of a look. `CpioAssumption`: the tree is finite, and the
names of one inode agree about it and have a link count above one, as on any file system.
`PathsAssumption`: a path below another one goes through a directory, and archives are
extracted to directories that do not lie in each other; otherwise one file would replace
another, rightly, and no file would be sure of its data. `ForeignAssumption`: archives of
other programs consist of whole members, data behind the header that announces them, and an
optional trailer. `StaticRulesAssumption`: values have the shapes that `load_and_parse()`
recognises (never a ppn that is `None`), a value in the old spelling has one in the new, files
and formulae are lists, an installer gives each name one formula, and MACs are naturals.
`BootloaderAssumption`: types, that `None` is none of the other values, and that programs append
`brand`, `serial`, `safe` and `upgrade` entries under the labels those titles get; nothing about
first menus, which may have any titles, backups and defaults. `BootCycleAssumption`:
finitely many MACs; machines plug them into slots; the rules of the administrator are such as
`rename()` accepts (`eth` names, no name and no MAC twice), and no entry of a file has a kname
(`load_and_parse()` gives none). Without the last `MemoryAccepted`
would be false, because `rename()` then rejects the rules, not the memory.

### The arguments

Almost no property is inductive as it stands. Each module defines the invariant that
is, and proves that the initial states satisfy it, that each action keeps it, and that it
implies the property.

`Rename`. That names stay distinct when nic `i` is named rests on `i` having no name yet, for
only then is the name it gives up its kernel name. `Inv` therefore adds that decided names
are `eth<n>` (so a temporary name never collides with one), that the nics a loop has still
to visit are unnamed (`WorkUnnamed`), and, for pass 1, where the code does not test it,
that no rule ahead describes a nic that has been named (`RulesAhead`), which follows from
the checks of `rename()`: no two rules and no two nics have one MAC. `RenameNicEffect` states
what one call of `__rename_nic()` does to a nic without a name, and every pass uses it
through `CallEffect`. The refinement maps `link` to the names the nics have after the
transactions so far and `plan` to the transactions; `TakeFree` and `TakeOver` are the two
steps of the plan, everything else a stutter, `Accept` the observation of the links.

What is decided needs three layers more, together `MemoryInv`. `Provenance`: a name decided in
passes 1 to 3 is that of a rule or of a remembered entry that fits the nic. `Trusted`, for an
unambiguous memory: the name that a nic has a claim to is free until the nic is visited, for
whoever had it would have it by the same entry; so the assertions of `__rename_nic()` cannot
fail, and remembered names are kept and inherited. `Counted`, with `Numbers`, for pass 4: no
name in use has the next number, and what has been numbered so far is in the order of the MACs.

`CarriedOut`. `stages` (history) holds the names of the links after each rename of the plan;
the invariant says which stage the links are at (`OnStage`), from what is left of the
calls and the `ip` command that is next, and which link is down for the call (`UpsKept`).
Together with `ImplementsPlan` this covers the plans of `rename()`.

`DynamicRules`. `Stored`: while `kept` says so, the file holds those entries and no save is under
way. That saving and loading keep the order and every entry rests on lemmas about `Those`
of `Sublists`, which four other modules use too.

`StaticRules`. The properties follow from what reading a list of lines amounts to, for any
length: of the lines for one name the last that is usable gives the formula (`FromLast`), and
lines of which no two are for one name are all read. `WellSaved` adds that since `save()`
returned the file is what the formulae look like when they are written, `Keyed` that they have
one name each; so that a new object reads them all, each in the form in which it was meant.
`generate()` makes a rule for each formula that some nic fits (`MadeAre`), and which nic that
is does not depend on their order (`MadeRelisted`), for nics that can be told apart: the one
at an index has as many before it in any order (`Before`), and at most one fits every other
formula; `Fresh` says that there were no rules before.

`BootCycle`. `BootInv` says that the file holds the nics of one boot, or nothing, at every
point (`FileFits`: no nic twice, in one list or in both, and no name twice among the last
nics); what `rename()` has been called with (`Recalls`) and `MemoryInv` for the call
(`Passing`); and, while commands run, that every transaction is that of one nic (`Owned`), so
that a link has the name the kernel gave it or one that a transaction of its own nic has
set (`Carried`). From the first follows
`MemoryAccepted`. For `StableNames` and `OthersKeepNames` pass 2 is gone through with the
entries that stay put (`StaysPut`, `PlaceKept`), after the cases that the properties except.
From the last follows `NeverMisnamed`, even after a failed command: the link found under
the source of a transaction is the one of the nic it was made for.

`FtpAccessor`. `UnderWay` relates what the client waits for (`pc`) to the commands in `inbox`,
the replies that are on their way and what the server sends: one exchange at a time, and the
two replies of `RETR` with the data between them. `FlagFresh` and `NoneAborted` are for the
conditions under which `cleanup` is exact.

`MountingAccessor`. `Counted` relates `start_count` to the directory and the mount in it,
`Tidy` says what is on disk when nothing is under way, `ModeKept` that the options only
change to what they already meant. `Repository` takes accessor steps only, so that it inherits
the three theorems by `LooksUseAccessor`. `OwnStartsHold` compares `start_count` with the
program's starts between looks, and holds within a look only up to the starts that the look
has still to finish. `LookInv` gives their number from what is left of the script, method
by method, and for `FindsAllOrYum` which locations have been visited and what has been found
at them.

`Bootloader`. `ParsedIs`, `WrittenIs` and `ReplacedIs` say what reading, writing and
`newDefault()` do to the entries of a menu. Menus whose entries share labels are part of the
model, and what is said of entries is false of them: reading such a menu gives one entry twice.
`MenuInv` therefore has parts of three kinds. `Files` and `Small` hold always: types, and that the
object has an entry for each place in its order unless a program removed one. `Unique` holds
until two entries share a label (`twins`): labels are unique and fit the titles
(`GoodObj`); the override will boot the wanted entry, by the menu on disk once that has
been committed and by the one in memory before (`Override`); each replaced kernel has an entry
in the menu on disk and in that of the object (`Backups`); the default of the object is the
entry the disk boots (`DefaultSame`). `Told` holds until `newDefault()` replaces a kernel that
has a backup (`mixed`): titles tell what they boot, on disk and in memory. What `newDefault()` is
about to make of the disk is `NewFile`. A commit is one rename (`FilesGo`), so that a crash
leaves the old menu or the new one.

`DriverMultiVersion`. `AtHand` says where `create_dmv_symlink()` stands: all modules of the
variant that are neither of a kernel in `kernels`, nor in `files`, nor the one in hand are
linked, and before `dracut` the index is that of the links. `Done` holds on to the result
after the call, until the next; `NothingThere` is for the call that returns `False`.
`Reported` says what a manager has listed after `n` of the directories, whatever their order:
the variants of those, and as selected one to which some module is linked, if any is; after
a switch every module of the variant asked for is linked to it, so that another one is
reported only for a module that it does not have.

`CpioFile`. `Sound` says what a reader is like at all times: as many members are read as there
are at most, all of them if it is `loaded`, and the first is handed out a second time only
while it is the only one. `Iterators` says where each iterator stands relative to that. Every
operator on the reader, up to an extraction with its search for data, keeps the first and
moves the reader forward only (`Kept`), so that an iterator that is suspended misses nothing.
`KInv` is about the archive: while it is written it is a chain of whole members, each behind
the one before, in the order in which they were added (`Writing`); when it is closed or the
program crashes, that is on disk, or a prefix of it of which the last member may be torn
(`Resting`); and the reader of such a chain comes across its members in that order. `EInv` is
about what was extracted from a whole archive: the inode table has names of members with the
inode (`Named`), and every file has the data of the member it came from, or none once a search
for the data of a link has gone astray (`Right`). It rests on lemmas about paths: a path below
a base is below no other and of one name only. `AInv` says how far a first `extractall()` has
come: what it has gone through is there, the inodes of links among it are known, and the
archive has been read no further (`Through`); after that, the directory that is last in order
gets its attributes first and keeps them (`Lasting`).

Induction over data is out of the prover's reach as a rule with an operator for parameter.
Where a proof would use it, it takes the least number of a set of counterexamples instead
(`LeastNat`), or cites an induction theorem about sets. Recursion in the models that are
proved about is written as recursive functions, whose existence is proved in the same way, or
as comprehensions over positions (`Sublists`) where a recursive selection could have been
used.

### Only model-checked

Liveness, `Ends` of `CarriedOut` and `Returns` of `FtpAccessor`, and whatever is about
`ENABLED`, such as the absence of deadlock: out of the prover's reach. Every other property of
the runs that pass is a theorem.

## 5. Where code and documentation differ

Two differences are runs of this project (`boot_assertion`, `cpio_append`).
Others were met while modelling; the models follow the code:

- `logic.py:485` raises `StaticRuleError` for an invalid kernel name in the current
  state; the docstring of `rename()` promises `CurrentStateError`.
- `dynamic.py:242`: `validate()` subscripts entries; the `MACPCI` objects that
  `load_and_parse()` makes cannot be, so that loading and saving writes empty lists.
  A list `[MAC, PCI, name]` passes `validate()` and makes `save()` raise `TypeError`
  with the file already empty, where the docstring promises a boolean.
- `static.py:167`: "quotes imply a label", but the code compares the value instead of
  the method: a quoted value without a method is guessed.
- `ip.py:83`: when the rename command fails, the link that was brought down for it is
  not brought up again, whatever the comment at line 85 suggests.
- `accessor.py:282`: when a file is closed before its end, the server's 426 is raised in
  the next call, and `access()` returns `False` for a file that is there. `start()`
  does not reset `cleanup` after a lost connection, so that the first call on the next
  waits for a reply that never comes.
- `repository.py:237`: lines of the (binary) repository list are joined with names of
  files, which raises `TypeError`.
- `bootloader.py:271` catches `ValueError` and `KeyError`; a default past the last entry,
  or a menu without entries, raises `IndexError`.
- `accessor.py:325`: `access()` is to tell "where 'name' is an accessible object in the target"
  (64). The FTP accessor asks for the size first; a server that refuses, because it has no
  `SIZE` (500, 502) or, before the first `TYPE I` of a connection, none in ASCII mode (550), makes it
  answer `False` for a file that is there, which the list of line 327 would have named. Hence
  `sizes` in `AccessTruthful`.
- `bootloader.py:148-152`: a title with ` / ` in it gets the label `fallback`, so that of two
  such entries reading and committing writes the later one twice and loses the first
  (`tests/test_bootloader.py:38`: "Test read/write roundtrip"). `newDefault()` makes such a menu
  of `tests/data/grub.cfg` when the fallback entry is the default, because its copy has ` / ` in
  the title too. Hence `twins` in the properties of menus.
- `bootloader.py:193-197`: "Add boilerplate to read override entry from environment block if not
  present" (190). What is looked for is any line with `load_env`: a menu that reads the environment
  for another purpose gets no lines that look for `override_entry`, and `setNextBoot()` is
  without effect. Hence `obj.load` in `SetNextBoot`'s `wanted`.
- `dmv.py:216-226`: `variant_selected()` is to "return which driver is selected" (212), and
  returns the variant of the first module that is a link. A switch to a variant with fewer modules
  leaves the links of the others alone, and the variant of before may be reported.
- `cpiofile.py:1761`: for an empty file with several names, which `add()` writes,
  `extractall()` looks for data in all members; a stream is then at its end, `StreamError` (414)
  escapes, and the members after it are not extracted ("Extract all members", 1391).
- `bootloader.py:308-311`: a default that is not in the menu, because a program removed it, is
  written as the string of its label. If that is a number because the title has none, the next
  reader may give it to another entry, which is then the default; no documentation says what
  the string is for.
- `bootloader.py:426`: `newDefault()` back to a kernel that has a backup makes the next call take
  the backup for an entry of the current kernel: it gets the new kernel under a title that
  tells the version of the old one.
- `repository.py:404`: `getRepoVer()` finds no version on a medium with `xs:main` only;
  `XS_MAIN_IDENT` (221) is used nowhere.
- `accessor.py:156`: the `ro` of iso9660 is appended to the accessor's own list of options; no
  constructor in the module makes an accessor of which that would change the mode.
- `cpiofile.py:1418-1420`: `extractall()` joins the path of each directory to that of the one
  before; owner, mode and time are set on the first only (that is last in order), and the
  docstring (1391-1397) promises them for all.
- `cpiofile.py:1565-1568`: the names of hard links are remembered without the directory they were
  extracted to; a second extraction elsewhere links to a name that is not there, and loses them.
- `cpiofile.py:1761`: the search for the data of a hard link takes members from the iterator
  of `extractall()`, which leaves them out.
- `cpiofile.py:1481`: `extractfile()` asks `isreg()` before `islnk()`, and a hard link is a
  regular file: what it returns for a link without data is empty, where the docstring
  (1468) promises "the link's target".
- `dmv.py:282`: a manager that reads the list again merges into what it read before and
  reports the old selection; a manager that has read a file with `parse_dmv_file()` and
  is for a runtime raises `KeyError` when it merges; `exit_code` stays at `ENOENT` after
  a later success.

## 6. Not modelled, and the plan

Not modelled for good: `File` and `HTTP` accessors (no state but `lastError`), logging,
version comparison, `dom0`, `environ`, `xmlunwrap`, `biosdevname` parsing, PCI id
tables: stateless, pure input and output, or well served by unit tests. `OutputCache`
(`cmd.py`) has three operations on a dictionary and no caller in the library but its own
tests; its one trap, a result that was cached by a call that wanted no output
(`cmd.py:119`), is listed as a hazard.

The modules were written in this order, the most important behaviour first: the names
(`NicNames`, `RenamePlan`, `Rename`), carrying them out (`IpLink`, `CarriedOut`), the
memory (`DynamicRules`), the composition (`BootCycle`), then the accessors and
`Repository`, `StaticRules`, `Bootloader`, `DriverMultiVersion`, `CpioFile`. Next:

1. `StaticRules` in `BootCycle`: rules generated from formulae each boot.
2. `TempMount` (`mount.py`), `set_dmv_error()` and PCI matching (`dmv.py`).

What these need proved exists in parts: with `StaticRules` in `BootCycle`, that generated
rules are such as `rename()` accepts (today the assumption `BootCycleAssumption`) would follow
from `MadeAre` for formulae of which no two are about one nic.
