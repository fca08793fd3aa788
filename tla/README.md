# USBprog tools: a verification project

USBprog is a USB programmer whose firmware can be exchanged: a small bootloader
("update mode") takes a new firmware over USB, page by page.  The programs of this
repository find the boards, keep a pool of firmwares that come from a server, and
write one of them to a board: `usbprog` (a shell), `usbprog-basic` (one command) and
`usbprog-gui` (Qt).

This directory holds TLA+ modules of that code, TLC configurations that check them on
small instances, and proofs for all instances.  `PROJECT.json` has, for every
definition that models code, the lines it stands for, and for every property a wrong
variant of a definition that breaks it.

    tlc -workers 2 -config MCDeviceManager.cfg MCDeviceManager
    tlapm DeviceManagerProofs.tla

## Inventory

| Component | State | Operations | Hard |
|---|---|---|---|
| `core::DeviceManager` (usbprog-core/devices.cc) | list of boards, selected index | discoverUpdateDevices, set/clear/getCurrentUpdateDevice, switchUpdateMode | the bus changes between and within operations, each libusb call may throw, the GUI runs timers in the sleeps |
| `core::UsbprogUpdater` (devices.cc) | handle, notifier | updateOpen, writeFirmware, startDevice, resetDevice, updateClose, destructor | transfers that fail after they arrived; who closes the handle |
| usbpp (v1.0, v0.1) | libusb's list and handles | detectDevices, open, claim, transfers, destructors | error codes and byte counts, an interface released on destruction |
| `Firmwarepool`, `Downloader` (usbprog/) | firmwares of the index, the files of the cache | downloadIndex, readIndex, downloadFirmware, fillFirmware, isFirmwareOnDisk, cleanCache, deleteCache | files that outlive the program, kills, a server that moves on, an event loop inside a download |
| commands (cli/commands.cc) | none of their own | list, info, download, cache, devices, device, upload, start, reset | the order of calls on manager, pool and updater, and what is left when one throws |
| `Shell` (cli/shell.cc), completion | command table, history | run, complete, addCommand | iterators, positions, lookups that insert, prompts within commands |
| tokenizer, option parser (stringutil.cc, libbw/optionparser.cc) | the options' values | tokenize, parse | quotes, arguments that look like options, permutation |
| usbprog-basic | none | list, upload | device numbers |
| main window (gui/) | combo box, firmware list, configuration | uploadFirmware, refreshDevices, downloadFirmware, cache operations | events within events, pointers kept over them |
| driver assistant, zadig, tempdir (gui/, usbprog/) | pages and buttons, files in a temporary directory, the working directory | download, start Zadig, cancel, destructors | replies that come later, programs that are killed or share a directory, what Windows does not remove |
| other dialogs (gui/) | - | - | layout, but event loops |
| configuration, ini, strings, util | values | parse, format, wrap | boundaries |
| dates (usbprog-core/date.cc, libbw/datetime.cc, its timegm) | timestamp, broken-down time | parse, print, compare, add, UTC or local | leap days, summer time, other libraries |
| digest, md5 | buffer, length | process, finish, check_digest | block boundaries |
| debug log and its menu entry; libbw: logs | levels, streams | direct, log, configure | dialogs and failures between opening and closing |
| libbw: serial files, temporary files, exit handlers | lock file | lock, unlock, clean up at exit | two processes, an exit in between |
| libbw: file and string helpers | - | - | - |

How they interact: a command or a slot of the window calls the manager, the pool and a
new updater one after the other in one thread.  There are no threads.  What looks
sequential is interleaved by (1) the bus and the boards, (2) Qt's event loop, which runs
inside `Downloader::download()` (with user input) and `QtSleeper::sleep()` (timers
only), (3) the end of the program at any time with the files left as they are, and
(4) the server, whose firmwares change without their URL changing.

What makes each component right:

- manager: an index means the board the user chose, or nothing; a board is listed once;
  the handle is closed before the board comes back; a switch ends and ends at a board in
  update mode;
- updater: what is called uploaded is in the flash, byte for byte; the handle is opened
  and closed in turn whichever call fails; the notifier hears of the end once;
- pool: once there is an index there always is one, none older and none broken; what is verified stays right; nothing good is
  lost to a failure; nothing broken stays behind;
- session and window: a command works on the board and on the firmware it names, however
  stale list, combo box and cache are;
- shell: a command gets the words the user meant for it, and a completion offers what
  the command will take;
- libbw's files: one process has the port, and what must go goes on every way out;
- driver assistant: what was downloaded is there, whole, until the assistant is closed,
  and the directory goes with it;
- digest: MD5 of the file's bytes, however they are read;
- dates: what is read is printed and ordered as it was, and additions move the clock by
  what is added;
- logs: a message goes where the log was directed, to a stream that is open.

The hazards behind this list, each with its line, are in `PROJECT.json`.

## Modules

| Module | Models | |
|---|---|---|
| `UsbBus` | boards, addresses, modes | external: as usbpp and devices.cc use libusb |
| `DeviceList` | the list of boards and its getters | extends `UsbBus` |
| `UpdateDevices` | what `core::DeviceManager` promises its clients | abstract, extends `DeviceList` |
| `DeviceManager` | `core::DeviceManager` | implements `UpdateDevices` |
| `FlashUpload` | what an upload promises | abstract |
| `UsbprogUpdater` | `core::UsbprogUpdater` and its callers | implements `FlashUpload` |
| `Firmwarepool` | `usbprog::Firmwarepool`, `Downloader`, the pool's callers | |
| `CliSession` | commands of usbprog on boards, usbprog-basic | composes `UpdateDevices` and the updater's calls |
| `GuiMainWindow` | the main window of usbprog-gui | composes `UpdateDevices`, the updater's calls and the cache |
| `CommandLine` | tokenizer, option parser | operators |
| `UsbprogCommands` | names, arguments, options, completions of the commands | operators, extends `CommandLine` |
| `Shell` | `cli::Shell`, the program's command line | extends `UsbprogCommands` |
| `SerialLock` | lock files, temporary files, exit handlers of libbw | |
| `DriverAssistant` | the driver assistant, `ZadigRunner`, `Tempdir` | |
| `Digest` | `check_digest()`, md5 | |
| `Dates` | `core::DateTime`, `bw::Datetime`, the bundled timegm | |
| `Logs` | the debug logs, the menu entry for it, `bw::Errorlog` | |

`MC...` gives a module its constants for TLC, with a `.cfg` for each run.
`MCLeftFiles` and `MCFirmware` each check several modules that share no state: a variable
`part` chooses one, and the state of the others stands still.  `...Proofs`
has the theorems of a module, `DeviceManagerProofs` the refinement of `UpdateDevices` too,
`ShellProofs` also those of `CommandLine`, and `HelpersProofs` those of `SerialLock`,
`DriverAssistant`, `Logs`, `Digest` and `Dates`.

### UsbBus, DeviceManager

`m_updateDevices` and `m_currentUpdateDevice` are the code's members (the index 0-based,
-1 for none).  `scan` holds the locals of a running `discoverUpdateDevices()`: its
caller, the list libusb gave, the position in it and the old list; one `ScanNext` is one
turn of the loop, `ScanFails` an exception of `getDescriptor()`, `ScanDone` the
comparison at the end.  `sw` holds the locals of a running `switchUpdateMode()`: one
action for each libusb call, for a turn of the loop of control transfers, for its sleeps, the
closing of the handle, the scan and the restoring of the index.  A device is what the
host knows of an enumerated board: the board itself, its address and its mode.
`operator==` compares the address and `UsbId[mode]` only, as the code compares bus,
device number, vendor and product and not bcdDevice.

Abstractions: names and labels are left out; a scan takes libusb's list at once (the
code does) and the bus stands still while the loop reads the descriptors that libusb has
cached; bus and device number are one address.

Assumption `FreshAddress`: an address is not handed out again while the program still
holds a device that had it.  Hosts number devices cyclically through 127 addresses, so
this fails only if one program sleeps through 127 enumerations between two scans.
`SelectionKeepsItsDevice` rests on it, and the code does too.

### UpdateDevices

The manager as a client sees it: a scan is one step and lists all the boards there are
to find, or, when it throws, some of them; a switch is "trying", during which the board may
restart (and, with Qt's sleeper, timers may scan), then "restore" between its
scan and the index it puts back.  `DeviceManager` implements it under the mapping
`listed`, `switching`: while a scan runs the client sees the old list.  The sessions are
built on this module, so that what they show holds of the detailed manager too.

### UsbprogUpdater

An updater lives on the stack of a command.  `updater.pc` is the call the command makes
next or the place in the one that runs; `After` has the order of calls of `upload`,
`upload -nostart`, `start` and `reset` (those of the GUI and of usbprog-basic are the
same as of `upload`).  Each transfer has an `Outcome`: it arrived or not, and the call
returned or threw; it may throw after it arrived, and v0.1 of usbpp treats a short
write as a success, which a bootloader sees as a message all the same.  The errors
"Device not opened", "Device still opened" and "Device already closed" are no actions:
`HandleProtocol` says that no command can run into them.

The bootloader is not in the repository.  It is modelled from what is sent: commands,
and after WRITEPAGE one page.  Assumption: it expects a command when it is configured;
otherwise an upload that broke off between a page number and its page would have the next
command taken for data, and nothing the host does could help.  Images fit the two
bytes of the page number (4 MiB); the code does not check that.

### FlashUpload

The promise: pages are written in order from page 0, no other page is touched, it may be
given up at any point, and it is "written" only when all of its pages are there.  The
mapping `upload` in `UsbprogUpdater` makes the image the sequence of its chunks and
counts as done what the loop has behind it.

### Firmwarepool

`index`, `newIndex` and `cache` are the files; `m_firmware` is the pool read from the
index (version 0: not in it), `data` what `fillFirmware()` read.  A file holds a version
or a part of one; `cache[n, v]` is the file with n's name and v's number, which need not
hold version v.  `gui` says which of the two programs it is that runs, or ran last:
they share the directory and take turns (`OtherProgram`).  `downloads` is the stack of
running `downloadFirmware()` calls: in `usbprog` one, in `usbprog-gui` several, as its
event loop takes the user's next click while a download waits.  Between the file's
opening and the end of the transfer lies `Arrives` or `TransferFails`, and then the check of
the digest.  A file that is removed while it is written lives on without a name
(`linked`).

The new index has two places to fail at.  A stream that could not open versions.xml.new is
not `bad()`: `DownloadIndex` then goes to "downloadNowhere", where nothing is written, and
`RenameIndex` takes whatever file of that name there was.  And `rename()` may fail, always
so on Windows when there is an index already, with nobody to notice: both files stay as
they are.

`Crash` ends the program anywhere; so does an `IOError` in the GUI, which only catches
`DownloadError` there.  Assumptions: a file that was opened can be written (the code does
not look at the stream's state); the digest tells versions and parts apart; one
program at a time uses the directory.

### CliSession

`pc` and `command` are where the running command is, `updater` its `UsbprogUpdater`: the
device and whether the handle is open.  Each command makes its calls one by one, and
boards come, go and restart between any two of them; a scan that throws ends the command
with the list it has left.  List and selection outlive commands, and `upload` scans only
when the list is empty.  `chosen` is history: the device that `device` has selected.  The
updater's calls are one step each; `UsbprogUpdater` has them in detail.  A process of
usbprog-basic is an `upload` with a manager of its own.  The words of a batch are
such a session too, as the shell runs them one after the other whichever of them failed.

### GuiMainWindow

A slot runs to its end before the next one, but for three places where it runs an event
loop: a download (clicks and timers), a sleep of `switchUpdateMode()` and a message box
(timers only).  `slots` is the stack of those that run; each knows where it is, what it
downloads, the device pointer it holds (`NoDevice` once a scan has deleted the object) and,
as history, whether it has been alone.  `devicesCombo` is the combo box by its number of entries
and whether the manager still has the list it was made from; `timers` are the pending
refreshes; `cache` has of each firmware nothing, a part or the whole.  `ended` says
how the program has ended by itself: an exception that leaves a slot ends it, as Qt has no
handler for it, and so do the assertion, a NULL and (perhaps) a freed object.

Reading a freed `Device` may give any mode or crash (`ModeRead`, `UploadCrashes`).
An upload that is nested in another one may select its own board, and the outer one then
goes on with that: this is why `AloneWritesRight` is about uploads without others in
them.  Abstractions: closing the window inside a nested loop is left out; the message box at
the end of an upload keeps its updater, and with it the handle, until it is closed;
`BusStep` is not interleaved with steps that do not look at the bus.

### CommandLine, UsbprogCommands, Shell

`Tokenize` is `ShellStringTokenizer`, with the states of `nextToken()`: `Reading(line)[n]` is
what it has after n characters.  `Line` is the other direction, how a user quotes words.
`Parse` is `OptionParser::parse()`, in the same way word by word (`Parsings`), with `getopt_long()` for short options: `Permute` is glibc's, which
goes on behind the first word that is no option; the bundled one stops there.
What a failed or cut-off parse leaves of the arguments is as the bundled code and the
`optind` of the loop have it.

`UsbprogCommands` has each command as a record of names, number of arguments and
options, as the classes' getters have them, with `CompleteArgument` for
`getCompletions()` and `Taken` for the arguments that `execute()` does not refuse.

`Shell` is in `pc`: "read" at the prompt, then for each command "lookup", the option
loop with its iterator (`it`), "arguments" with prompts for what is missing, "execute".
A completion may be asked for at any prompt of readline and changes `m_commands` when
its first word is unknown.  `LastOptionTaken` is the undefined behaviour of incrementing
past the end: it may end the loop, read an unsupported option, or crash.  A session starts
with the program's own arguments, from which `Configuration` and the batch are read.
`meant` is history: the words as the user meant them, against which `GetsItsWords`
holds what a command got.  `ReadCompleted` is a line that ends in a word the completion has
offered for an argument; `accepted`, history too, keeps that word and the position it
was offered for until `run()` is done with the line, so that `CompletesItsArgument` can
compare what `complete()` counted with what `run()` makes of the word: the two count in
different ways.  An offered word that would have to be quoted is left out, as readline puts it
in as it is.  At the prompt for an argument the completion is asked too (`AtPrompt`), but
knows nothing of the command that waits; `PromptOffersArgument` is about that.  Words are sequences of symbols, and a symbol is a run of
characters that nothing needs to tell apart: `Symbols` is the set of characters in the
proofs and TLC's `STRING` in the runs.

`UserAssumption` says that what is completed is a line with at least one word, with no more
words than a `size_t` counts, and that nothing in the word that is only begun would have to
be quoted: inside quotation marks readline breaks words in its own way, and the
completion of such a word is not modelled.  `ProgramAssumption` says that the program's
options before a batch are options with their arguments; the words of the batch may be
anything, options included.

### SerialLock

Processes open one port under /dev.  `createLock()` is two steps, the look for the file
and its creation; the steps of `openPort()`, `closePort()`, `TempFile` and of an exit,
which runs the handlers that are registered, follow.  `raced` is history: two processes
met between those two steps (the comment in serialfile_linux.cc concedes it) or the
file could not be written.  The number in a lock file, which the code does not read, is
the process that has written it last.

### Digest

A byte of a file is its position, and `consumed` stands for the state A to D: what was
given to `process_block()`, in order.  The rounds and the hexadecimal text are functions of
it.  `Word` is 2^32 in the code and 64 in the runs: the length's two words overflow
into each other within reach, with files below `Word` bytes as in the property.
`process_block()` carries one too much from the low word of `md_total` at 2^32 bytes
(`> MAX - n`, then `-= MAX - n`); no file of a programmer's firmware has that
size.  A read that fails throws a `std::string`, which nothing catches, where
digest.h:147 promises an `IOError`: it ends the program (`ReadFails`).

### DriverAssistant

`assistant[p]` is the assistant of a program: its page, its directory, the replies it
waits for, the step in which `downloadFinishedSlot()` is, and the members that
enable the buttons.  `files[d]` is what is in a directory, `zadigs` the
instances of Zadig that run, and `cwd` the working directory of a program, which
`startTool()` moves into the temporary one and back.  Names of directories are the
numbers of the draws from a generator that nobody seeds: each program draws the same
ones, and `mkpath()` is content with a directory that exists.  `alone` and `left` are
history: whether another program came into the directory, and which directories a
kill, a running Zadig or a program that is still inside keeps.

Windows is external: it does not remove a program that runs, a file that is open or a
directory somebody works in.  The contents of the ini file are left out; of the three
files only zadig.exe has its length checked.

### Dates

Times are minutes since 1970.  `Minutes`, `Broken`, `Mktime` are the C library's
(external), with fields out of their ranges, summer time, and the choice that `mktime()`
has in an hour that is there twice or not at all.  `build` says which functions the
library has: without `strptime()` the code reads with `sscanf()`, and without `timegm()`
it uses the one it brings along.  `wall` is history: the clock on the wall that was set
and moved as the `bw::Datetime` was, against which `AdditionsShown` holds what it shows;
`exact` says that this is a time there is.  `Summer` is the rule of summer time, which may be
any; in the run it is from April to September.

### Logs

Each singleton of the class `Debug` has a level and a stream, `logging` is the menu entry of the
window with its file dialog and `m_logfile`, and `errorlog` the instance of `Errorlog`.
Streams are numbered as `fopen()` gives them; `closed` and `unflushed` say what has become
of them, `logfiles` (history) which of them the menu entry has opened.
`m_closeInDtor` of `FileErrorlog` is never set, so that its destructor may close its
file, or stderr, or not.

## Runs

| Run | Question | Bounds |
|---|---|---|
| `device_manager` | do list, selection and handle stay right, does every switch end, is `UpdateDevices` implemented? | 2 boards, 4 addresses, 2 tries, timers in the sleeps; 1.6 million states |
| `wrong_board` | is the board that was switched the current one afterwards? (no) | 2 boards, the code's 5 tries |
| `firmware` | the pool: is there always an index, is what is uploaded right, is nothing good lost, does nothing broken stay? the updater: is a finished upload in the flash, is no handle lost, is `FlashUpload` implemented? is MD5 computed of the file? do dates stay what they were? do logs go where they were directed? | 2 firmwares (one without checksum), 2 versions, 2 nested downloads, any number of starts of both programs (257 000 states); pages of 2 bytes, 4 pages, images of 0 to 4 pages, full and partial last page (140 000); blocks of 8 bytes, words of 2 bytes, files of 0 to 26, 63, 64, 70 bytes, 8 sizes of reads; 16 starts and 7 additions, 4 calls; 3 files (214 000) |
| `pool_index` | is what becomes the index a file that was downloaded? (no) | the pool as in `firmware` |
| `pool_partial` | is a firmware that is on disk there as a whole? (no) | the pool as in `firmware` |
| `cli_session` | do commands work on bootloaders, on the board that was chosen, on devices that are there, and do they return? | 2 boards, 4 addresses, one application; 380 000 states |
| `gui_window` | do uploads write the right thing to the right board, and what can nesting break? | 2 boards, 3 addresses, 1 firmware, 2 nested slots, 2 timers; 1.4 million states |
| `gui_pointer` | is the device pointer valid when it is used after the download? (no) | as `gui_window` |
| `shell` | does each command get its words, does a completed word become the argument it was offered for, does everything end? | lines of up to 4 words with every command, batches of up to 5 words, 2 ways of quoting, glibc's getopt; 116 000 states |
| `shell_options` | are options and arguments always told apart? (no) | lines as in `shell` |
| `shell_prompt` | does the completion at the prompt for an argument offer what the command takes? (no) | lines as in `shell`, no batches |
| `left_files` | does one process have the port, does the assistant keep its files, and what is left behind? | 3 processes; or 2 programs with an assistant, one of which opens it twice; 4 million states |

Why these are enough: two boards give every order and every mix-up of an index; four
addresses let both boards be held in the old and the new list at once; two tries show a
failed try and a last one.  `Timeout` counts from 3 instead of 6 in the passing run, which
only shortens the loop.  Four pages are all that two two-valued bytes can name, so the
image that fills them reaches the last page number.  Two versions give an index older
than the server, and an obsolete file; a second nested download meets the first one on the
same file, on another, and after the cache was emptied.  In the window a second slot in
a first one is what makes a pointer, a selection or a file stale; a third one meets the
second as that meets the first.  The lines of `shell` have every command with no argument and one
too many, `upload` with its option, an unknown option, "--" and an empty word in any
order, and words that only quotes or backslashes keep together.  A third
process is what a lock that was taken away from the second could be taken by.  Two assistants of one program and one of another meet every way in which a directory
can be new, left, or somebody else's.  27
file sizes go three blocks beyond an empty buffer, and reads are shorter than a block, equal
to one and two, and in between.  The dates lie on both sides of leap days, of the end of a
century's last year, and of the beginning and end of summer time, 15 minutes from midnight,
and three additions go there and back again.  With three streams one can be the log
of errors, one the log file, and one closed.

Types are checked by the runs where they say more than sets (`shell`, and the assistant's in
`left_files`).  Those of the manager, the updater, the pool, the session, the window and the
serial locks, and `NoBoardTwice`, are proved, and TLC has no run for them.

The six violations are findings.

- `wrong_board`: `switchUpdateMode()` saves the index, scans for boards in update mode
  only, and restores the index, which by then counts another list; its own comment has a
  TODO about it.
- `pool_index`: `downloadIndex()` does not see that versions.xml.new could not be opened,
  downloads into nothing and then renames the part of an index that a killed program (of root,
  say) has left there.
- `pool_partial`: a firmware that was killed in its download is "on disk" for good
  and is uploaded unchecked.
- `gui_pointer`: `uploadFirmware()` keeps a `Device *` over a download, in which the
  user or a timer may refresh the list; devices.h says that it is valid until the next scan.
- `shell_options`: the loop in `Shell::run()` erases an option and then goes on by one,
  so that the next word escapes it.
- `shell_prompt`: `complete()` has only the line, which at the prompt for an argument is the
  argument alone: it offers the names of commands for it.

Deadlock is checked but where a program really ends, in the window and in the shell.  In
`firmware` a digest that is computed, a date that has had its calls and logs without more
files stand still by the step `Finished`.

What else in the documentation the code does not bear out, without a run of its own:
"cache delete" of usbprog.pod keeps the history, the code removes it; "cache clean" spares
old versions until the current one is on disk; `start` needs no selection, as the first
board in update mode stands in; optionparser.h:742 has `parse()` return false for invalid options,
and it always returns true; the pod has one syntax for interactive and batch use, but
in a batch `getopt_long()` takes `-nostart` for options of the program (modelled, and
excepted by `plain` in `GetsItsWords`); exithandler.h has `unregisterExitHandler()`
delete the handler, and it does not; `read_history()` returns a positive errno, so that
`ret < 0` in completion.cc:280 is never true; without `strptime()` date.cc reads the
hour into the minutes and the minutes into the hour; `operator+` of core::DateTime
subtracts (date.cc); `bw::Datetime::strptime()` passes the month on for the hour; the bundled
`timegm()` neither normalises nor accepts fields out of their ranges; zadigrunner.h speaks
of a signal terminated() that does not exist, and has the destructor of `ZadigRunner` delete the
directory, which `Tempdir`'s does; the debug log stays at its most verbose level when
its file cannot be opened.

## Fairness

- `SwitchReturns` (`FairSpec` of `DeviceManager`): weak fairness of the scan's loop and
  strong fairness of the switch's steps: the program runs on, and libusb calls return
  (the code gives the transfers a timeout of a second).  It is strong because the refresh
  timer may run a scan in a sleep of the switch again and again; each scan ends, and the
  sleep after it, so the switch is enabled infinitely often and its elapsed time ends it.
- `CommandReturns` (`FairSessionSpec`): weak fairness of the running command's next step.  The
  calls it waits for end by the same timeouts, and a switch by `SwitchReturns`.
- `BoxRefreshed` (`FairWindowSpec`): slots go on, and every event loop serves a timer that
  has expired, which Qt does.  Strong, as the loops come and go.
- `RunEnds` (`FairSpec` of `Shell`): the command that runs goes on; the user need not come
  back, and whoever waits for him at a prompt is not required to get an answer.

Nothing is assumed of the user, the timer's time, the boards or the bus.  The network has
no fairness either: a download may wait for ever, as `Downloader::download()` does, and
no property says otherwise (`BoxRefreshed` does not need its end, as the loop of a
download serves timers).

## Proofs

The proof modules prove every safety property of the passing runs, for any lines, batches and commands' names, any number of boards, modes, addresses and tries, any page size,
page-number base and set of images, any firmwares and versions, any depth of downloads and
slots within each other, any set of processes, any number of directories and log files, and files, pieces and blocks of
any size, and any dates, additions, time zone and rule of summer time.

- `DeviceManagerProofs`: `IInv` is the types, `NoBoardTwice`, and what a running scan and a
  running switch know: the list is a part of what was read of libusb's list, which has
  each board once (`ScanInv`), and the scan of a switch lists only boards in update mode
  (`SwitchInv`).  `NoBoardTwice` alone is not inductive: it says nothing of the part of
  libusb's list that is still to come.  `SelectionKeepsItsDevice` needs `AddressInv`
  beside it: lists that compare equal are equal only because two devices the host knows of
  never share an address.  This is proved as `AddressNamesDevice`; its core is that a
  board that is plugged in gets an address nobody holds.
  The refinement: every step of the manager is a step of `UpdateDevices` or a
  stutter.  The turns of a scan are stutters, its end is the scan; for that the invariant
  `RunningScan` says that the list so far is what was recognised of the bus as it still is,
  and `KeptIndex` that the index a switch will put back is the selection after its scan.
- `UpdateDevicesProofs`: `UDInv`, what every client may rely on: types, one address one
  device, and what a switch has left in the list.  The two sessions' proofs use its lemmas
  for each call they make.
- `CliSessionProofs`: `IInv` adds where each command is (`Flow`), that the choice is
  still what the index means (`ChosenTracked`), and that whatever is written to was in
  update mode when it was listed (`UpdaterInv`).  `WritesReachBootloaders` follows because
  a board at the address where it was listed is in the mode in which it was listed: who
  restarts gets another address.
- `GuiMainWindowProofs`: `IInv` speaks of the whole stack: slots below the top are
  downloads and no longer alone (`Nested`), a part of a firmware on disk has a slot
  writing it (`PartFetched`), and only the slot on top knows anything of the
  manager (`TopInv`).  Lemmas on pushing, popping and touching stacks carry it over
  slots that come and go at any depth.
- `UsbprogUpdaterProofs`: `WriteInv` says that at the head of the loop the pages before the
  current one are the image's chunks, that `i` is `page` pages of bytes, and that a
  bootloader that is still there waits for the page that was announced last.
  `ImageWritten` follows where the loop ends, as the last chunk begins within
  the image.  The refinement maps every step to a `FlashUpload` step or a stutter.
- `FirmwarepoolProofs`: `IInv` is the types, all the pool's invariants, and four parts
  they need.  `CallsInv` says that only the innermost call may be past its transfer, and
  that each call is for the version of the index: without it a file that is being checked
  could be written by an outer call, and `DownloadVerified` would speak of another file than
  the one that was checked.  `MemoryInv` says that nothing was read from the cache before
  the index was, so that a new index cannot make what is in memory old.  `CliInv` says that
  in usbprog the file of a transfer holds a part: with it `GoodFilesStay` knows that a
  transfer that ends or fails takes no good file.  `IndexInv` says where a part of an index comes from, a
  running download or a program that was killed, and that a new index is never older than the one it
  replaces, as neither is newer than the server's: `IndexKept`, which is about steps,
  follows from it.  `UploadIsRight` follows from
  `CacheRight` and `PartialOnlyIfKilled`, as in usbprog no download is under way when
  the user calls, whatever usbprog-gui has left in the cache before.
- `HelpersProofs`, of five components that share nothing.  Of `SerialLock`:
  `HandlersKnow` says that a handler is registered exactly as long as its process holds the
  lock, and `HolderHasLock` extends `OpenerHasLock` to the time from `createLock()` on.
  Of `DriverAssistant`: `FilesKept` speaks only of finished downloads; `Written` says of
  every write which files are there before it, `Sound` that nobody can ask for a second
  download, whose reply would write zadig.exe anew, and `Alone` that the directory of an
  assistant that is alone exists and is nobody else's, so that no other program's step
  touches it.  Of `Logs`: streams are numbered as they are opened, and no stream in use or
  closed is still to be opened (`StreamsOpened`), so that a new file is neither closed nor
  the other log's.  Of `Digest`: `DigestInv` says that the bytes consumed are whole blocks, that
  they and the buffer are the bytes read so far, and that `md_total` is their number below
  2^32 (`WholeBlocks`, `Counts`, `Fed`).  `MD5ProcessIs` keeps this for a piece of any size:
  it follows the three ways bytes take through `md5_process()`, and that what is left
  is less than a block or exactly one.  `MD5FinishIs` then gives the padding of RFC 1321, which `PadIs`
  shows to be the only one that fits, and `PaddedDiffer` that another size is padded
  otherwise, so that only the right file is called right.
  Of `Dates`: `ClockInv` is the types and `AdditionsShown`; what it takes is the calendar.
  `YearFits` and `OneMonth` say that a day is in one year and in one month of it, from which
  `BrokenIs` and `ShownAgain` have it that a struct tm in its ranges and its time determine each
  other.  `BundledIs`: the bundled `timegm()`, which adds up years and months in loops, counts
  the days that the library's closed formula does, from 1970 on.  `MktimeIs`: whatever
  `mktime()` chooses, local time shows what was asked for if that hour is there at all.
  For `DateTextKept`, `Century` says that a year read from two digits has the leap days of
  the year that was meant, so that the date is still one, and `TextRead` that what is read
  is the text's own time in standard time; in summer it is an hour later, which changes no
  date as a date without a time of day is at midnight.
  The attempt showed that `AdditionsShown` had to be restricted: the bundled `timegm()` takes
  all years before 1970 for 1970, which the dates of the run had not met (now they do).
- `ShellProofs` begins with what the functions of `CommandLine` compute, for every input.
  `TokenizeLine`: words that were written with quotation marks or backslashes come out as
  they were; `TokenizeHalfLine`: so do the words before one that is only begun.
  Behind both is one lemma on a step, `EscapedRead`: each character as it is written moves
  the tokenizer to where the character alone belongs.  `WordsLeft`: behind the program's
  options the parser leaves a batch that is sheltered from it as it is.  `PositionIs`: the
  position that `complete()` counts, with all its decrements of a `size_t`, is the number of
  the arguments before.
  `IInv` then follows `run()` through a command.  `Typing` and `Steps` say what is where (the
  iterator at the beginning but in the option loop, no words left at the prompt).  `Table`:
  the table has every command, and anything else in it is NULL and was asked for by a
  completion (`unknown`).  `Flow` is why `GetsItsWords` holds in the end: at each step of a plain
  command the words that are left, with those already taken, are the words that are meant;
  in the option loop (`OptionsRead`) nothing or exactly one option has been taken, which is
  where a second one would be passed over.  `GetsItsWords` alone is not inductive, as it
  speaks of "execute" only.  `CrashIsEnd` and `Offers` carry what a
  later step does not touch.  `Accepts` follows a completed word through `run()` for
  `CompletesItsArgument`: behind the words of its line, which `Flow` keeps apart, it is at the
  position `complete()` counted (`PositionIs`, `AfterOptionsAppend`), and stays there while
  options and arguments are taken before it.  `BatchRunsAll` needs none of this, but the whole of `Next`.

The assumptions are the named ASSUMEs of the modules; TLC evaluates them in the runs.

The library's rules of induction take a predicate as a parameter, which the provers cannot
instantiate.  What functions compute along a line is proved without them: `Induction` and
`UpTo` are stated for a set of numbers, from the fact that a set of numbers has a least
one (`WFMin`), and the functions of `CommandLine` are recursive in a number, so that
`Recursion` gives each of their values from the one before.

Only model-checked: liveness (`SwitchReturns`, `CommandReturns`, `BoxRefreshed`,
`RunEnds`), which is beyond the prover.  What the C library and libusb do is modelled, not proved.

## Not modelled

- Output, help texts and layout; what `list`, `info`, `pin` and `copying` print.
- Dialogs but for their event loops, and the driver assistant's.
- XML and the names of files in the cache, ini files, paths, wrapping of text:
  sequential code without state whose formats no property is about.
- Formatting of `bw::Datetime`, and seconds; the rounds of MD5; long options and integers
  in `OptionParser`.
- usbpp's memory management (its lists are replaced as a whole by each scan, and nothing
  uses a handle of an old list but the switch, which has opened it before) and `lsusb`.
- Reading, writing and the settings of serial ports; `deleteIndex()`, which has no caller.
- A full disk and two programs at the same time in one cache directory: listed as
  hazards, as the code promises nothing there.
- The file and string helpers of libbw, which the programs hardly use.

## Plan

Done: `UsbBus` to `Firmwarepool` with their proofs; `UpdateDevices` and the refinement; the
two sessions over it with their proofs; `SerialLock`,
`DriverAssistant`, `Logs`, `Digest` and `Dates` with their proofs; `Shell`, the tokenizer and
the parser with theirs.

What could follow: a disk that fills up in `Firmwarepool` (`IndexArrives` and `Arrives`
with a part, unnoticed), with what then still holds; `SharedPool`, two pools over one
directory at the same time; the file names of the cache as pure operators.
