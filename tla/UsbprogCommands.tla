--------------------------- MODULE UsbprogCommands ---------------------------
(***************************************************************************)
(* The commands of usbprog: those of cli/commands.cc, which Usbprog::exec()*)
(* (cli/usbprog.cc) adds to the shell, and the three that the shell has of *)
(* its own (cli/shell.cc).  Of each what the shell asks it for: its names, *)
(* the number of its arguments, its options, what it offers to complete a  *)
(* word, and which words its execute() takes for an argument.              *)
(***************************************************************************)
EXTENDS CommandLine

CONSTANTS
  FirmwareNames,  \* Firmwarepool::getFirmwareNameList()
  PathNames,      \* words that Fileutil::isPathName(): files, and what has a "/" or "~"
  Numbers         \* the indices of the DeviceManager's list, as words

\* No firmware has the name that "download" takes for all of them.  That and what "cache"
\* takes are words like any other.
ASSUME UsbprogCommandsAssumption ==
  /\ FirmwareNames \cup PathNames \cup Numbers \subseteq Word
  /\ {<<"all">>, <<"clean">>, <<"delete">>} \subseteq Word
  /\ <<"all">> \notin FirmwareNames

-----------------------------------------------------------------------------
(* The classes                                                             *)

\* An argument is a string, and no command has two.
Command == [names : SUBSET Word, argNumber : {0, 1}, options : SUBSET Word]

\* What a class does not override: no aliases, no arguments, no options.
AbstractCommand(name) == [names |-> {name}, argNumber |-> 0, options |-> {}]

Aliased(command, aliases) == [command EXCEPT !.names = @ \cup aliases]
WithArgument(command) == [command EXCEPT !.argNumber = 1]

Exit_    == Aliased(AbstractCommand(<<"exit">>), {<<"q", "uit">>, <<"q">>, <<"x">>})
Help     == AbstractCommand(<<"help">>)
HelpCmd  == WithArgument(Aliased(AbstractCommand(<<"help", "cmd">>), {<<"?">>}))
Copying  == Aliased(AbstractCommand(<<"copying">>), {<<"license">>})
List     == Aliased(AbstractCommand(<<"list">>), {<<"firmware", "s">>})
Info     == WithArgument(Aliased(AbstractCommand(<<"info">>), {<<"firmware">>}))
Pin      == WithArgument(Aliased(AbstractCommand(<<"pin">>), {<<"pin", "s">>}))
Download == WithArgument(Aliased(AbstractCommand(<<"download">>), {<<"get">>}))
Cache    == WithArgument(AbstractCommand(<<"cache">>))
Devices  == AbstractCommand(<<"device", "s">>)
Device   == WithArgument(AbstractCommand(<<"device">>))
Upload   == [WithArgument(AbstractCommand(<<"upload">>))
               EXCEPT !.options = {<<Dash, "n", "ostart">>}]
Start    == AbstractCommand(<<"start">>)
Reset    == AbstractCommand(<<"reset">>)

\* Those of shell.h, and those of commands.h by what they work on.
BuiltIn == {Exit_, Help, HelpCmd}
FirmwareCommands == {List, Info, Pin}
CacheCommands == {Download, Cache}
DeviceCommands == {Devices, Device}
BoardCommands == {Upload, Start, Reset}

\* What exec() adds to those of the shell.
Commands ==
  BuiltIn \cup {Copying} \cup FirmwareCommands \cup CacheCommands
    \cup DeviceCommands \cup BoardCommands

Words == UNION {c.names : c \in Commands}
CommandOf(word) == CHOOSE c \in Commands : word \in c.names

\* addCommand() has no alias replace another command.
ASSUME NamesAreUnique ==
  /\ Commands \subseteq Command
  /\ \A c, d \in Commands : c.names \cap d.names # {} => c = d

-----------------------------------------------------------------------------
(* getCompletions(): for the first argument, as no command has another one *)

StartingWith(start, words) == {w \in words : IsPrefix(start, w)}

CompleteFirmware(start) == StartingWith(start, FirmwareNames)
CompleteDownload(start) == CompleteFirmware(start) \cup StartingWith(start, {<<"all">>})
CompleteCache(start) == StartingWith(start, {<<"clean">>, <<"delete">>})

\* Whatever the word starts with.
CompleteDevice == Numbers

\* A file is left to readline.
CompleteUpload(start) ==
  IF start # <<>> /\ start \in PathNames THEN {} ELSE CompleteFirmware(start)

CompleteOption(command, start) == StartingWith(start, command.options)

\* names: those of the shell's table.
CompleteArgument(command, start, names) ==
  CASE command \in {Info, Pin} -> CompleteFirmware(start)
    [] command = Download      -> CompleteDownload(start)
    [] command = Cache         -> CompleteCache(start)
    [] command = Device        -> CompleteDevice
    [] command = Upload        -> CompleteUpload(start)
    [] command = HelpCmd       -> StartingWith(start, names)

FileCompletion(command, start) == command = Upload /\ start # <<>> /\ start \in PathNames

-----------------------------------------------------------------------------
(* execute(): the arguments that are not refused with an ApplicationError  *)

TakenByInfo == FirmwareNames
TakenByDownload == {<<"all">>} \cup FirmwareNames
TakenByCache == {<<"clean">>, <<"delete">>}
TakenByDevice == Numbers
TakenByUpload == PathNames \cup FirmwareNames

Taken(command) ==
  CASE command \in {Info, Pin} -> TakenByInfo
    [] command = Download      -> TakenByDownload
    [] command = Cache         -> TakenByCache
    [] command = Device        -> TakenByDevice
    [] command = Upload        -> TakenByUpload
    [] command = HelpCmd       -> Words
=============================================================================
