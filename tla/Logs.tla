-------------------------------- MODULE Logs --------------------------------
(***************************************************************************)
(* The logs of a program: the debug log (core::Debug in                    *)
(* usbprog-core/debug.cc and the class bw::Debug of libbw/log/debug.cc,    *)
(* which differs in its flushing only) with the menu entry of usbprog-gui  *)
(* that directs it to a file, and the log of errors of libbw               *)
(* (libbw/log/errorlog.cc, fileerrorlog.cc, syserrorlog.cc), which the     *)
(* programs leave unconfigured and another client of libbw configures.     *)
(***************************************************************************)
EXTENDS Integers

CONSTANT MaxStreams  \* bound: calls of fopen()

ASSUME LogsAssumption == MaxStreams \in Nat

VARIABLES
  debug,      \* the two singletons: m_debuglevel and m_handle
  logging,    \* the menu entry: checked, its file dialog, m_logfile
  errorlog,   \* Errorlog::m_instance
  syslog,     \* what openlog() and closelog() have done last
  opened,     \* how many streams fopen() has given
  closed,     \* the streams that were closed
  unflushed,  \* the streams that have messages in their buffer
  logfiles    \* history: the streams that the menu entry has opened

logs == <<debug, logging, errorlog, syslog, opened, closed, unflushed, logfiles>>

\* FILE *: the streams of the process have negative numbers.
stderr == -2
stdout == -1
NULL == 0

\* Debug::Level
TRACE == 0
INFO == 20
NONE == 100
Levels == {TRACE, 10, INFO, NONE}

-----------------------------------------------------------------------------
(* Debug                                                                   *)

\* Debug::setFileHandle()
Handle(stream) == IF stream = NULL THEN stderr ELSE stream

\* (A wrong variant: the core's log is not flushed either.)
VmsgBuffered(d, level) ==
  /\ level >= debug[d].level
  /\ unflushed' = unflushed \cup ({debug[d].handle} \ {stderr})
  /\ UNCHANGED <<debug, logging, errorlog, syslog, opened, closed, logfiles>>

\* Debug::vmsg(); stderr has no buffer.
Vmsg(d, level) ==
  /\ level >= debug[d].level
  /\ unflushed' = IF d = "core" THEN unflushed \ {debug[d].handle}
                  ELSE unflushed \cup ({debug[d].handle} \ {stderr})
  /\ UNCHANGED <<debug, logging, errorlog, syslog, opened, closed, logfiles>>

\* A client of libbw directs its debug log.
DirectDebug(level, stream) ==
  /\ debug' = [debug EXCEPT !["bw"] = [level |-> level, handle |-> Handle(stream)]]
  /\ UNCHANGED <<logging, errorlog, syslog, opened, closed, unflushed, logfiles>>

-----------------------------------------------------------------------------
(* enableDebugging() and setDebugLoggingEnabled()                          *)

\* (A wrong variant: the handle stays.)
DisableKeepingHandle ==
  /\ debug' = [debug EXCEPT !["core"].level = INFO]
  /\ closed' = closed \cup ({logging.logfile} \ {NULL})

Disable ==
  /\ debug' = [debug EXCEPT
       !["core"] = [level |-> INFO, handle |-> IF logging.logfile = NULL THEN @.handle ELSE Handle(NULL)]]
  /\ closed' = closed \cup ({logging.logfile} \ {NULL})

\* enableDebugging(true) asks for a file first, in an event loop.
LoggingChecked ==
  /\ ~logging.dialog /\ ~logging.checked
  /\ logging' = [logging EXCEPT !.checked = TRUE, !.dialog = TRUE]
  /\ UNCHANGED <<debug, errorlog, syslog, opened, closed, unflushed, logfiles>>

\* enableDebugging(false), or no file was chosen.
LoggingUnchecked ==
  /\ logging.checked
  /\ logging' = [checked |-> FALSE, dialog |-> FALSE, logfile |-> NULL]
  /\ Disable
  /\ UNCHANGED <<errorlog, syslog, opened, unflushed, logfiles>>

LogfileChosen ==
  /\ logging.dialog /\ opened < MaxStreams
  /\ opened' = opened + 1
  /\ logging' = [logging EXCEPT !.dialog = FALSE, !.logfile = opened']
  /\ debug' = [debug EXCEPT !["core"] = [level |-> TRACE, handle |-> opened']]
  /\ logfiles' = logfiles \cup {opened'}
  /\ UNCHANGED <<errorlog, syslog, closed, unflushed>>

\* The level has been set before fopen() fails.
LogfileFails ==
  /\ logging.dialog
  /\ logging' = [checked |-> FALSE, dialog |-> FALSE, logfile |-> NULL]
  /\ debug' = [debug EXCEPT !["core"].level = TRACE]
  /\ UNCHANGED <<errorlog, syslog, opened, closed, unflushed, logfiles>>

-----------------------------------------------------------------------------
(* Errorlog                                                                *)

NoLog == [method |-> "none", stream |-> NULL, closeInDtor |-> FALSE]

FileErrorlog(stream) ==
  \* m_closeInDtor is what the memory was.
  \E closeInDtor \in BOOLEAN :
    errorlog' = [method |-> "file", stream |-> stream, closeInDtor |-> closeInDtor]

\* new FileErrorlog(filename), which falls back to stderr, or new SysErrorlog(ident)
NewLog ==
  \/ \E stream \in {stderr, stdout} : FileErrorlog(stream) /\ UNCHANGED opened
  \/ opened < MaxStreams /\ opened' = opened + 1 /\ FileErrorlog(opened')
  \/ errorlog' = [NoLog EXCEPT !.method = "syslog"] /\ UNCHANGED opened

\* delete m_instance, which closes the stream if m_closeInDtor happens to be set
DeleteLog == closed' = IF errorlog.closeInDtor THEN closed \cup {errorlog.stream} ELSE closed

\* (A wrong variant: the new log is there before the old one goes.)
ConfigureNewFirst ==
  /\ NewLog /\ DeleteLog
  /\ syslog' = IF errorlog.method = "syslog" THEN "closelog"
               ELSE IF errorlog'.method = "syslog" THEN "openlog" ELSE syslog
  /\ UNCHANGED <<debug, logging, unflushed, logfiles>>

\* The destructor of a SysErrorlog calls closelog(), its constructor openlog().
SysErrorlog ==
  syslog' = IF errorlog'.method = "syslog" THEN "openlog"
            ELSE IF errorlog.method = "syslog" THEN "closelog" ELSE syslog

\* Errorlog::configure()
Configure ==
  /\ DeleteLog /\ NewLog /\ SysErrorlog
  /\ UNCHANGED <<debug, logging, unflushed, logfiles>>

\* BW_ERROR(): before configure() nothing is logged.
LogError ==
  /\ errorlog.method # "none"
  /\ unflushed' = unflushed \ {errorlog.stream}
  /\ UNCHANGED <<debug, logging, errorlog, syslog, opened, closed, logfiles>>

-----------------------------------------------------------------------------
\* -D has been given, or not.
LogsInit ==
  /\ \E level \in {TRACE, NONE} :
       debug = [d \in {"core", "bw"} |->
                  [level |-> IF d = "core" THEN level ELSE NONE, handle |-> stderr]]
  /\ logging = [checked |-> FALSE, dialog |-> FALSE, logfile |-> NULL]
  /\ errorlog = NoLog /\ syslog = "closelog"
  /\ opened = 0 /\ closed = {} /\ unflushed = {} /\ logfiles = {}

LogsNext ==
  \/ \E d \in {"core", "bw"}, level \in Levels : Vmsg(d, level)
  \/ \E level \in Levels, stream \in {NULL, stdout} : DirectDebug(level, stream)
  \/ LoggingChecked \/ LoggingUnchecked \/ LogfileChosen \/ LogfileFails
  \/ Configure \/ LogError

LogsSpec == LogsInit /\ [][LogsNext]_logs

-----------------------------------------------------------------------------
(* Properties                                                              *)

\* The debug log of usbprog-gui goes to the file that was chosen as long as the menu entry
\* is checked, with every level, and otherwise to stderr, whatever dialogs were cancelled
\* and files could not be opened before, and while a dialog asks for the file it stays
\* where it was.  It never goes to a file that was closed or leaves a message in a buffer,
\* where a kill would lose it, and every file but the current one has been closed.
DebugLogKept ==
  LET core == debug["core"]
  IN  /\ logging.checked /\ ~logging.dialog <=> logging.logfile # NULL
      /\ core.handle = Handle(logging.logfile)
      /\ logging.logfile # NULL => core.level = TRACE
      /\ core.handle > 0 => core.handle \notin closed \cup unflushed
      /\ logfiles \ {logging.logfile} \subseteq closed

\* What is logged as an error goes to the log configured last: to the system's log, under
\* the program's name, exactly while that is what was configured, and else to a file that
\* is open, even if the destructors of earlier logs close theirs by chance.  Only stderr and
\* stdout can be closed under it so.  Nor is it the stream of the debug log's file (that the
\* same path may be opened twice is not modelled).
ErrorsReachLog ==
  /\ errorlog.method = "syslog" <=> syslog = "openlog"
  /\ errorlog.method = "file" => errorlog.stream \notin closed \/ errorlog.stream < 0
  /\ errorlog.stream # NULL => errorlog.stream # logging.logfile
=============================================================================
