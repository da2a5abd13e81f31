------------------------------- MODULE Daemon -------------------------------
(***************************************************************************)
(* The life of a keyfrog process around its storage: main() in keyfrog.cpp *)
(* and Daemon.  The constructor of Daemon reads the configuration, then it *)
(* creates the StorageManager, and with it the commiter thread; only then  *)
(* run() forks into the background, connects to the X server, starts the   *)
(* thread of the process monitor and enters the loop that counts key       *)
(* presses.                                                                *)
(*                                                                         *)
(* fork() gives the child one thread, the one that called it, and a copy   *)
(* of the memory, mutexes included; the parent calls exit(0).  The process *)
(* of this module is the one that goes on.                                 *)
(*                                                                         *)
(* connectXserver opens two connections one after the other, asks the      *)
(* first for the RECORD extension and a context, and enables the context   *)
(* on the second.  The X server may stop, and another one start, between   *)
(* any two of these calls.                                                 *)
(***************************************************************************)
EXTENDS StorageManager

CONSTANTS Modes,     \* values that daemonMode may have: FALSE is --nb
          MaxXStops  \* bound: how often the X server stops

ASSUME ModesAssumption == Modes \subseteq BOOLEAN /\ MaxXStops \in Nat

VARIABLES daemonMode,   \* Options::daemonMode()
          display,      \* --display was given
          home,         \* HOME is set
          phase,        \* how far the main thread is
          threads,      \* living threads besides the main thread
          configDir,    \* there is a directory ~/.keyfrog
          config,       \* the file in it: "none", "bad" or "good"
          ctrlDisplay,  \* connection for requests: "closed", "open" or "broken"
          dataDisplay,  \* connection for the recorded events
          m_xConnected, \* EventMonitorX11::connect succeeded
          xServer,      \* see XServers
          xStops        \* how often it stopped

optionVars == <<daemonMode, display, home>>
configVars == <<configDir, config>>
connectionVars == <<ctrlDisplay, dataDisplay, m_xConnected>>
serverVars == <<xServer, xStops>>
daemonVars == <<optionVars, phase, threads, configVars, connectionVars, serverVars>>
allVars == <<vars, daemonVars>>

\* "record" is what keyfrog needs; "bare" is one without the RECORD extension, and
\* "full" one that takes no more clients.
XServers == {"down", "bare", "full", "record"}
Displays == {"closed", "open", "broken"}

\* In the first two phases there is no StorageManager yet.
Phases == {"configure", "storage", "main", "run", "connect", "monitor", "loop", "dead"}

-----------------------------------------------------------------------------
(* The constructor of Daemon                                               *)

\* createDefaultConfig makes the directory, if that is missing and can be made;
\* its result is ignored.  readConfig then finds a document that it can use.
ReadConfig ==
    /\ phase = "configure"
    /\ home /\ config = "good"
    /\ phase' = "storage"
    /\ UNCHANGED <<vars, optionVars, threads, configVars, connectionVars, serverVars>>

\* Without HOME the constructor throws; a document that is not there is
\* dereferenced all the same, and a bad one ends the process in one of the ways
\* of module ConfigReader.  The directory is there from the first attempt on.
NoConfig ==
    /\ phase = "configure"
    /\ ~(home /\ config = "good")
    /\ configDir' \in {configDir, configDir \/ home}
    /\ phase' = "dead"
    /\ UNCHANGED <<vars, optionVars, threads, config, connectionVars, serverVars>>

\* new StorageManager, whose commiter runs from now on, and its connect().
CreateStorage ==
    /\ phase = "storage"
    /\ Restart
    /\ threads' = {"commiter"}
    /\ phase' = "main"
    /\ UNCHANGED <<optionVars, configVars, connectionVars, serverVars>>

-----------------------------------------------------------------------------
(* main() and run(), up to the loop                                        *)

\* main() without --display goes straight to daemon.run().
MainOptions ==
    /\ phase = "main" /\ ~display
    /\ phase' = "run"
    /\ UNCHANGED <<vars, optionVars, threads, configVars, connectionVars, serverVars>>

\* Slip: run() forks with --nb as well.
RunAlwaysForks ==
    /\ phase = "run"
    /\ threads' = {}
    /\ phase' = "connect"
    /\ UNCHANGED <<vars, optionVars, configVars, connectionVars, serverVars>>

\* Slip: the child makes itself a new, unlocked mutex.
RunUnlocks ==
    /\ phase = "run"
    /\ threads' = IF daemonMode THEN {} ELSE threads
    /\ m_cache_mutex' = "free"
    /\ phase' = "connect"
    /\ UNCHANGED <<storageVars, running, mainVars, commiterVars, historyVars,
                   optionVars, configVars, connectionVars, serverVars>>

\* run() up to the connection: in daemon mode, daemonize().
Run ==
    /\ phase = "run"
    /\ threads' = IF daemonMode THEN {} ELSE threads
    /\ phase' = "connect"
    /\ UNCHANGED <<vars, optionVars, configVars, connectionVars, serverVars>>

\* connectXserver is called by main() with --display, else by run().
Connecting == IF display THEN phase = "main" ELSE phase = "connect"

\* Where the caller of connectXserver goes on.
Connected == phase' = IF display THEN "run" ELSE "monitor"

\* Slip: connectXserver tries only once.
OpenCtrlOnce ==
    /\ Connecting /\ ctrlDisplay = "closed"
    /\ \/ xServer \in {"bare", "record"} /\ ctrlDisplay' = "open" /\ UNCHANGED phase
       \/ xServer \in {"down", "full"} /\ Connected /\ UNCHANGED ctrlDisplay
    /\ UNCHANGED <<vars, optionVars, threads, configVars, dataDisplay, m_xConnected,
                   serverVars>>

\* EventMonitorX11::connect: XOpenDisplay.  When it fails connect returns false,
\* and connectXserver tries again after 60 seconds.
OpenCtrlDisplay ==
    /\ Connecting /\ ctrlDisplay = "closed"
    /\ xServer \in {"bare", "record"}
    /\ ctrlDisplay' = "open"
    /\ UNCHANGED <<vars, optionVars, phase, threads, configVars, dataDisplay,
                   m_xConnected, serverVars>>

\* The second XOpenDisplay; when it fails the first connection is closed, and
\* connectXserver tries again.
OpenDataDisplay ==
    /\ Connecting /\ ctrlDisplay # "closed" /\ dataDisplay = "closed"
    /\ \/ /\ xServer \in {"bare", "record"}
          /\ dataDisplay' = "open"
          /\ UNCHANGED ctrlDisplay
       \/ /\ xServer \in {"down", "full"}
          /\ ctrlDisplay' = "closed"
          /\ UNCHANGED dataDisplay
    /\ UNCHANGED <<vars, optionVars, phase, threads, configVars, m_xConnected, serverVars>>

\* Slip: the extension is asked for on the other connection.
SetupOnDataDisplay ==
    /\ Connecting /\ ~m_xConnected
    /\ dataDisplay = "open" /\ xServer # "bare"
    /\ m_xConnected' = TRUE
    /\ UNCHANGED <<vars, optionVars, phase, threads, configVars, ctrlDisplay, dataDisplay,
                   serverVars>>

\* setupRecordExtension: ctrlDisplay answers all its requests.
SetupRecordExtension ==
    /\ Connecting /\ ~m_xConnected /\ dataDisplay # "closed"
    /\ ctrlDisplay = "open" /\ xServer # "bare"
    /\ m_xConnected' = TRUE
    /\ UNCHANGED <<vars, optionVars, phase, threads, configVars, ctrlDisplay, dataDisplay,
                   serverVars>>

\* start() enables the context on dataDisplay, and connectXserver is done.
StartRecording ==
    /\ Connecting /\ m_xConnected
    /\ dataDisplay = "open"
    /\ Connected
    /\ UNCHANGED <<vars, optionVars, threads, configVars, connectionVars, serverVars>>

\* Slip: the test of m_xConnected the wrong way round.
NotConnected ==
    /\ phase = "connect" /\ ~m_xConnected
    /\ phase' = "monitor"
    /\ UNCHANGED <<vars, optionVars, threads, configVars, connectionVars, serverVars>>

\* if(!m_xConnected): with --display main() has connected.
AlreadyConnected ==
    /\ phase = "connect" /\ display /\ m_xConnected
    /\ phase' = "monitor"
    /\ UNCHANGED <<vars, optionVars, threads, configVars, connectionVars, serverVars>>

\* The thread of ProcessMonitor::eventLoop, and the first process tree.
StartMonitor ==
    /\ phase = "monitor"
    /\ threads' = threads \cup {"processMonitor"}
    /\ phase' = "loop"
    /\ UNCHANGED <<vars, optionVars, configVars, connectionVars, serverVars>>

-----------------------------------------------------------------------------
(* The loop, and the commiter as far as it is alive                        *)

LoopKeyPress ==
    /\ phase = "loop"
    /\ dataDisplay = "open"
    /\ \E g \in Groups, t \in Times : AddKeyPress(g, t)
    /\ UNCHANGED daemonVars

LoopCacheAdd == CacheAdd /\ UNCHANGED daemonVars

CommiterThread ==
    /\ "commiter" \in threads
    /\ Commiter
    /\ UNCHANGED daemonVars

KeyvisChart == (DrawChart \/ EndChart) /\ UNCHANGED daemonVars

-----------------------------------------------------------------------------
(* Ends and new beginnings                                                 *)

\* What a process that died leaves of itself.
Gone == /\ phase' = "dead"
        /\ threads' = {}
        /\ ctrlDisplay' = "closed" /\ dataDisplay' = "closed" /\ m_xConnected' = FALSE
        /\ UNCHANGED <<optionVars, configVars, serverVars>>

Killed == \/ Kill /\ Gone
          \/ phase \in {"configure", "storage"} /\ Gone /\ UNCHANGED vars

Crashed == "commiter" \in threads /\ CommiterCrash /\ Gone

\* The next request of the main thread is for a connection that is broken.
BrokenInUse == \/ /\ Connecting /\ ~m_xConnected
                  /\ ctrlDisplay = "broken"
                  /\ dataDisplay = "closed" => xServer = "down"
               \/ /\ phase = "loop" \/ (Connecting /\ m_xConnected)
                  /\ dataDisplay = "broken"

\* Xlib ends the process.
XIOError == /\ BrokenInUse
            /\ pending = NoKey
            /\ Kill
            /\ Gone

\* The exceptions of setupRecordExtension and start(), which nobody catches: there
\* is no RECORD extension, or something cannot be allocated.
NoRecording == /\ Connecting
               /\ ctrlDisplay = "open" /\ dataDisplay = "open"
               /\ Kill
               /\ Gone

\* The exception of run(): fork() failed, or /dev/null could not be opened.
NotDaemonized == /\ phase = "run" /\ daemonMode
                 /\ Kill
                 /\ Gone

Broken(connection) == IF connection = "open" THEN "broken" ELSE connection

\* The bound on deaths leaves room for the XIOError.
XServerStops == /\ xServer # "down"
                /\ xStops < MaxXStops
                /\ deaths < MaxKills
                /\ xServer' = "down"
                /\ xStops' = xStops + 1
                /\ ctrlDisplay' = Broken(ctrlDisplay)
                /\ dataDisplay' = Broken(dataDisplay)
                /\ UNCHANGED <<vars, optionVars, phase, threads, configVars, m_xConnected>>

XServerStarts == /\ xServer = "down"
                 /\ xServer' \in {"record", "bare"}
                 /\ UNCHANGED <<vars, optionVars, phase, threads, configVars,
                                connectionVars, xStops>>

\* Other clients take the last places, and leave them.
XServerFills == /\ xServer \in {"record", "full"}
                /\ xServer' = IF xServer = "full" THEN "record" ELSE "full"
                /\ UNCHANGED <<vars, optionVars, phase, threads, configVars,
                               connectionVars, xStops>>

\* The user copies a config file into the directory.
WriteConfig == /\ configDir /\ config # "good"
               /\ config' \in {"bad", "good"}
               /\ UNCHANGED <<vars, optionVars, phase, threads, configDir,
                              connectionVars, serverVars>>

Launch == /\ phase = "dead"
          /\ daemonMode' \in Modes
          /\ display' \in BOOLEAN
          /\ home' \in BOOLEAN
          /\ phase' = "configure"
          /\ UNCHANGED <<vars, threads, configVars, connectionVars, serverVars>>

-----------------------------------------------------------------------------

DaemonInit == /\ Init
              /\ daemonMode \in Modes
              /\ display = FALSE /\ home = FALSE
              /\ phase = "dead"
              /\ threads = {}
              /\ configDir \in BOOLEAN
              /\ config = "none"
              /\ ctrlDisplay = "closed" /\ dataDisplay = "closed" /\ m_xConnected = FALSE
              /\ xServer \in XServers
              /\ xStops = 0

MainThread == \/ ReadConfig \/ NoConfig \/ CreateStorage
              \/ MainOptions \/ Run \/ AlreadyConnected \/ StartMonitor
              \/ OpenCtrlDisplay \/ OpenDataDisplay
              \/ SetupRecordExtension \/ StartRecording
              \/ NotDaemonized \/ NoRecording \/ XIOError

DaemonNext == \/ MainThread
              \/ LoopKeyPress
              \/ LoopCacheAdd
              \/ CommiterThread
              \/ KeyvisChart
              \/ Killed
              \/ Crashed
              \/ XServerStops
              \/ XServerStarts
              \/ XServerFills
              \/ WriteConfig
              \/ Launch

DaemonSpec == DaemonInit /\ [][DaemonNext]_allVars

\* The scheduler runs every thread that exists; see StorageManager for CacheAdd.
DaemonFairSpec == /\ DaemonSpec
                  /\ WF_allVars(MainThread)
                  /\ WF_allVars(CommiterThread)
                  /\ SF_allVars(LoopCacheAdd)

-----------------------------------------------------------------------------
(* Properties                                                              *)

DaemonTypeOK == /\ daemonMode \in BOOLEAN
                /\ display \in BOOLEAN
                /\ home \in BOOLEAN
                /\ phase \in Phases
                /\ threads \subseteq {"commiter", "processMonitor"}
                /\ configDir \in BOOLEAN
                /\ config \in {"none", "bad", "good"}
                /\ ctrlDisplay \in Displays /\ dataDisplay \in Displays
                /\ m_xConnected \in BOOLEAN
                /\ xServer \in XServers
                /\ xStops \in Nat
                /\ phase \in {"configure", "storage", "dead"} <=> ~running
                /\ phase \in {"monitor", "loop"} => m_xConnected

\* Once the RECORD context is set up, both connections are to the same server,
\* wherever it stopped and another one started: windows of one server are never
\* looked up for the key presses of another.
SameServer == m_xConnected => ctrlDisplay = dataDisplay /\ dataDisplay # "closed"

\* Why SameServer holds: the connections are opened in their order and break together.
ConnectionsInv == /\ ctrlDisplay = "closed" => dataDisplay = "closed"
                  /\ ctrlDisplay = "open" => dataDisplay # "broken"

DaemonInv == /\ DaemonTypeOK
             /\ SameServer /\ ConnectionsInv

\* With --nb every press of every process is settled, through restarts, stops of
\* the X server and the Xlib exit that follows.
ForegroundSettles == []~daemonMode => PressesSettle

\* The storage inside a process that starts, forks, loses its X server and dies
\* does what StorageManager describes: all its safety properties hold here too.
StorageSpec == Spec

\* Once there is a config file and an X server with the extension and places stays
\* up, nothing that failed before keeps a process that lives from its main loop:
\* with or without --display, forked or not.
RetryConnects ==
    <>[](xServer = "record" /\ config = "good") =>
        [](phase # "dead" => <>(phase \in {"loop", "dead"}))
=============================================================================
