------------------------------- MODULE Daemon -------------------------------
(***************************************************************************)
(* The life of the process (main.cpp, Daemon.cpp, the constructors of      *)
(* Config and Sniffer): start, settings, signal handlers, construction of  *)
(* the parts and of their detached threads, the dispatch loop, and the end *)
(* of the program.  Signals arrive at any moment, the administrator edits  *)
(* the configuration files, and the process may be killed and started      *)
(* again.                                                                  *)
(***************************************************************************)
EXTENDS Config

CONSTANTS
    Paths,         \* paths of configuration files
    Contents,      \* files the administrator may write
    CommandLines,  \* command lines ntmd may be started with
    DeviceLists    \* sequences of the names of the network devices

(* Files have lines for known items; a text for a string is one. *)
ASSUME DaemonAssumption ==
    /\ DefaultPath \in Paths
    /\ \A file \in Contents :
         /\ DOMAIN file \subseteq Items
         /\ "port" \in DOMAIN file => file["port"] \in Int \cup {Junk}
         /\ \A item \in {"interface", "dbPath"} \cap DOMAIN file : file[item] # Junk
    /\ \A args \in CommandLines :
         /\ Len(args) \in Nat
         /\ \A k \in 1 .. Len(args) :
              args[k].opt = "--port" => args[k].val \in Int \cup {Junk, Nothing}

VARIABLES
    conf,        \* the configuration files
    main,        \* the main thread
    handlers,    \* whether the signal handlers are installed
    mIsRunning, mReload,
    built,       \* the parts that are constructed and not destroyed
    threads,     \* the detached threads
    intent,      \* history: the files as the administrator last left them
    lost,        \* history: whether the file was torn by a crash or raced with an edit
    termSent     \* history: the process was asked to end

daemon == <<handlers, mIsRunning, mReload>>
admin  == <<intent, lost>>
dVars  == <<conf, main, daemon, built, threads, admin, termSent>>

(* A file that is not there: no file has this item. *)
Absent    == [i \in {"no file"} |-> 0]
EmptyFile == [i \in {} |-> 0]

(* Where main is, its command line and how many arguments of it are read, the  *)
(* path, options and settings, the file that was read, and the exit code of    *)
(* the last run.                                                               *)
Off(code) == [pc |-> "off", args |-> <<>>, read |-> 0, path |-> DefaultPath,
              opts |-> [i \in {} |-> 0], cfg |-> Defaults, seen |-> Absent, exit |-> code]

DInit ==
    /\ conf = [p \in Paths |-> Absent]
    /\ main = Off("none")
    /\ handlers = "default"
    /\ mIsRunning = TRUE
    /\ mReload = FALSE
    /\ built = {}
    /\ threads = {}
    /\ intent = conf
    /\ lost = [p \in Paths |-> "no"]
    /\ termSent = FALSE

Goto(pc) == main' = [main EXCEPT !.pc = pc]

(* The process ends; a configuration file that was being written stays empty. *)
Exit(code) ==
    /\ main' = Off(code)
    /\ handlers' = "default"
    /\ mIsRunning' = TRUE
    /\ mReload' = FALSE
    /\ built' = {}
    /\ threads' = {}
    /\ termSent' = FALSE
    /\ lost' = IF main.pc = "write" THEN [lost EXCEPT ![main.path] = "torn"] ELSE lost
    /\ UNCHANGED <<conf, intent>>

-----------------------------------------------------------------------------
(* The administrator.  An edit after the file was read and before it is        *)
(* written back races with ntmd.                                               *)

Racing(p) == main.pc \in {"truncate", "write"} /\ main.path = p

Edit(p, file) ==
    /\ file # intent[p]
    /\ conf' = [conf EXCEPT ![p] = file]
    /\ intent' = [intent EXCEPT ![p] = file]
    /\ lost' = [lost EXCEPT ![p] = IF Racing(p) THEN "raced" ELSE "no"]
    /\ UNCHANGED <<main, daemon, built, threads, termSent>>

-----------------------------------------------------------------------------
(* main: the root test, ArgumentParser, Config *)

NotRoot == main.pc = "off" /\ Exit("4")

Start(args) ==
    /\ main.pc = "off"
    /\ main' = [Off("none") EXCEPT !.pc = "args", !.args = args]
    /\ UNCHANGED <<conf, daemon, built, threads, admin, termSent>>

(* One argument after the other; --config names a file that exists then. *)
ParseArgs ==
    /\ main.pc = "args"
    /\ IF main.read = Len(main.args)
       THEN Goto("config") /\ UNCHANGED <<conf, daemon, built, threads, admin, termSent>>
       ELSE LET parsed == ParseArg([exit |-> "none", path |-> main.path, opts |-> main.opts],
                                   main.args[main.read + 1],
                                   {p \in Paths : conf[p] # Absent})
            IN  IF parsed.exit # "none"
                THEN Exit(parsed.exit)
                ELSE /\ main' = [main EXCEPT !.read = @ + 1, !.path = parsed.path,
                                             !.opts = parsed.opts]
                     /\ UNCHANGED <<conf, daemon, built, threads, admin, termSent>>

(* Without a file the defaults are kept and written. *)
FindFile ==
    /\ main.pc = "config"
    /\ Goto(IF conf[main.path] = Absent THEN "truncate" ELSE "read")
    /\ UNCHANGED <<conf, daemon, built, threads, admin, termSent>>

ReadFile ==
    /\ main.pc = "read"
    /\ IF conf[main.path] = Absent
       THEN Exit("1")
       ELSE /\ main' = [main EXCEPT !.pc = "truncate", !.cfg = readConfig(conf[main.path]),
                                    !.seen = conf[main.path]]
            /\ UNCHANGED <<conf, daemon, built, threads, admin, termSent>>

(* writeConfig opens the file, which empties it, and then writes all settings; *)
(* if the file cannot be opened the program ends.                              *)
Truncate ==
    /\ main.pc = "truncate"
    /\ conf' = [conf EXCEPT ![main.path] = EmptyFile]
    /\ Goto("write")
    /\ UNCHANGED <<daemon, built, threads, admin, termSent>>

CannotWrite == main.pc = "truncate" /\ Exit("1")

Merged(m)  == mergeArgs(m.cfg, m.opts)    \* mutant: arguments are written too
Written(m) == m.cfg

(* An edit meanwhile is overwritten, or has put a new file in its place. *)
Write ==
    /\ main.pc = "write"
    /\ \/ conf' = [conf EXCEPT ![main.path] = Written(main)]
       \/ lost[main.path] = "raced" /\ UNCHANGED conf
    /\ Goto("merge")
    /\ UNCHANGED <<daemon, built, threads, admin, termSent>>

Merge ==
    /\ main.pc = "merge"
    /\ main' = [main EXCEPT !.pc = "handlers", !.cfg = mergeArgs(main.cfg, main.opts)]
    /\ UNCHANGED <<conf, daemon, built, threads, admin, termSent>>

Configure ==
    ParseArgs \/ FindFile \/ ReadFile \/ Truncate \/ CannotWrite \/ Write \/ Merge

-----------------------------------------------------------------------------
(* Daemon: the handlers are installed by the constructor of the only instance. *)

Install ==
    /\ main.pc = "handlers"
    /\ IF handlers = "default"
       THEN handlers' = "partly" /\ UNCHANGED main
       ELSE handlers' = "installed" /\ Goto("db")
    /\ UNCHANGED <<conf, mIsRunning, mReload, built, threads, admin, termSent>>

RunningUnlessReload == mReload \/ mIsRunning    \* mutant: running() answers TRUE after a reload
running             == mIsRunning

(* running(): a reload is only logged. *)
TestRunning ==
    /\ main.pc = "loop"
    /\ mReload' = FALSE
    /\ Goto(IF running THEN "dispatch" ELSE "teardown")
    /\ UNCHANGED <<conf, handlers, mIsRunning, built, threads, admin, termSent>>

(* pcap_dispatch returns after packets or with an error, which is not looked   *)
(* at.  Its time-out of 100 ms only bounds how long packets are buffered: on a *)
(* device without packets it may not return, and a signal only interrupts a    *)
(* poll that is then repeated, as nobody calls pcap_breakloop.                 *)
Dispatch ==
    /\ main.pc = "dispatch"
    /\ Goto("loop")
    /\ UNCHANGED <<conf, daemon, built, threads, admin, termSent>>

(* Before its handler is there a signal ends the process.  While they are      *)
(* installed the handler asks for the instance that is being constructed,      *)
(* which is undefined: the process ends, or waits for itself for ever.         *)
Unhandled ==
    \/ handlers # "installed" /\ Exit("signal")
    \/ /\ handlers = "partly"
       /\ Goto("hung")
       /\ UNCHANGED <<conf, daemon, built, threads, admin, termSent>>

Stop == mIsRunning' = FALSE /\ termSent' = TRUE /\ UNCHANGED mReload

(* SIGINT or SIGTERM *)
Terminate ==
    /\ main.pc \notin {"off", "hung"}
    /\ \/ Unhandled
       \/ /\ handlers = "installed"
          /\ Stop
          /\ UNCHANGED <<conf, main, handlers, built, threads, admin>>

HupStops == mReload' = TRUE /\ mIsRunning' = FALSE    \* mutant: one case for all signals
OnHup    == mReload' = TRUE /\ UNCHANGED mIsRunning

(* SIGHUP *)
Hangup ==
    /\ main.pc \notin {"off", "hung"}
    /\ \/ Unhandled
       \/ /\ handlers = "installed"
          /\ OnHup
          /\ UNCHANGED <<conf, main, handlers, built, threads, admin, termSent>>

Killed == main.pc # "off" /\ Exit("killed")

-----------------------------------------------------------------------------
(* The parts, in the order in which main constructs them. *)

ApiFirst   == <<"db", "api", "storage", "resolver", "sniffer">>    \* mutant
BuildOrder == <<"db", "storage", "api", "resolver", "sniffer">>

Position(part)  == CHOOSE k \in 1 .. Len(BuildOrder) : BuildOrder[k] = part
NextPart(part)  == IF part = Last(BuildOrder) THEN "loop" ELSE BuildOrder[Position(part) + 1]

ThreadsOf(part) == CASE part = "storage"  -> {"deposit"}
                     [] part = "api"      -> {"server"}
                     [] part = "resolver" -> {"clearSockets", "clearProcesses"}
                     [] OTHER             -> {}

Needs(t) == CASE t = "deposit" -> {"storage", "db"}
              [] t = "server"  -> {"api", "storage", "db"}
              [] OTHER         -> {"resolver"}

(* findDevice: the named device, or the first one if none is named. *)
findDevice(device, devices) ==
    IF device = "" THEN devices # <<>> ELSE device \in ToSet(devices)

(* The database cannot be opened; or there is no such device, it cannot be     *)
(* activated, or its addresses cannot be read.                                 *)
BuildFails == main.pc \in {"db", "sniffer"} /\ Exit("1")

Built(part) ==
    /\ built' = built \cup {part}
    /\ Goto(NextPart(part))
    /\ UNCHANGED <<conf, daemon, admin, termSent>>

Build ==
    /\ main.pc \in ToSet(BuildOrder)
    /\ main.pc = "sniffer" =>
         \E devices \in DeviceLists : findDevice(main.cfg["interface"], devices)
    /\ Built(main.pc)
    /\ threads' = threads \cup ThreadsOf(main.pc)

(* The socket of the API cannot be bound: the program goes on without it. *)
NoApi == main.pc = "api" /\ Built("api") /\ UNCHANGED threads

(* main returns: the parts are destroyed in reverse, the threads still run. *)
LastBuilt == CHOOSE part \in built : \A other \in built : Position(other) <= Position(part)

Destroy ==
    /\ main.pc = "teardown"
    /\ IF built = {}
       THEN Exit("0")
       ELSE /\ built' = built \ {LastBuilt}
            /\ UNCHANGED <<conf, main, daemon, threads, admin, termSent>>

-----------------------------------------------------------------------------
MainGoesOn ==
    Configure \/ Install \/ Build \/ NoApi \/ BuildFails \/ TestRunning \/ Destroy

Main == MainGoesOn \/ Dispatch

DNext ==
    \/ NotRoot
    \/ \E args \in CommandLines : Start(args)
    \/ \E p \in Paths, file \in Contents \cup {Absent} : Edit(p, file)
    \/ Main
    \/ Terminate
    \/ Hangup
    \/ Killed

DSpec == DInit /\ [][DNext]_dVars

(* The main thread goes on, except that it may stay in pcap_dispatch. *)
DFairSpec == DSpec /\ WF_dVars(MainGoesOn)

-----------------------------------------------------------------------------
(* Types. *)
IsFile(file) == file = Absent \/ DOMAIN file \subseteq Items

DTypeOK ==
    /\ \A p \in Paths : IsFile(conf[p]) /\ IsFile(intent[p])
    /\ lost \in [Paths -> {"no", "raced", "torn"}]
    /\ main.pc \in {"off", "args", "config", "read", "truncate", "write", "merge", "handlers",
                    "hung", "loop", "dispatch", "teardown"} \cup ToSet(BuildOrder)
    /\ main.path \in Paths /\ DOMAIN main.cfg = Items
    /\ main.exit \in {"none", "0", "1", "2", "4", "signal", "killed"}
    /\ main.cfg["port"] \in Ports
    /\ handlers \in {"default", "partly", "installed"}
    /\ {mIsRunning, mReload, termSent} \subseteq BOOLEAN
    /\ built \subseteq ToSet(BuildOrder)
    /\ threads \subseteq {"deposit", "server", "clearSockets", "clearProcesses"}

FileOf(file) == IF file = Absent THEN EmptyFile ELSE file

(* Starting ntmd, however often, with whatever arguments and however it ends,  *)
(* leaves in a configuration file what the administrator wrote, completed with *)
(* defaults; except that a crash between opening and writing empties it, and   *)
(* an edit at that time may be overwritten (Config.cpp:185-187: "Keeps current *)
(* config values and adds new fields with their defaults.").  What he wrote    *)
(* counts as readConfig understands it: an unreadable value that is replaced   *)
(* by its default, and a port that is cut to 16 bits, count as kept.           *)
SettingsSurvive ==
    \A p \in Paths : lost[p] = "no" /\ ~(main.pc = "write" /\ main.path = p) =>
        conf[p] \in {intent[p], readConfig(FileOf(intent[p]))}

(* Reference: what a setting should be. *)
OptionFor == [interval |-> "--interval", interface |-> "--interface",
              dbPath |-> "--db-path", port |-> "--port"]

Occurrences(item) ==
    {k \in 1 .. Len(main.args) : item \in DOMAIN OptionFor /\ main.args[k].opt = OptionFor[item]}

Wanted(item) ==
    LET file == FileOf(main.seen)
        k    == CHOOSE n \in Occurrences(item) : \A m \in Occurrences(item) : m <= n
        text == IF Occurrences(item) # {} THEN main.args[k].val
                ELSE IF item \in DOMAIN file /\ file[item] # Junk THEN file[item]
                ELSE Defaults[item]
    IN  IF item = "port" THEN uint16(text) ELSE text

Configured == {"handlers", "loop", "dispatch", "teardown"} \cup ToSet(BuildOrder)

(* The settings in use are the last one given on the command line, or else the *)
(* one of the file that was read, or else the default (ArgumentParser.hpp:22:  *)
(* "Args set here will take precedence over the config file items").           *)
ArgumentsFirst == main.pc \in Configured => \A item \in Items : main.cfg[item] = Wanted(item)

(* A detached thread never runs without the parts it refers to, at any start   *)
(* and at any failure of it; only while main destroys its locals and returns   *)
(* it does (main.cpp:33-51, and the threads of the constructors).              *)
ThreadsHaveParts == \A t \in threads : Needs(t) \subseteq built \/ main.pc = "teardown"

(* Only SIGINT or SIGTERM end the loop: SIGHUP, which the systemd unit sends   *)
(* for a reload, does not, nor do errors of dispatch (Daemon.cpp:23-55).       *)
StaysUp == main.pc = "teardown" => termSent

(* Once the handlers are installed, SIGINT or SIGTERM end the process, also in *)
(* the middle of construction and whatever other signals come, unless main     *)
(* waits for ever in pcap_dispatch for a packet                                *)
(* (Daemon.cpp:41-49, Sniffer.cpp:62-65, main.cpp:46-51).                      *)
TermEnds == ~mIsRunning ~> (main.pc = "off" \/ [](main.pc = "dispatch"))

=============================================================================
