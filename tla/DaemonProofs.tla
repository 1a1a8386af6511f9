---------------------------- MODULE DaemonProofs ----------------------------
(***************************************************************************)
(* Proofs about the life of the process, for any configuration files,      *)
(* command lines and devices, any number of starts, and signals, edits and *)
(* kills at any moment.                                                    *)
(***************************************************************************)
EXTENDS Daemon, SequenceTheorems, TLAPS

-----------------------------------------------------------------------------
(* Files and settings. *)

(* What the administrator or ntmd may have written. *)
GoodFile(file) ==
    file = Absent \/ /\ DOMAIN file \subseteq Items
                     /\ "port" \in DOMAIN file => file["port"] \in Int \cup {Junk}
                     /\ "interface" \in DOMAIN file => file["interface"] # Junk
                     /\ "dbPath" \in DOMAIN file => file["dbPath"] # Junk

Settings(file) == readConfig(FileOf(file))

LEMMA NoAbsent ==
    ASSUME NEW file, DOMAIN file \subseteq Items
    PROVE  file # Absent /\ FileOf(file) = file
<1>1. DOMAIN Absent = {"no file"} /\ "no file" \notin Items
  BY DEF Absent, Items
<1> QED BY <1>1 DEF FileOf

LEMMA PortRange == \A n \in Int : uint16(n) \in Ports
BY SMT DEF uint16, Ports

LEMMA PortTwice == \A n \in Ports : n \in Int /\ uint16(n) = n
<1> SUFFICES ASSUME NEW n \in Int, 0 <= n, n < 65536 PROVE n % 65536 = n
  BY SMT DEF uint16, Ports
<1> QED BY SMT

(* The defaults are a complete set of settings. *)
LEMMA DefaultsType ==
    /\ Defaults = [i \in Items |-> Defaults[i]]
    /\ Defaults["port"] \in Ports
    /\ Defaults["interface"] = "" /\ Defaults["dbPath"] = ""
<1>1. /\ "port" \in Items /\ "interface" \in Items /\ "dbPath" \in Items
  BY DEF Items
<1>2. Defaults["port"] \in Ports
  BY SMT, <1>1 DEF Defaults, Ports
<1>3. Defaults["interface"] = "" /\ Defaults["dbPath"] = ""
  BY SMT, <1>1 DEF Defaults
<1>4. Defaults = [i \in Items |-> Defaults[i]]
  <2> DEFINE e(item) == CASE item = "interval"         -> 10
                          [] item = "processCacheSize" -> 5
                          [] item = "port"             -> 13889
                          [] item \in {"promiscuous", "immediate"} -> FALSE
                          [] item \in {"interface", "dbPath"}      -> ""
  <2>1. Defaults = [i \in Items |-> e(i)]
    BY SMT DEF Defaults
  <2> HIDE DEF e
  <2> QED BY <2>1
<1> QED BY <1>2, <1>3, <1>4

(* Reading a file gives a complete set of settings, which is a good file. *)
LEMMA SettingsType ==
    ASSUME NEW file, GoodFile(file)
    PROVE  /\ DOMAIN Settings(file) = Items
           /\ Settings(file)["port"] \in Ports
           /\ Settings(file)["interface"] # Junk /\ Settings(file)["dbPath"] # Junk
           /\ GoodFile(Settings(file)) /\ FileOf(Settings(file)) = Settings(file)
           /\ Settings(file) # Absent
<1> DEFINE f == FileOf(file)
<1>1. /\ "port" \in DOMAIN f => f["port"] \in Int \cup {Junk}
      /\ "interface" \in DOMAIN f => f["interface"] # Junk
      /\ "dbPath" \in DOMAIN f => f["dbPath"] # Junk
  BY DEF FileOf, EmptyFile, GoodFile
<1> HIDE DEF f
<1>2. DOMAIN readConfig(f) = Items
  BY DEF readConfig
<1>3. readConfig(f)["port"] \in Ports
  <2>1. CASE "port" \in DOMAIN f /\ f["port"] # Junk
    <3>1. readConfig(f)["port"] = uint16(f["port"]) /\ f["port"] \in Int
      BY <1>1, <2>1 DEF readConfig, readItem, Items
    <3> QED BY <3>1, PortRange
  <2>2. CASE ~("port" \in DOMAIN f /\ f["port"] # Junk)
    BY <2>2, DefaultsType DEF readConfig, readItem, Items
  <2> QED BY <2>1, <2>2
<1>4. readConfig(f)["interface"] # Junk /\ readConfig(f)["dbPath"] # Junk
  BY <1>1, DefaultsType, JunkAssumption DEF readConfig, readItem, Items
<1>5. readConfig(f)["port"] \in Int
  BY <1>3, PortTwice
<1> QED BY <1>2, <1>3, <1>4, <1>5, NoAbsent DEF GoodFile, Settings, f

(* Complete settings are read back as they were written. *)
LEMMA ReadBack ==
    ASSUME NEW s, DOMAIN s = Items, s = [i \in Items |-> s[i]], NEW port \in Ports,
           s["port"] = port,
           \A i \in Items \ {"interface", "dbPath", "port"} : s[i] = Junk => s[i] = Defaults[i]
    PROVE  readConfig(s) = s
<1>1. ASSUME NEW i \in Items PROVE readItem(i, s[i], Defaults[i]) = s[i]
  <2>1. CASE i = "port"
    <3>1. port # Junk /\ uint16(port) = port
      BY JunkAssumption, PortTwice
    <3> QED BY <2>1, <3>1 DEF readItem
  <2>2. CASE i \in {"interface", "dbPath"}
    BY <2>2 DEF readItem
  <2>3. CASE i \notin {"interface", "dbPath", "port"}
    BY <2>3 DEF readItem
  <2> QED BY <2>1, <2>2, <2>3
<1>2. readConfig(s) = [i \in Items |-> readItem(i, s[i], Defaults[i])]
  BY DEF readConfig
<1>3. [i \in Items |-> readItem(i, s[i], Defaults[i])] = [i \in Items |-> s[i]]
  BY <1>1
<1> QED BY <1>2, <1>3

(* What ntmd has written it reads back. *)
LEMMA SettingsTwice ==
    ASSUME NEW file, GoodFile(file)
    PROVE  Settings(Settings(file)) = Settings(file)
<1> DEFINE s == Settings(file)
<1>1. /\ DOMAIN s = Items /\ s["port"] \in Ports /\ FileOf(s) = s
  BY SettingsType
<1>2. s = [i \in Items |-> s[i]]
  BY DEF Settings, readConfig
<1>3. \A i \in Items \ {"interface", "dbPath", "port"} : s[i] = Junk => s[i] = Defaults[i]
  BY DEF Settings, readConfig, readItem
<1>4. readConfig(s) = s
  BY <1>1, <1>2, <1>3, ReadBack
<1> QED BY <1>1, <1>4 DEF Settings

(* Without a file the settings are the defaults. *)
LEMMA SettingsOfNone == Settings(Absent) = Defaults /\ GoodFile(Absent)
<1>1. FileOf(Absent) = EmptyFile
  BY DEF FileOf
<1>2. readConfig(EmptyFile) = [i \in Items |-> Defaults[i]]
  BY DEF readConfig, EmptyFile
<1> QED BY <1>1, <1>2, DefaultsType DEF Settings, GoodFile

-----------------------------------------------------------------------------
(* The order of construction. *)

Parts == {"db", "storage", "api", "resolver", "sniffer"}

LEMMA OrderTable ==
    /\ Len(BuildOrder) = 5 /\ DOMAIN BuildOrder = 1 .. 5
    /\ BuildOrder[1] = "db" /\ BuildOrder[2] = "storage" /\ BuildOrder[3] = "api"
    /\ BuildOrder[4] = "resolver" /\ BuildOrder[5] = "sniffer"
BY DEF BuildOrder

LEMMA PartsTable == ToSet(BuildOrder) = Parts
<1>1. \A k \in 1 .. 5 : k = 1 \/ k = 2 \/ k = 3 \/ k = 4 \/ k = 5
  OBVIOUS
<1>2. ToSet(BuildOrder) = {BuildOrder[k] : k \in 1 .. 5}
  BY OrderTable DEF ToSet
<1>3. 1 \in 1 .. 5 /\ 2 \in 1 .. 5 /\ 3 \in 1 .. 5 /\ 4 \in 1 .. 5 /\ 5 \in 1 .. 5
  OBVIOUS
<1> QED BY <1>1, <1>2, <1>3, OrderTable DEF Parts

LEMMA NextTable ==
    /\ NextPart("db") = "storage" /\ NextPart("storage") = "api"
    /\ NextPart("api") = "resolver" /\ NextPart("resolver") = "sniffer"
    /\ NextPart("sniffer") = "loop"
<1>1. \A k \in 1 .. 5 : k = 1 \/ k = 2 \/ k = 3 \/ k = 4 \/ k = 5
  OBVIOUS
<1>2. ASSUME NEW k \in 1 .. 5 PROVE Position(BuildOrder[k]) = k
  <2>1. \A j \in 1 .. 5 : BuildOrder[j] = BuildOrder[k] <=> j = k
    BY <1>1, OrderTable
  <2> QED BY <2>1, OrderTable DEF Position
<1>3. Position("db") = 1 /\ Position("storage") = 2 /\ Position("api") = 3
      /\ Position("resolver") = 4
  BY <1>2, OrderTable
<1>4. Last(BuildOrder) = "sniffer"
  BY OrderTable DEF Last
<1> QED BY <1>3, <1>4, OrderTable DEF NextPart

-----------------------------------------------------------------------------
(* The inductive invariant. *)

PCs == {"off", "args", "config", "read", "truncate", "write", "merge", "handlers", "hung",
        "loop", "dispatch", "teardown"} \cup Parts

IsMain(m) == m = [pc |-> m.pc, args |-> m.args, read |-> m.read, path |-> m.path,
                  opts |-> m.opts, cfg |-> m.cfg, seen |-> m.seen, exit |-> m.exit]

FilePart ==
    /\ DOMAIN conf = Paths /\ DOMAIN intent = Paths
    /\ \A p \in Paths : GoodFile(conf[p]) /\ GoodFile(intent[p])
    /\ lost \in [Paths -> {"no", "raced", "torn"}]

(* All arguments are read before the settings are. *)
MainPart ==
    /\ IsMain(main)
    /\ main.pc \in PCs /\ main.path \in Paths
    /\ main.exit \in {"none", "0", "1", "2", "4", "signal", "killed"}
    /\ Len(main.args) \in Nat
    /\ \A k \in 1 .. Len(main.args) :
         main.args[k].opt = "--port" => main.args[k].val \in Int \cup {Junk, Nothing}
    /\ main.read \in 0 .. Len(main.args)
    /\ main.pc # "args" => main.read = Len(main.args)

(* The options so far are the last ones among the arguments read so far. *)
Among(item) ==
    {k \in 1 .. main.read : item \in DOMAIN OptionFor /\ main.args[k].opt = OptionFor[item]}

LastOf(K, k) == k \in K /\ \A m \in K : m <= k

OptsPart ==
    \A item \in Items :
        /\ Among(item) = {} => item \notin DOMAIN main.opts
        /\ Among(item) # {} => /\ item \in DOMAIN main.opts
                               /\ \E k \in 1 .. main.read :
                                    /\ LastOf(Among(item), k)
                                    /\ item # "port" => main.opts[item] = main.args[k].val
                                    /\ item = "port" => /\ main.args[k].val \in Int
                                                        /\ main.opts[item] = uint16(main.args[k].val)

(* The settings are those of the file that was read, and the options from     *)
(* Merge on.                                                                  *)
Unread   == {"off", "args", "config", "read"}
Unmerged == Unread \cup {"truncate", "write", "merge"}

CfgPart ==
    /\ GoodFile(main.seen)
    /\ main.pc \in Unread => main.seen = Absent
    /\ main.pc \in Unmerged => main.cfg = Settings(main.seen)
    /\ main.pc \notin Unmerged => main.cfg = mergeArgs(Settings(main.seen), main.opts)

(* What is about to be written is what the administrator left, completed. *)
SurvivePart ==
    /\ SettingsSurvive
    /\ main.pc \in {"truncate", "write"} /\ lost[main.path] = "no" =>
         Settings(main.seen) = Settings(intent[main.path])

StopPart ==
    /\ handlers \in {"default", "partly", "installed"}
    /\ mIsRunning \in BOOLEAN /\ mReload \in BOOLEAN /\ termSent \in BOOLEAN
    /\ ~mIsRunning => termSent
    /\ StaysUp
    /\ handlers = "partly" => main.pc \in {"handlers", "hung"}

(* The parts that are constructed when main is at pc. *)
Before(pc) == CASE pc = "storage"  -> {"db"}
                [] pc = "api"      -> {"db", "storage"}
                [] pc = "resolver" -> {"db", "storage", "api"}
                [] pc = "sniffer"  -> {"db", "storage", "api", "resolver"}
                [] pc \in {"loop", "dispatch"} -> Parts
                [] OTHER           -> {}

BuiltPart ==
    /\ built \subseteq Parts
    /\ threads \subseteq {"deposit", "server", "clearSockets", "clearProcesses"}
    /\ main.pc # "teardown" => built = Before(main.pc)
    /\ ThreadsHaveParts

DInv == FilePart /\ MainPart /\ OptsPart /\ CfgPart /\ SurvivePart /\ StopPart /\ BuiltPart

-----------------------------------------------------------------------------
(* What the steps have in common. *)

LEMMA OffShape ==
    ASSUME NEW code
    PROVE  /\ IsMain(Off(code)) /\ Off(code).pc = "off" /\ Off(code).args = << >>
           /\ Off(code).read = 0 /\ Off(code).path = DefaultPath
           /\ Off(code).opts = [i \in {} |-> 0] /\ Off(code).cfg = Defaults
           /\ Off(code).seen = Absent /\ Off(code).exit = code
BY DEF Off, IsMain

(* The state of main between two runs. *)
LEMMA OffMain ==
    ASSUME NEW code \in {"none", "0", "1", "2", "4", "signal", "killed"}, main' = Off(code)
    PROVE  MainPart' /\ OptsPart' /\ CfgPart'
<1>1. /\ IsMain(main') /\ main'.pc = "off" /\ main'.args = << >> /\ main'.read = 0
      /\ main'.path = DefaultPath /\ main'.opts = [i \in {} |-> 0] /\ main'.cfg = Defaults
      /\ main'.seen = Absent /\ main'.exit = code
  BY OffShape
<1>2. MainPart'
  <2>1. Len(main'.args) = 0
    BY <1>1
  <2>2. DefaultPath \in Paths
    BY DaemonAssumption
  <2> QED BY <1>1, <2>1, <2>2 DEF MainPart, PCs
<1>3. OptsPart'
  <2>1. \A item : Among(item)' = {}
    BY <1>1 DEF Among
  <2>2. DOMAIN main'.opts = {}
    BY <1>1
  <2> QED BY <2>1, <2>2 DEF OptsPart
<1>4. CfgPart'
  BY <1>1, SettingsOfNone DEF CfgPart, Unread, Unmerged
<1> QED BY <1>2, <1>3, <1>4

LEMMA SameOptions ==
    ASSUME OptsPart, main'.args = main.args, main'.read = main.read, main'.opts = main.opts
    PROVE  OptsPart'
<1>1. \A item : Among(item)' = Among(item)
  BY DEF Among
<1> QED BY <1>1 DEF OptsPart

(* A step of main to another place, once the arguments are read. *)
LEMMA GotoShape ==
    ASSUME NEW pc, IsMain(main), Goto(pc)
    PROVE  /\ IsMain(main') /\ main'.pc = pc /\ main'.args = main.args
           /\ main'.read = main.read /\ main'.path = main.path /\ main'.opts = main.opts
           /\ main'.cfg = main.cfg /\ main'.seen = main.seen /\ main'.exit = main.exit
<1>1. main = [pc |-> main.pc, args |-> main.args, read |-> main.read, path |-> main.path,
              opts |-> main.opts, cfg |-> main.cfg, seen |-> main.seen, exit |-> main.exit]
  BY DEF IsMain
<1>2. main' = [pc |-> pc, args |-> main.args, read |-> main.read, path |-> main.path,
               opts |-> main.opts, cfg |-> main.cfg, seen |-> main.seen, exit |-> main.exit]
  BY <1>1 DEF Goto
<1> QED BY <1>2 DEF IsMain

LEMMA GotoKeeps ==
    ASSUME MainPart, OptsPart, NEW pc \in PCs \ {"args"}, main.read = Len(main.args), Goto(pc)
    PROVE  MainPart' /\ OptsPart'
<1>1. /\ IsMain(main') /\ main'.pc = pc /\ main'.args = main.args
      /\ main'.read = main.read /\ main'.path = main.path /\ main'.opts = main.opts
      /\ main'.exit = main.exit
  BY GotoShape DEF MainPart
<1>2. MainPart'
  BY <1>1 DEF MainPart
<1> QED BY <1>1, <1>2, SameOptions

-----------------------------------------------------------------------------
(* One lemma for each action. *)

LEMMA InitHolds == DInit => DInv
<1> SUFFICES ASSUME DInit PROVE DInv
  OBVIOUS
<1>1. /\ IsMain(main) /\ main.pc = "off" /\ main.args = << >> /\ main.read = 0
      /\ main.path = DefaultPath /\ main.opts = [i \in {} |-> 0] /\ main.cfg = Defaults
      /\ main.seen = Absent /\ main.exit = "none"
  BY OffShape DEF DInit
<1>2. FilePart /\ SurvivePart
  BY <1>1, SettingsOfNone DEF DInit, FilePart, SurvivePart, SettingsSurvive
<1>3. MainPart
  <2>1. Len(main.args) = 0
    BY <1>1
  <2> QED BY <1>1, <2>1, DaemonAssumption DEF MainPart, PCs
<1>4. OptsPart
  <2>1. (\A item : Among(item) = {}) /\ DOMAIN main.opts = {}
    BY <1>1 DEF Among
  <2> QED BY <2>1 DEF OptsPart
<1>5. CfgPart
  BY <1>1, SettingsOfNone DEF CfgPart, Unread, Unmerged
<1>6. StopPart /\ BuiltPart
  BY <1>1 DEF DInit, StopPart, StaysUp, BuiltPart, ThreadsHaveParts, Before
<1> QED BY <1>2, <1>3, <1>4, <1>5, <1>6 DEF DInv

(* However the process ends. *)
LEMMA ExitKeeps ==
    ASSUME DInv, NEW code \in {"none", "0", "1", "2", "4", "signal", "killed"}, Exit(code)
    PROVE  DInv'
<1>1. MainPart' /\ OptsPart' /\ CfgPart'
  BY OffMain DEF Exit
<1>2. main'.pc = "off"
  BY OffShape DEF Exit
<1>3. FilePart'
  <2>1. lost' \in [Paths -> {"no", "raced", "torn"}]
    BY DEF DInv, FilePart, Exit
  <2> QED BY <2>1 DEF DInv, FilePart, Exit
<1>4. SurvivePart'
  <2>1. ASSUME NEW p \in Paths, lost'[p] = "no"
        PROVE  conf'[p] \in {intent'[p], readConfig(FileOf(intent'[p]))}
    <3>1. lost[p] = "no" /\ ~(main.pc = "write" /\ main.path = p)
      BY <2>1 DEF Exit, DInv, FilePart, MainPart
    <3> QED BY <3>1 DEF Exit, DInv, SurvivePart, SettingsSurvive
  <2> QED BY <1>2, <2>1 DEF SurvivePart, SettingsSurvive
<1>5. StopPart' /\ BuiltPart'
  BY <1>2 DEF Exit, StopPart, StaysUp, BuiltPart, ThreadsHaveParts, Before
<1> QED BY <1>1, <1>3, <1>4, <1>5 DEF DInv

LEMMA EditKeeps ==
    ASSUME DInv, NEW p \in Paths, NEW file \in Contents \cup {Absent}, Edit(p, file)
    PROVE  DInv'
<1>1. GoodFile(file)
  BY DaemonAssumption, SettingsOfNone DEF GoodFile
<1>2. FilePart'
  BY <1>1 DEF DInv, FilePart, Edit
<1>3. MainPart' /\ OptsPart' /\ CfgPart'
  <2>1. main' = main
    BY DEF Edit
  <2> QED BY <2>1, SameOptions DEF DInv, MainPart, CfgPart
<1>4. SurvivePart'
  <2>1. ASSUME NEW q \in Paths, lost'[q] = "no", ~(main.pc = "write" /\ main.path = q)
        PROVE  conf'[q] \in {intent'[q], readConfig(FileOf(intent'[q]))}
    <3>1. CASE q = p
      BY <3>1 DEF Edit, DInv, FilePart
    <3>2. CASE q # p
      BY <2>1, <3>2 DEF Edit, DInv, FilePart, SurvivePart, SettingsSurvive
    <3> QED BY <3>1, <3>2
  <2>2. ASSUME main.pc \in {"truncate", "write"}, lost'[main.path] = "no"
        PROVE  Settings(main.seen) = Settings(intent'[main.path])
    <3>1. main.path # p /\ main.path \in Paths
      BY <2>2 DEF Edit, Racing, DInv, FilePart, MainPart
    <3> QED BY <2>2, <3>1 DEF Edit, DInv, FilePart, SurvivePart
  <2>3. main' = main
    BY DEF Edit
  <2> QED BY <2>1, <2>2, <2>3 DEF SurvivePart, SettingsSurvive
<1>5. StopPart' /\ BuiltPart'
  BY DEF Edit, daemon, DInv, StopPart, StaysUp, BuiltPart, ThreadsHaveParts
<1> QED BY <1>2, <1>3, <1>4, <1>5 DEF DInv

LEMMA StartKeeps ==
    ASSUME DInv, NEW args \in CommandLines, Start(args)
    PROVE  DInv'
<1>1. /\ IsMain(main') /\ main'.pc = "args" /\ main'.args = args /\ main'.read = 0
      /\ main'.path = DefaultPath /\ main'.opts = [i \in {} |-> 0] /\ main'.cfg = Defaults
      /\ main'.seen = Absent /\ main'.exit = "none"
  BY DEF Start, Off, IsMain
<1>2. FilePart'
  BY DEF DInv, FilePart, Start, admin
<1>3. MainPart'
  <2>1. Len(args) \in Nat /\ 0 \in 0 .. Len(args) /\ DefaultPath \in Paths
    BY DaemonAssumption
  <2> QED BY <1>1, <2>1, DaemonAssumption DEF MainPart, PCs
<1>4. OptsPart'
  <2>1. (\A item : Among(item)' = {}) /\ DOMAIN main'.opts = {}
    BY <1>1 DEF Among
  <2> QED BY <2>1 DEF OptsPart
<1>5. CfgPart'
  BY <1>1, SettingsOfNone DEF CfgPart, Unread, Unmerged
<1>6. SurvivePart'
  BY <1>1 DEF DInv, SurvivePart, SettingsSurvive, Start, admin
<1>7. StopPart' /\ BuiltPart'
  BY <1>1 DEF Start, daemon, DInv, StopPart, StaysUp, BuiltPart, ThreadsHaveParts, Before
<1> QED BY <1>2, <1>3, <1>4, <1>5, <1>6, <1>7 DEF DInv

(* What one argument changes. *)
With(opts, item, val) ==
    [i \in DOMAIN opts \cup {item} |-> IF i = item THEN val ELSE opts[i]]

LEMMA ArgShape ==
    ASSUME NEW path, NEW opts, NEW arg, NEW existing, NEW r,
           r = ParseArg([exit |-> "none", path |-> path, opts |-> opts], arg, existing)
    PROVE  \/ r.exit \in {"0", "2"}
           \/ /\ r.exit = "none"
              /\ r.path = path \/ r.path \in existing
              /\ arg.opt = "--interval"  => r.opts = With(opts, "interval", arg.val)
              /\ arg.opt = "--interface" => r.opts = With(opts, "interface", arg.val)
              /\ arg.opt = "--db-path"   => r.opts = With(opts, "dbPath", arg.val)
              /\ arg.opt = "--port"      => /\ r.opts = With(opts, "port", uint16(arg.val))
                                           /\ arg.val # Junk /\ arg.val # Nothing
              /\ arg.opt \notin {"--interval", "--interface", "--db-path", "--port"} =>
                   r.opts = opts
<1> DEFINE parsed == [exit |-> "none", path |-> path, opts |-> opts]
<1>1. parsed.exit = "none" /\ parsed.path = path /\ parsed.opts = opts
  OBVIOUS
<1>2. ASSUME NEW code PROVE Failed(parsed, code).exit = code
  BY DEF Failed
<1>3. ASSUME NEW item, NEW val
      PROVE  LET g == Given(parsed, item, val)
             IN  g.exit = "none" /\ g.path = path /\ g.opts = With(opts, item, val)
  BY DEF Given, With
<1>4. ASSUME NEW q
      PROVE  LET g == [parsed EXCEPT !.path = q]
             IN  g.exit = "none" /\ g.path = q /\ g.opts = opts
  OBVIOUS
<1>5. r = ParseArg(parsed, arg, existing)
  OBVIOUS
<1> HIDE DEF parsed
<1>6. CASE arg.opt = "--interval"
  BY <1>2, <1>3, <1>5, <1>6 DEF ParseArg, Valued
<1>7. CASE arg.opt = "--interface"
  BY <1>2, <1>3, <1>5, <1>7 DEF ParseArg, Valued
<1>8. CASE arg.opt = "--db-path"
  BY <1>2, <1>3, <1>5, <1>8 DEF ParseArg, Valued
<1>9. CASE arg.opt = "--port"
  BY <1>2, <1>3, <1>5, <1>9 DEF ParseArg, Valued
<1>10. CASE arg.opt = "--config"
  BY <1>2, <1>4, <1>5, <1>10 DEF ParseArg, Valued
<1>11. CASE arg.opt \notin {"--interval", "--interface", "--db-path", "--port", "--config"}
  BY <1>1, <1>2, <1>5, <1>11 DEF ParseArg, Valued
<1> QED BY <1>6, <1>7, <1>8, <1>9, <1>10, <1>11

(* One more argument: it is now the last one of its option. *)
LEMMA ArgKeepsOpts ==
    ASSUME OptsPart, main.read \in Nat, NEW item \in Items, NEW val,
           main'.args = main.args, main'.read = main.read + 1,
           item \in DOMAIN OptionFor,
           \A i \in DOMAIN OptionFor : OptionFor[i] = OptionFor[item] => i = item,
           main.args[main.read + 1].opt = OptionFor[item],
           main'.opts = With(main.opts, item, val),
           item # "port" => val = main.args[main.read + 1].val,
           item = "port" => /\ main.args[main.read + 1].val \in Int
                            /\ val = uint16(main.args[main.read + 1].val)
    PROVE  OptsPart'
<1> DEFINE n == main.read + 1
<1>1. n \in Nat /\ main'.read = n /\ \A k : k \in 1 .. n <=> k \in 1 .. main.read \/ k = n
  OBVIOUS
<1>2. Among(item)' = Among(item) \cup {n}
  BY <1>1 DEF Among
<1>3. LastOf(Among(item)', n) /\ n \in 1 .. main'.read
  BY <1>1, <1>2 DEF LastOf, Among
<1>4. item \in DOMAIN main'.opts /\ main'.opts[item] = val
  BY DEF With
<1>5. ASSUME NEW i \in Items, i # item
      PROVE  /\ Among(i)' = Among(i)
             /\ i \in DOMAIN main'.opts <=> i \in DOMAIN main.opts
             /\ i \in DOMAIN main.opts => main'.opts[i] = main.opts[i]
  <2>1. Among(i)' = Among(i)
    <3>1. ~(i \in DOMAIN OptionFor /\ main.args[n].opt = OptionFor[i])
      BY <1>5
    <3> QED BY <1>1, <3>1 DEF Among
  <2> QED BY <1>5, <2>1 DEF With
<1> HIDE DEF n
<1>6. ASSUME NEW i \in Items, i # item
      PROVE  /\ Among(i)' = {} => i \notin DOMAIN main'.opts
             /\ Among(i)' # {} =>
                  /\ i \in DOMAIN main'.opts
                  /\ \E k \in 1 .. main'.read :
                       /\ LastOf(Among(i)', k)
                       /\ i # "port" => main'.opts[i] = main'.args[k].val
                       /\ i = "port" => /\ main'.args[k].val \in Int
                                        /\ main'.opts[i] = uint16(main'.args[k].val)
  BY <1>1, <1>5, <1>6 DEF OptsPart
<1>7. Among(item)' # {}
  BY <1>2
<1>8. /\ item # "port" => main'.opts[item] = main'.args[n].val
      /\ item = "port" => /\ main'.args[n].val \in Int
                          /\ main'.opts[item] = uint16(main'.args[n].val)
  BY <1>4 DEF n
<1> QED BY <1>3, <1>4, <1>6, <1>7, <1>8 DEF OptsPart

(* An argument without a setting. *)
LEMMA OtherArgKeepsOpts ==
    ASSUME OptsPart, main.read \in Nat, main'.args = main.args, main'.read = main.read + 1,
           \A i \in DOMAIN OptionFor : main.args[main.read + 1].opt # OptionFor[i],
           main'.opts = main.opts
    PROVE  OptsPart'
<1>1. \A k : k \in 1 .. (main.read + 1) <=> k \in 1 .. main.read \/ k = main.read + 1
  OBVIOUS
<1>2. \A i : Among(i)' = Among(i)
  BY <1>1 DEF Among
<1> QED BY <1>1, <1>2 DEF OptsPart

LEMMA OptionTable ==
    /\ DOMAIN OptionFor = {"interval", "interface", "dbPath", "port"}
    /\ DOMAIN OptionFor \subseteq Items
    /\ OptionFor["interval"] = "--interval" /\ OptionFor["interface"] = "--interface"
    /\ OptionFor["dbPath"] = "--db-path" /\ OptionFor["port"] = "--port"
    /\ \A i, j \in DOMAIN OptionFor : OptionFor[i] = OptionFor[j] => i = j
BY DEF OptionFor, Items

LEMMA ParseArgsKeeps ==
    ASSUME DInv, ParseArgs
    PROVE  DInv'
<1>1. CASE main.read = Len(main.args)
  <2>1. Goto("config") /\ UNCHANGED <<conf, daemon, built, threads, admin, termSent>>
    BY <1>1 DEF ParseArgs
  <2>2. MainPart' /\ OptsPart'
    BY <1>1, <2>1, GotoKeeps DEF DInv, PCs
  <2>3. /\ main'.pc = "config" /\ main'.path = main.path /\ main'.opts = main.opts
        /\ main'.cfg = main.cfg /\ main'.seen = main.seen /\ main.pc = "args"
    BY <2>1, GotoShape DEF DInv, MainPart, ParseArgs
  <2>4. FilePart' /\ SurvivePart'
    BY <2>1, <2>3 DEF DInv, FilePart, SurvivePart, SettingsSurvive, admin
  <2>5. CfgPart'
    BY <2>3 DEF DInv, CfgPart, Unread, Unmerged
  <2>6. StopPart' /\ BuiltPart'
    BY <2>1, <2>3
    DEF DInv, daemon, StopPart, StaysUp, BuiltPart, ThreadsHaveParts, Before
  <2> QED BY <2>2, <2>4, <2>5, <2>6 DEF DInv
<1>2. CASE main.read # Len(main.args)
  <2> DEFINE arg      == main.args[main.read + 1]
             existing == {p \in Paths : conf[p] # Absent}
             r        == ParseArg([exit |-> "none", path |-> main.path, opts |-> main.opts],
                                  arg, existing)
  <2>1. main.pc = "args" /\ main.read \in Nat /\ main.read + 1 \in 1 .. Len(main.args)
    BY <1>2 DEF ParseArgs, DInv, MainPart
  <2>2. IF r.exit # "none"
        THEN Exit(r.exit)
        ELSE /\ main' = [main EXCEPT !.read = @ + 1, !.path = r.path, !.opts = r.opts]
             /\ UNCHANGED <<conf, daemon, built, threads, admin, termSent>>
    BY <1>2 DEF ParseArgs
  <2>3. \/ r.exit \in {"0", "2"}
        \/ /\ r.exit = "none"
           /\ r.path = main.path \/ r.path \in existing
           /\ arg.opt = "--interval"  => r.opts = With(main.opts, "interval", arg.val)
           /\ arg.opt = "--interface" => r.opts = With(main.opts, "interface", arg.val)
           /\ arg.opt = "--db-path"   => r.opts = With(main.opts, "dbPath", arg.val)
           /\ arg.opt = "--port"      => /\ r.opts = With(main.opts, "port", uint16(arg.val))
                                        /\ arg.val # Junk /\ arg.val # Nothing
           /\ arg.opt \notin {"--interval", "--interface", "--db-path", "--port"} =>
                r.opts = main.opts
    BY ArgShape
  <2> HIDE DEF r
  <2>4. CASE r.exit \in {"0", "2"}
    BY <2>2, <2>4, ExitKeeps
  <2>5. CASE r.exit \notin {"0", "2"}
    <3>1. /\ main' = [main EXCEPT !.read = @ + 1, !.path = r.path, !.opts = r.opts]
          /\ UNCHANGED <<conf, daemon, built, threads, admin, termSent>>
      BY <2>2, <2>3, <2>5
    <3>2. /\ IsMain(main') /\ main'.pc = "args" /\ main'.args = main.args
          /\ main'.read = main.read + 1 /\ main'.path = r.path /\ main'.opts = r.opts
          /\ main'.cfg = main.cfg /\ main'.seen = main.seen /\ main'.exit = main.exit
      BY <2>1, <3>1 DEF DInv, MainPart, IsMain
    <3>3. r.path \in Paths
      BY <2>3, <2>5 DEF DInv, MainPart
    <3>4. MainPart'
      BY <2>1, <3>2, <3>3 DEF DInv, MainPart
    <3>5. arg.opt = "--port" => arg.val \in Int
      BY <2>1, <2>3, <2>5 DEF DInv, MainPart
    <3>6. OptsPart'
      <4>1. CASE arg.opt = "--interval"
        BY <2>1, <2>3, <2>5, <3>2, <4>1, OptionTable, ArgKeepsOpts DEF DInv
      <4>2. CASE arg.opt = "--interface"
        BY <2>1, <2>3, <2>5, <3>2, <4>2, OptionTable, ArgKeepsOpts DEF DInv
      <4>3. CASE arg.opt = "--db-path"
        BY <2>1, <2>3, <2>5, <3>2, <4>3, OptionTable, ArgKeepsOpts DEF DInv
      <4>4. CASE arg.opt = "--port"
        BY <2>1, <2>3, <2>5, <3>2, <3>5, <4>4, OptionTable, ArgKeepsOpts DEF DInv
      <4>5. CASE arg.opt \notin {"--interval", "--interface", "--db-path", "--port"}
        BY <2>1, <2>3, <2>5, <3>2, <4>5, OptionTable, OtherArgKeepsOpts DEF DInv
      <4> QED BY <4>1, <4>2, <4>3, <4>4, <4>5
    <3>7. FilePart' /\ SurvivePart'
      BY <2>1, <3>1, <3>2 DEF DInv, FilePart, SurvivePart, SettingsSurvive, admin
    <3>8. CfgPart'
      BY <2>1, <3>2 DEF DInv, CfgPart, Unread, Unmerged
    <3>9. StopPart' /\ BuiltPart'
      BY <2>1, <3>1, <3>2
      DEF DInv, daemon, StopPart, StaysUp, BuiltPart, ThreadsHaveParts, Before
    <3> QED BY <3>4, <3>6, <3>7, <3>8, <3>9 DEF DInv
  <2> QED BY <2>4, <2>5
<1> QED BY <1>1, <1>2

LEMMA FindFileKeeps ==
    ASSUME DInv, FindFile
    PROVE  DInv'
<1> DEFINE pc == IF conf[main.path] = Absent THEN "truncate" ELSE "read"
<1>1. /\ main.pc = "config" /\ Goto(pc) /\ main.path \in Paths
      /\ UNCHANGED <<conf, daemon, built, threads, admin, termSent>>
  BY DEF FindFile, DInv, MainPart
<1>2. /\ main'.pc = pc /\ main'.path = main.path /\ main'.opts = main.opts
      /\ main'.cfg = main.cfg /\ main'.seen = main.seen
  BY <1>1, GotoShape DEF DInv, MainPart
<1>3. MainPart' /\ OptsPart'
  BY <1>1, GotoKeeps DEF DInv, MainPart, PCs
<1>4. FilePart'
  BY <1>1 DEF DInv, FilePart, admin
<1>5. CfgPart'
  BY <1>1, <1>2 DEF DInv, CfgPart, Unread, Unmerged
<1>6. SurvivePart'
  <2>1. SettingsSurvive'
    BY <1>1, <1>2 DEF DInv, SurvivePart, SettingsSurvive, admin
  <2>2. ASSUME pc = "truncate", lost[main.path] = "no"
        PROVE  Settings(main.seen) = Settings(intent[main.path])
    <3>1. conf[main.path] = Absent /\ main.seen = Absent
      BY <1>1, <2>2 DEF DInv, CfgPart, Unread
    <3>2. conf[main.path] \in {intent[main.path], Settings(intent[main.path])}
      BY <1>1, <2>2 DEF DInv, SurvivePart, SettingsSurvive, Settings
    <3>3. Settings(intent[main.path]) # Absent
      BY <1>1, SettingsType DEF DInv, FilePart
    <3> QED BY <3>1, <3>2, <3>3
  <2> QED BY <1>1, <1>2, <2>1, <2>2 DEF SurvivePart, admin
<1>7. StopPart' /\ BuiltPart'
  BY <1>1, <1>2 DEF DInv, daemon, StopPart, StaysUp, BuiltPart, ThreadsHaveParts, Before
<1> QED BY <1>3, <1>4, <1>5, <1>6, <1>7 DEF DInv

LEMMA ReadFileKeeps ==
    ASSUME DInv, ReadFile
    PROVE  DInv'
<1>1. CASE conf[main.path] = Absent
  BY <1>1, ExitKeeps DEF ReadFile
<1>2. CASE conf[main.path] # Absent
  <2> DEFINE file == conf[main.path]
  <2>1. /\ main.pc = "read" /\ main.path \in Paths
        /\ main' = [main EXCEPT !.pc = "truncate", !.cfg = readConfig(file), !.seen = file]
        /\ UNCHANGED <<conf, daemon, built, threads, admin, termSent>>
    BY <1>2 DEF ReadFile, DInv, MainPart
  <2>2. /\ IsMain(main') /\ main'.pc = "truncate" /\ main'.args = main.args
        /\ main'.read = main.read /\ main'.path = main.path /\ main'.opts = main.opts
        /\ main'.cfg = readConfig(file) /\ main'.seen = file /\ main'.exit = main.exit
    BY <2>1 DEF DInv, MainPart, IsMain
  <2>3. GoodFile(file) /\ Settings(file) = readConfig(file)
    BY <1>2, <2>1 DEF DInv, FilePart, Settings, FileOf
  <2>4. MainPart' /\ OptsPart'
    BY <2>1, <2>2, SameOptions DEF DInv, MainPart, PCs
  <2>5. FilePart'
    BY <2>1 DEF DInv, FilePart, admin
  <2>6. CfgPart'
    BY <2>2, <2>3 DEF CfgPart, Unread, Unmerged
  <2>7. SurvivePart'
    <3>1. SettingsSurvive'
      BY <2>1, <2>2 DEF DInv, SurvivePart, SettingsSurvive, admin
    <3>2. ASSUME lost[main.path] = "no"
          PROVE  Settings(file) = Settings(intent[main.path])
      <4>1. file \in {intent[main.path], Settings(intent[main.path])}
        BY <2>1, <3>2 DEF DInv, SurvivePart, SettingsSurvive, Settings
      <4>2. GoodFile(intent[main.path])
        BY <2>1 DEF DInv, FilePart
      <4> QED BY <4>1, <4>2, SettingsTwice
    <3> QED BY <2>1, <2>2, <3>1, <3>2 DEF SurvivePart, admin
  <2>8. StopPart' /\ BuiltPart'
    BY <2>1, <2>2
    DEF DInv, daemon, StopPart, StaysUp, BuiltPart, ThreadsHaveParts, Before
  <2> QED BY <2>4, <2>5, <2>6, <2>7, <2>8 DEF DInv
<1> QED BY <1>1, <1>2

LEMMA TruncateKeeps ==
    ASSUME DInv, Truncate
    PROVE  DInv'
<1>1. /\ main.pc = "truncate" /\ Goto("write") /\ main.path \in Paths
      /\ conf' = [conf EXCEPT ![main.path] = EmptyFile]
      /\ UNCHANGED <<daemon, built, threads, admin, termSent>>
  BY DEF Truncate, DInv, MainPart
<1>2. /\ main'.pc = "write" /\ main'.path = main.path /\ main'.opts = main.opts
      /\ main'.cfg = main.cfg /\ main'.seen = main.seen
  BY <1>1, GotoShape DEF DInv, MainPart
<1>3. MainPart' /\ OptsPart'
  BY <1>1, GotoKeeps DEF DInv, MainPart, PCs
<1>4. FilePart'
  <2>1. GoodFile(EmptyFile)
    BY DEF GoodFile, EmptyFile
  <2> QED BY <1>1, <2>1 DEF DInv, FilePart, admin
<1>5. CfgPart'
  BY <1>1, <1>2 DEF DInv, CfgPart, Unread, Unmerged
<1>6. SurvivePart'
  BY <1>1, <1>2 DEF DInv, FilePart, SurvivePart, SettingsSurvive, admin
<1>7. StopPart' /\ BuiltPart'
  BY <1>1, <1>2 DEF DInv, daemon, StopPart, StaysUp, BuiltPart, ThreadsHaveParts, Before
<1> QED BY <1>3, <1>4, <1>5, <1>6, <1>7 DEF DInv

LEMMA WriteKeeps ==
    ASSUME DInv, Write
    PROVE  DInv'
<1>1. /\ main.pc = "write" /\ Goto("merge") /\ main.path \in Paths
      /\ \/ conf' = [conf EXCEPT ![main.path] = main.cfg]
         \/ lost[main.path] = "raced" /\ UNCHANGED conf
      /\ UNCHANGED <<daemon, built, threads, admin, termSent>>
  BY DEF Write, Written, DInv, MainPart
<1>2. /\ main'.pc = "merge" /\ main'.path = main.path /\ main'.opts = main.opts
      /\ main'.cfg = main.cfg /\ main'.seen = main.seen
  BY <1>1, GotoShape DEF DInv, MainPart
<1>3. main.cfg = Settings(main.seen) /\ GoodFile(main.seen)
  BY <1>1 DEF DInv, CfgPart, Unmerged
<1>4. MainPart' /\ OptsPart'
  BY <1>1, GotoKeeps DEF DInv, MainPart, PCs
<1>5. FilePart'
  <2>1. GoodFile(main.cfg)
    BY <1>3, SettingsType
  <2> QED BY <1>1, <2>1 DEF DInv, FilePart, admin
<1>6. CfgPart'
  BY <1>1, <1>2 DEF DInv, CfgPart, Unread, Unmerged
<1>7. SurvivePart'
  <2>1. ASSUME NEW p \in Paths, lost[p] = "no"
        PROVE  conf'[p] \in {intent[p], readConfig(FileOf(intent[p]))}
    <3>1. CASE p = main.path
      <4>1. conf'[p] = Settings(main.seen)
        BY <1>1, <1>3, <2>1, <3>1 DEF DInv, FilePart
      <4>2. Settings(main.seen) = Settings(intent[p])
        BY <1>1, <2>1, <3>1 DEF DInv, SurvivePart
      <4> QED BY <4>1, <4>2 DEF Settings
    <3>2. CASE p # main.path
      <4>1. conf'[p] = conf[p]
        BY <1>1, <3>2 DEF DInv, FilePart
      <4> QED BY <2>1, <3>2, <4>1 DEF DInv, SurvivePart, SettingsSurvive
    <3> QED BY <3>1, <3>2
  <2> QED BY <1>1, <1>2, <2>1 DEF SurvivePart, SettingsSurvive, admin
<1>8. StopPart' /\ BuiltPart'
  BY <1>1, <1>2 DEF DInv, daemon, StopPart, StaysUp, BuiltPart, ThreadsHaveParts, Before
<1> QED BY <1>4, <1>5, <1>6, <1>7, <1>8 DEF DInv

LEMMA MergeKeeps ==
    ASSUME DInv, Merge
    PROVE  DInv'
<1> DEFINE cfg == mergeArgs(main.cfg, main.opts)
<1>1. /\ main.pc = "merge" /\ main' = [main EXCEPT !.pc = "handlers", !.cfg = cfg]
      /\ UNCHANGED <<conf, daemon, built, threads, admin, termSent>>
  BY DEF Merge
<1> HIDE DEF cfg
<1>2. /\ IsMain(main') /\ main'.pc = "handlers" /\ main'.args = main.args
      /\ main'.read = main.read /\ main'.path = main.path /\ main'.opts = main.opts
      /\ main'.cfg = cfg /\ main'.seen = main.seen /\ main'.exit = main.exit
  BY <1>1 DEF DInv, MainPart, IsMain
<1>3. MainPart' /\ OptsPart'
  BY <1>1, <1>2, SameOptions DEF DInv, MainPart, PCs
<1>4. FilePart' /\ SurvivePart'
  BY <1>1, <1>2 DEF DInv, FilePart, SurvivePart, SettingsSurvive, admin
<1>5. CfgPart'
  BY <1>1, <1>2 DEF DInv, CfgPart, Unread, Unmerged, cfg
<1>6. StopPart' /\ BuiltPart'
  BY <1>1, <1>2 DEF DInv, daemon, StopPart, StaysUp, BuiltPart, ThreadsHaveParts, Before
<1> QED BY <1>3, <1>4, <1>5, <1>6 DEF DInv

(* Once the settings are complete, moving on leaves them and the files alone. *)
LEMMA RunKeeps ==
    ASSUME DInv, main.pc \notin Unmerged, NEW pc \in PCs \ Unmerged, Goto(pc),
           UNCHANGED <<conf, admin>>
    PROVE  FilePart' /\ MainPart' /\ OptsPart' /\ CfgPart' /\ SurvivePart' /\ main'.pc = pc
<1>1. /\ main'.pc = pc /\ main'.path = main.path /\ main'.opts = main.opts
      /\ main'.cfg = main.cfg /\ main'.seen = main.seen
  BY GotoShape DEF DInv, MainPart
<1>2. MainPart' /\ OptsPart'
  BY GotoKeeps DEF DInv, MainPart, Unmerged, Unread
<1>3. CfgPart'
  BY <1>1 DEF DInv, CfgPart, Unread, Unmerged
<1>4. FilePart' /\ SurvivePart'
  BY <1>1 DEF DInv, FilePart, SurvivePart, SettingsSurvive, Unmerged, admin
<1> QED BY <1>1, <1>2, <1>3, <1>4

LEMMA SameMainKeeps ==
    ASSUME DInv, UNCHANGED <<conf, main, admin>>
    PROVE  FilePart' /\ MainPart' /\ OptsPart' /\ CfgPart' /\ SurvivePart'
<1>1. FilePart' /\ MainPart' /\ CfgPart' /\ SurvivePart'
  BY DEF DInv, FilePart, MainPart, CfgPart, SurvivePart, SettingsSurvive, admin
<1>2. OptsPart'
  BY SameOptions DEF DInv
<1> QED BY <1>1, <1>2

LEMMA InstallKeeps ==
    ASSUME DInv, Install
    PROVE  DInv'
<1>1. /\ main.pc = "handlers" /\ UNCHANGED <<conf, admin>>
      /\ UNCHANGED <<mIsRunning, mReload, built, threads, termSent>>
  BY DEF Install, admin
<1>2. CASE handlers = "default"
  <2>1. handlers' = "partly" /\ UNCHANGED main
    BY <1>2 DEF Install
  <2> QED BY <1>1, <2>1, SameMainKeeps
          DEF DInv, StopPart, StaysUp, BuiltPart, ThreadsHaveParts
<1>3. CASE handlers # "default"
  <2>1. handlers' = "installed" /\ Goto("db")
    BY <1>3 DEF Install
  <2>2. FilePart' /\ MainPart' /\ OptsPart' /\ CfgPart' /\ SurvivePart' /\ main'.pc = "db"
    BY <1>1, <2>1, RunKeeps DEF PCs, Parts, Unmerged, Unread
  <2>3. StopPart' /\ BuiltPart'
    BY <1>1, <2>1, <2>2
    DEF DInv, StopPart, StaysUp, BuiltPart, ThreadsHaveParts, Before
  <2> QED BY <2>2, <2>3 DEF DInv
<1> QED BY <1>2, <1>3

LEMMA TestRunningKeeps ==
    ASSUME DInv, TestRunning
    PROVE  DInv'
<1>1. /\ main.pc = "loop" /\ UNCHANGED <<conf, admin>> /\ mReload' = FALSE
      /\ UNCHANGED <<handlers, mIsRunning, built, threads, termSent>>
      /\ Goto(IF mIsRunning THEN "dispatch" ELSE "teardown")
  BY DEF TestRunning, running, admin
<1>2. /\ FilePart' /\ MainPart' /\ OptsPart' /\ CfgPart' /\ SurvivePart'
      /\ main'.pc = IF mIsRunning THEN "dispatch" ELSE "teardown"
  BY <1>1, RunKeeps DEF PCs, Unmerged, Unread
<1>3. StopPart'
  BY <1>1, <1>2 DEF DInv, StopPart, StaysUp
<1>4. BuiltPart'
  BY <1>1, <1>2 DEF DInv, BuiltPart, ThreadsHaveParts, Before
<1> QED BY <1>2, <1>3, <1>4 DEF DInv

LEMMA DispatchKeeps ==
    ASSUME DInv, Dispatch
    PROVE  DInv'
<1>1. /\ main.pc = "dispatch" /\ UNCHANGED <<conf, admin>> /\ Goto("loop")
      /\ UNCHANGED <<handlers, mIsRunning, mReload, built, threads, termSent>>
  BY DEF Dispatch, admin, daemon
<1>2. FilePart' /\ MainPart' /\ OptsPart' /\ CfgPart' /\ SurvivePart' /\ main'.pc = "loop"
  BY <1>1, RunKeeps DEF PCs, Unmerged, Unread
<1>3. StopPart' /\ BuiltPart'
  BY <1>1, <1>2 DEF DInv, StopPart, StaysUp, BuiltPart, ThreadsHaveParts, Before
<1> QED BY <1>2, <1>3 DEF DInv

LEMMA UnhandledKeeps ==
    ASSUME DInv, main.pc \notin {"off", "hung"}, Unhandled
    PROVE  DInv'
<1>1. CASE handlers # "installed" /\ Exit("signal")
  BY <1>1, ExitKeeps
<1>2. CASE /\ handlers = "partly" /\ Goto("hung")
           /\ UNCHANGED <<conf, daemon, built, threads, admin, termSent>>
  <2>1. main.pc = "handlers"
    BY <1>2 DEF DInv, StopPart
  <2>2. FilePart' /\ MainPart' /\ OptsPart' /\ CfgPart' /\ SurvivePart' /\ main'.pc = "hung"
    BY <1>2, <2>1, RunKeeps DEF PCs, Unmerged, Unread
  <2>3. StopPart' /\ BuiltPart'
    BY <1>2, <2>1, <2>2
    DEF DInv, daemon, StopPart, StaysUp, BuiltPart, ThreadsHaveParts, Before
  <2> QED BY <2>2, <2>3 DEF DInv
<1> QED BY <1>1, <1>2 DEF Unhandled

(* SIGINT, SIGTERM and SIGHUP, handled or not. *)
LEMMA SignalKeeps ==
    ASSUME DInv, Terminate \/ Hangup
    PROVE  DInv'
<1>1. ASSUME main.pc \notin {"off", "hung"}, Unhandled PROVE DInv'
  BY <1>1, UnhandledKeeps
<1>2. ASSUME Stop, UNCHANGED <<conf, main, handlers, built, threads, admin>> PROVE DInv'
  <2>1. StopPart' /\ BuiltPart'
    BY <1>2 DEF DInv, StopPart, StaysUp, Stop, BuiltPart, ThreadsHaveParts
  <2> QED BY <1>2, <2>1, SameMainKeeps DEF DInv
<1>3. ASSUME OnHup, UNCHANGED <<conf, main, handlers, built, threads, admin, termSent>>
      PROVE  DInv'
  <2>1. StopPart' /\ BuiltPart'
    BY <1>3 DEF DInv, StopPart, StaysUp, OnHup, BuiltPart, ThreadsHaveParts
  <2> QED BY <1>3, <2>1, SameMainKeeps DEF DInv
<1>4. CASE Terminate
  BY <1>1, <1>2, <1>4 DEF Terminate
<1>5. CASE Hangup
  BY <1>1, <1>3, <1>5 DEF Hangup
<1> QED BY <1>4, <1>5

-----------------------------------------------------------------------------
(* Construction and destruction. *)

LEMMA BuiltKeeps ==
    ASSUME DInv, main.pc \in Parts, Built(main.pc),
           threads' = threads \/ threads' = threads \cup ThreadsOf(main.pc)
    PROVE  DInv'
<1>1. /\ UNCHANGED <<conf, admin>> /\ UNCHANGED <<handlers, mIsRunning, mReload, termSent>>
      /\ built' = built \cup {main.pc} /\ Goto(NextPart(main.pc))
      /\ main.pc \notin Unmerged
  BY DEF Built, admin, daemon, Parts, Unmerged, Unread
<1>2. /\ NextPart(main.pc) \in PCs \ Unmerged
      /\ NextPart(main.pc) \notin {"teardown", "handlers", "hung"}
  BY NextTable DEF Parts, PCs, Unmerged, Unread
<1>3. /\ FilePart' /\ MainPart' /\ OptsPart' /\ CfgPart' /\ SurvivePart'
      /\ main'.pc = NextPart(main.pc)
  BY <1>1, <1>2, RunKeeps
<1>4. StopPart'
  BY <1>1, <1>2, <1>3 DEF DInv, StopPart, StaysUp, Parts
<1>5. built = Before(main.pc) /\ built \subseteq Parts /\ main.pc # "teardown"
  BY DEF DInv, BuiltPart, Parts
<1>6. built' = Before(main'.pc)
  BY <1>1, <1>3, <1>5, NextTable DEF Before, Parts
<1>7. ThreadsHaveParts'
  <2>1. ASSUME NEW t \in threads PROVE Needs(t) \subseteq built'
    BY <1>1, <1>5 DEF DInv, BuiltPart, ThreadsHaveParts
  <2>2. ASSUME NEW t \in ThreadsOf(main.pc) PROVE Needs(t) \subseteq built'
    BY <1>1, <1>5 DEF ThreadsOf, Needs, Before, Parts
  <2> QED BY <2>1, <2>2 DEF ThreadsHaveParts
<1>8. ThreadsOf(main.pc) \subseteq {"deposit", "server", "clearSockets", "clearProcesses"}
  BY DEF ThreadsOf, Parts
<1>9. BuiltPart'
  BY <1>1, <1>5, <1>6, <1>7, <1>8 DEF DInv, BuiltPart
<1> QED BY <1>3, <1>4, <1>9 DEF DInv

LEMMA DestroyKeeps ==
    ASSUME DInv, Destroy
    PROVE  DInv'
<1>1. CASE built = {}
  BY <1>1, ExitKeeps DEF Destroy
<1>2. CASE built # {}
  <2>1. /\ main.pc = "teardown" /\ built' = built \ {LastBuilt}
        /\ UNCHANGED <<conf, main, admin>>
        /\ UNCHANGED <<handlers, mIsRunning, mReload, threads, termSent>>
    BY <1>2 DEF Destroy, daemon, admin
  <2>2. StopPart' /\ BuiltPart'
    BY <2>1 DEF DInv, StopPart, StaysUp, BuiltPart, ThreadsHaveParts
  <2> QED BY <2>1, <2>2, SameMainKeeps DEF DInv
<1> QED BY <1>1, <1>2

-----------------------------------------------------------------------------
(* Every step keeps the invariant. *)

LEMMA DNextKeeps ==
    ASSUME DInv, [DNext]_dVars
    PROVE  DInv'
<1>1. CASE NotRoot
  BY <1>1, ExitKeeps DEF NotRoot
<1>2. CASE \E args \in CommandLines : Start(args)
  BY <1>2, StartKeeps
<1>3. CASE \E p \in Paths, file \in Contents \cup {Absent} : Edit(p, file)
  BY <1>3, EditKeeps
<1>4. CASE Main
  <2>1. CASE Configure
    <3>1. CASE CannotWrite
      BY <3>1, ExitKeeps DEF CannotWrite
    <3> QED BY <2>1, <3>1, ParseArgsKeeps, FindFileKeeps, ReadFileKeeps, TruncateKeeps,
               WriteKeeps, MergeKeeps
            DEF Configure
  <2>2. CASE Build
    BY <2>2, BuiltKeeps, PartsTable DEF Build
  <2>3. CASE NoApi
    BY <2>3, BuiltKeeps DEF NoApi, Parts
  <2>4. CASE BuildFails
    BY <2>4, ExitKeeps DEF BuildFails
  <2> QED BY <1>4, <2>1, <2>2, <2>3, <2>4, InstallKeeps, TestRunningKeeps, DispatchKeeps,
             DestroyKeeps
          DEF Main, MainGoesOn
<1>5. CASE Terminate \/ Hangup
  BY <1>5, SignalKeeps
<1>6. CASE Killed
  BY <1>6, ExitKeeps DEF Killed
<1>7. CASE UNCHANGED dVars
  <2>1. /\ UNCHANGED <<conf, main, admin>>
        /\ UNCHANGED <<handlers, mIsRunning, mReload, built, threads, termSent>>
    BY <1>7 DEF dVars, daemon, admin
  <2>2. StopPart' /\ BuiltPart'
    BY <2>1 DEF DInv, StopPart, StaysUp, BuiltPart, ThreadsHaveParts
  <2> QED BY <2>1, <2>2, SameMainKeeps DEF DInv
<1> QED BY <1>1, <1>2, <1>3, <1>4, <1>5, <1>6, <1>7 DEF DNext

LEMMA DInvHolds == DSpec => []DInv
<1>1. DInv /\ [DNext]_dVars => DInv'
  BY DNextKeeps
<1> QED BY <1>1, InitHolds, PTL DEF DSpec

-----------------------------------------------------------------------------
(* The theorems. *)

(* For any command lines and files, the state of the process is what the code *)
(* declares; the port in use fits 16 bits wherever it comes from              *)
(* (Config.cpp:95-171, ArgumentParser.cpp:55-96).                             *)
THEOREM DaemonType == DSpec => []DTypeOK
<1>1. DInv => DTypeOK
  <2> SUFFICES ASSUME DInv PROVE DTypeOK
    OBVIOUS
  <2>1. GoodFile(main.seen) /\ Settings(main.seen)["port"] \in Ports
        /\ DOMAIN Settings(main.seen) = Items
    BY SettingsType DEF DInv, CfgPart
  <2>2. DOMAIN main.cfg = Items /\ main.cfg["port"] \in Ports
    <3>1. CASE main.pc \in Unmerged
      BY <2>1, <3>1 DEF DInv, CfgPart
    <3>2. CASE main.pc \notin Unmerged
      <4>1. main.cfg = mergeArgs(Settings(main.seen), main.opts)
        BY <3>2 DEF DInv, CfgPart
      <4>2. "port" \in Items
        BY DEF Items
      <4>3. "port" \in DOMAIN main.opts => main.opts["port"] \in Ports
        BY <4>2, PortRange DEF DInv, OptsPart
      <4> QED BY <2>1, <4>1, <4>2, <4>3 DEF mergeArgs
    <3> QED BY <3>1, <3>2
  <2>3. \A p \in Paths : IsFile(conf[p]) /\ IsFile(intent[p])
    BY DEF DInv, FilePart, GoodFile, IsFile
  <2>4. /\ lost \in [Paths -> {"no", "raced", "torn"}]
        /\ main.pc \in {"off", "args", "config", "read", "truncate", "write", "merge",
                        "handlers", "hung", "loop", "dispatch", "teardown"}
                         \cup ToSet(BuildOrder)
        /\ main.path \in Paths
        /\ main.exit \in {"none", "0", "1", "2", "4", "signal", "killed"}
    BY PartsTable DEF DInv, FilePart, MainPart, PCs
  <2>5. /\ handlers \in {"default", "partly", "installed"}
        /\ {mIsRunning, mReload, termSent} \subseteq BOOLEAN
        /\ built \subseteq ToSet(BuildOrder)
        /\ threads \subseteq {"deposit", "server", "clearSockets", "clearProcesses"}
    BY PartsTable DEF DInv, StopPart, BuiltPart
  <2> QED BY <2>2, <2>3, <2>4, <2>5 DEF DTypeOK
<1> QED BY <1>1, DInvHolds, PTL

(* However often ntmd is started and however it ends, a configuration file   *)
(* holds what the administrator wrote, completed with defaults, unless it was *)
(* torn or raced with (Config.cpp:17-60, 185-187).                            *)
THEOREM FileSurvives == DSpec => []SettingsSurvive
<1>1. DInv => SettingsSurvive
  BY DEF DInv, SurvivePart
<1> QED BY <1>1, DInvHolds, PTL

(* Threads never run without their parts while main has not returned          *)
(* (main.cpp:33-51).                                                          *)
THEOREM PartsOutliveThreads == DSpec => []ThreadsHaveParts
<1>1. DInv => ThreadsHaveParts
  BY DEF DInv, BuiltPart
<1> QED BY <1>1, DInvHolds, PTL

(* Nothing but SIGINT or SIGTERM ends the loop (Daemon.cpp:23-55).            *)
THEOREM OnlyTermStops == DSpec => []StaysUp
<1>1. DInv => StaysUp
  BY DEF DInv, StopPart
<1> QED BY <1>1, DInvHolds, PTL

(* The last occurrence of an option beats the file, and the file beats the    *)
(* default (ArgumentParser.cpp:30-182, Config.cpp:17-60, 173-183).            *)
THEOREM LastArgumentWins == DSpec => []ArgumentsFirst
<1>1. DInv => ArgumentsFirst
  <2> SUFFICES ASSUME DInv, main.pc \in Configured, NEW item \in Items
               PROVE  main.cfg[item] = Wanted(item)
    BY DEF ArgumentsFirst
  <2> DEFINE file == FileOf(main.seen)
             set  == Settings(main.seen)
             k    == CHOOSE n \in Occurrences(item) : \A m \in Occurrences(item) : m <= n
             text == IF item \in DOMAIN file /\ file[item] # Junk THEN file[item]
                     ELSE Defaults[item]
  <2>1. main.cfg = mergeArgs(set, main.opts) /\ GoodFile(main.seen)
    BY PartsTable DEF Configured, Parts, DInv, CfgPart, Unmerged, Unread
  <2>2. Among(item) = Occurrences(item)
    BY PartsTable DEF Configured, Parts, DInv, MainPart, Among, Occurrences
  <2>3. CASE Occurrences(item) # {}
    <3>1. /\ item \in DOMAIN main.opts
          /\ \E j \in 1 .. main.read :
               /\ LastOf(Among(item), j)
               /\ item # "port" => main.opts[item] = main.args[j].val
               /\ item = "port" => main.opts[item] = uint16(main.args[j].val)
      BY <2>2, <2>3 DEF DInv, OptsPart
    <3>2. PICK j \in 1 .. main.read :
               /\ LastOf(Among(item), j)
               /\ item # "port" => main.opts[item] = main.args[j].val
               /\ item = "port" => main.opts[item] = uint16(main.args[j].val)
      BY <3>1
    <3>3. k = j
      <4>1. \A m \in Occurrences(item) : m \in Int
        BY <2>2 DEF Among, DInv, MainPart
      <4>2. j \in Occurrences(item) /\ \A m \in Occurrences(item) : m <= j
        BY <2>2, <3>2 DEF LastOf
      <4>3. k \in Occurrences(item) /\ \A m \in Occurrences(item) : m <= k
        BY <4>2
      <4> HIDE DEF k
      <4> QED BY <4>1, <4>2, <4>3
    <3>4. main.cfg[item] = main.opts[item]
      BY <2>1, <3>1 DEF mergeArgs
    <3> QED BY <2>3, <3>2, <3>3, <3>4 DEF Wanted
  <2>4. CASE Occurrences(item) = {}
    <3>1. main.cfg[item] = set[item]
      BY <2>1, <2>2, <2>4 DEF mergeArgs, DInv, OptsPart
    <3>2. Wanted(item) = IF item = "port" THEN uint16(text) ELSE text
      BY <2>4 DEF Wanted
    <3>3. set[item] = IF item \in DOMAIN file
                      THEN readItem(item, file[item], Defaults[item])
                      ELSE Defaults[item]
      BY DEF Settings, readConfig
    <3>4. CASE item = "port"
      BY <3>1, <3>2, <3>3, <3>4, DefaultsType, PortTwice DEF readItem
    <3>5. CASE item \in {"interface", "dbPath"}
      <4>1. item \in DOMAIN file => file[item] # Junk
        BY <2>1, <3>5 DEF GoodFile, FileOf, EmptyFile
      <4> QED BY <3>1, <3>2, <3>3, <3>5, <4>1 DEF readItem
    <3>6. CASE item \notin {"interface", "dbPath", "port"}
      BY <3>1, <3>2, <3>3, <3>6 DEF readItem
    <3> QED BY <3>4, <3>5, <3>6
  <2> QED BY <2>3, <2>4
<1> QED BY <1>1, DInvHolds, PTL

=============================================================================
