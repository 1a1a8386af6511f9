------------------------------- MODULE Config -------------------------------
(***************************************************************************)
(* The settings of ntmd: the command line (config/ArgumentParser.cpp) and  *)
(* the configuration file (config/Config.cpp), as operators.               *)
(*                                                                         *)
(* A file is a partial function from items to texts: the value of the last *)
(* line for an item, or Junk where the text is not of the item's type.  A  *)
(* command line is a sequence of [opt, val], where val is a text, Junk, or *)
(* Nothing if the line ends there.  Booleans and numbers stand for all     *)
(* their spellings, which are read back as they were written.              *)
(***************************************************************************)
EXTENDS Integers, SequencesExt

CONSTANTS Junk, Nothing, DefaultPath

(* A text that is not of an item's type is neither a number nor a string. *)
ASSUME JunkAssumption == Junk \notin Int /\ Junk # ""

Items == {"interval", "processCacheSize", "interface", "promiscuous", "immediate",
          "dbPath", "port"}

Defaults == [item \in Items |-> CASE item = "interval"         -> 10
                                  [] item = "processCacheSize" -> 5
                                  [] item = "port"             -> 13889
                                  [] item \in {"promiscuous", "immediate"} -> FALSE
                                  [] item \in {"interface", "dbPath"}      -> ""]

wide(n)   == n    \* mutant: the port is an int
uint16(n) == n % 65536
Ports     == 0 .. 65535

-----------------------------------------------------------------------------
(* ArgumentParser: path and options so far, and the exit code if it ends. *)

Failed(parsed, code) == [parsed EXCEPT !.exit = code]

GivenFirst(parsed, item, val) ==    \* mutant: the first occurrence stays
    [parsed EXCEPT !.opts = [i \in DOMAIN @ \cup {item} |-> IF i \in DOMAIN @ THEN @[i] ELSE val]]

Given(parsed, item, val) ==
    [parsed EXCEPT !.opts = [i \in DOMAIN @ \cup {item} |-> IF i = item THEN val ELSE @[i]]]

Valued == {"--interval", "--port", "--config", "--interface", "--db-path"}

(* One round of the loop; existing are the paths of regular files. *)
ParseArg(parsed, arg, existing) ==
    CASE arg.opt = "--help" -> Failed(parsed, "0")
      [] arg.opt \in {"--daemon", "--debug"} -> parsed
      [] arg.opt \notin Valued \cup {"--help", "--daemon", "--debug"} -> Failed(parsed, "2")
      [] arg.opt \in Valued ->
           IF arg.val = Nothing \/ (arg.val = Junk /\ arg.opt \in {"--interval", "--port"})
           THEN Failed(parsed, "2")
           ELSE CASE arg.opt = "--interval"  -> Given(parsed, "interval", arg.val)
                  [] arg.opt = "--port"      -> Given(parsed, "port", uint16(arg.val))
                  [] arg.opt = "--interface" -> Given(parsed, "interface", arg.val)
                  [] arg.opt = "--db-path"   -> Given(parsed, "dbPath", arg.val)
                  [] arg.opt = "--config"    ->
                       IF arg.val \in existing THEN [parsed EXCEPT !.path = arg.val]
                                               ELSE Failed(parsed, "2")

-----------------------------------------------------------------------------
(* Config *)

(* A text that cannot be read leaves the setting as it is; strings always can *)
(* be read.  The port is narrowed to 16 bits.                                 *)
readItem(item, text, current) ==
    CASE item \in {"interface", "dbPath"} -> text
      [] item = "port" -> IF text = Junk THEN current ELSE uint16(text)
      [] OTHER         -> IF text = Junk THEN current ELSE text

readConfig(file) ==
    [item \in Items |-> IF item \in DOMAIN file
                        THEN readItem(item, file[item], Defaults[item])
                        ELSE Defaults[item]]

mergeArgs(cfg, opts) ==
    [item \in Items |-> IF item \in DOMAIN opts THEN opts[item] ELSE cfg[item]]

=============================================================================
