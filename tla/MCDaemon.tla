------------------------------ MODULE MCDaemon ------------------------------
(* Two configuration files, with a good, a bad and an oversized value; command *)
(* lines that repeat an option, name a file, ask for help or are wrong.        *)
EXTENDS Daemon

CONSTANTS etc, other

MCPaths == {etc, other}

MCContents ==
    {[interval |-> 5, interface |-> "eth0"],
     [interval |-> Junk, port |-> 70000, promiscuous |-> TRUE, interface |-> "eth1"]}

Arg(opt, val) == [opt |-> opt, val |-> val]

MCCommandLines ==
    {<<>>,
     <<Arg("--config", other), Arg("--port", 70000), Arg("--interval", 1),
       Arg("--debug", Nothing), Arg("--interface", "eth0"), Arg("--interval", 2)>>,
     <<Arg("--interval", Junk), Arg("--help", Nothing)>>,
     <<Arg("--help", Nothing), Arg("--wrong", Nothing)>>,
     <<Arg("--wrong", Nothing), Arg("--help", Nothing)>>,
     <<Arg("--daemon", Nothing), Arg("--db-path", "my.db"), Arg("--port", Nothing)>>}

MCDeviceLists == {<<"eth0", "lo">>, <<>>}

=============================================================================
