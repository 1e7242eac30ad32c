------------------------------ MODULE MCStartup ------------------------------
(* Instances of Startup: every option, two values where the last one wins. *)
EXTENDS Startup

\* A directory, with a slash at the end, without one, and from within its
\* parent; and that parent.
Here == <<"/", "home", "spotifile">>
Above == <<"/", "home">>
Slashed == [written |-> Here, slash |-> TRUE, at |-> Here]
Plain == [written |-> Here, slash |-> FALSE, at |-> Here]
Relative == [written |-> <<"spotifile">>, slash |-> TRUE, at |-> Here]

Item(k, v) == [key |-> k, value |-> v]

MCItems ==
    {Item(k, 1) : k \in {"-f", "-d", "-s", "-h", "-V"}}
    \cup {Item("username", n) : n \in {"me", "you"}}
    \cup {Item("password", <<"secret">>), Item("config_file", "mine")}
    \cup {Item("bitrate", b) : b \in {"320kbps", "fast"}}
    \cup {Item("mountpoint", m) : m \in {Slashed, Plain, Relative}}

Full == [username |-> "saved", password |-> <<"kept">>, bitrate |-> "96kbps",
         mountpoint |-> Slashed]
MCContents ==
    {<<>>, Full, [username |-> "saved"], [password |-> <<"kept">>, mountpoint |-> Plain]}

MCMounts == {{}, {Here}, {Above}}
MCBitrates == {"96kbps", "160kbps", "320kbps"}
=============================================================================
