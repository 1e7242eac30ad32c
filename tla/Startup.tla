------------------------------- MODULE Startup -------------------------------
(***************************************************************************)
(* From the command line to a running file system: main of spotify-fs.c    *)
(* and the part of spfs_init that makes the session.                       *)
(*                                                                         *)
(* struct spotifile_config is a function from the fields that are set to   *)
(* their values.  A mountpoint has the path as written (its names, with    *)
(* "/" in front of an absolute one), whether there is a slash at the end,  *)
(* and the absolute path of the directory it stands for.  What the program *)
(* finds in its surroundings is chosen when it looks.                      *)
(***************************************************************************)
EXTENDS Naturals, Sequences, SequencesExt

CONSTANTS
    Items,      \* arguments: records with a key and a value
    MaxArgs,    \* bounds the number of arguments
    Contents,   \* what a configuration file may say; <<>> if it is unreadable
    Mounts,     \* sets of absolute paths where spotifile may be mounted already
    Bitrates    \* the values spotify_bitrate_set knows

VARIABLES
    pc,
    args,       \* the arguments seen so far
    conf,       \* struct spotifile_config
    log,        \* "stdout" or "syslog"
    fuse_args,  \* what fuse_main is called with
    file,       \* the configuration file read and what it says
    mounts,     \* what is mounted when the program looks
    typed,      \* the password typed at the terminal, <<>> if none is
    session,    \* "none", "created", or "failed"
    preferred,  \* bitrate of the session
    status      \* exit status

Fields == {"username", "password", "bitrate", "config_file"}

\* What the program asks a configuration file for.
ASSUME StartupAssumption ==
    \A says \in Contents :
        DOMAIN says \subseteq {"username", "password", "bitrate", "mountpoint"}

vars == <<pc, args, conf, log, fuse_args, file, mounts, typed, session,
          preferred, status>>

Unset == <<>>

\* exit(n)
Exit(n) == pc' = "exited" /\ status' = n

Go(label) == pc' = label /\ UNCHANGED status

Init ==
    /\ pc = "main"
    /\ args = <<>> /\ conf = <<>> /\ log = "syslog" /\ fuse_args = <<>>
    /\ file = [name |-> "none", says |-> <<>>]
    /\ mounts = {} /\ typed = Unset
    /\ session = "none" /\ preferred = "default" /\ status = 0

-----------------------------------------------------------------------------
(* main                                                                    *)

check_root(root) ==
    /\ pc = "main"
    /\ IF root THEN Exit(1) ELSE Go("args")
    /\ UNCHANGED <<args, conf, log, fuse_args, file, mounts, typed, session,
                   preferred>>

\* An assignment to a field of the configuration.
WithField(c, field, v) ==
    [k \in DOMAIN c \cup {field} |-> IF k = field THEN v ELSE c[k]]

\* fuse_opt_parse, which handles the fields itself, with spfs_opt_process.
\* Options that stay for FUSE are kept, the mountpoint and the fields are not.
opt_process(item) ==
    /\ pc = "args" /\ Len(args) < MaxArgs
    /\ args' = Append(args, item)
    /\ conf' = CASE item.key \in Fields \cup {"mountpoint"} ->
                      WithField(conf, item.key, item.value)
                 [] item.key \in {"-f", "-d"} -> WithField(conf, item.key, TRUE)
                 [] OTHER -> conf
    /\ fuse_args' = IF item.key \in Fields \cup {"mountpoint"} THEN fuse_args
                    ELSE Append(fuse_args, item.key)
    /\ CASE item.key = "-h" -> Exit(1)
         [] item.key = "-V" -> Exit(0)
         [] OTHER           -> Go("args")
    /\ UNCHANGED <<log, file, mounts, typed, session, preferred>>

Foreground(c) == "-f" \in DOMAIN c \/ "-d" \in DOMAIN c

args_end ==
    /\ pc = "args"
    /\ fuse_args' = Append(fuse_args, "entry_timeout=0")
    /\ log' = IF Foreground(conf) THEN "stdout" ELSE "syslog"
    /\ Go("config")
    /\ UNCHANGED <<args, conf, file, mounts, typed, session, preferred>>

\* Mutant: the file overrides the command line.
FileFirst(c, says) ==
    [k \in DOMAIN c \cup DOMAIN says |->
        IF k \in DOMAIN says THEN says[k] ELSE c[k]]

\* What the command line leaves unset is taken from the file.
Completed(c, says) ==
    [k \in DOMAIN c \cup DOMAIN says |->
        IF k \in DOMAIN c THEN c[k] ELSE says[k]]

load_configuration(says) ==
    /\ pc = "config"
    /\ LET c == IF "config_file" \in DOMAIN conf THEN conf
                ELSE WithField(conf, "config_file", "spotifile.conf") IN
       /\ file' = [name |-> c.config_file, says |-> says]
       /\ conf' = Completed(c, says)
    /\ Go("mountpoint")
    /\ UNCHANGED <<args, log, fuse_args, mounts, typed, session, preferred>>

\* g_path_get_dirname: all up to the last slash, "." (here <<>>) without one.
dirname(m) == IF m.slash THEN m.written ELSE Front(m.written)

is_mounted(m, mounted) == dirname(m) \in mounted

check_mountpoint(mounted) ==
    /\ pc = "mountpoint"
    /\ IF "mountpoint" \notin DOMAIN conf
       THEN /\ Exit(1)
            /\ UNCHANGED <<mounts, fuse_args>>
       ELSE /\ mounts' = mounted
            /\ IF is_mounted(conf.mountpoint, mounted)
               THEN Exit(0) /\ UNCHANGED fuse_args
               ELSE Go("password") /\ fuse_args' = Append(fuse_args, "mountpoint")
    /\ UNCHANGED <<args, conf, log, file, typed, session, preferred>>

\* getpass may fail and then returns NULL.
ask_password(tty, answer) ==
    /\ pc = "password"
    /\ IF "username" \in DOMAIN conf /\ "password" \notin DOMAIN conf /\ tty
       THEN /\ typed' = answer
            /\ conf' = IF answer = Unset THEN conf
                       ELSE WithField(conf, "password", answer)
       ELSE UNCHANGED <<typed, conf>>
    /\ Go("credentials")
    /\ UNCHANGED <<args, log, fuse_args, file, mounts, session, preferred>>

Needed == {"username", "password"}

check_credentials ==
    /\ pc = "credentials"
    /\ IF Needed \subseteq DOMAIN conf THEN Go("fuse_main") ELSE Exit(1)
    /\ UNCHANGED <<args, conf, log, fuse_args, file, mounts, typed, session,
                   preferred>>

\* FUSE fails to mount, or calls spfs_init.
fuse_main(mounted) ==
    /\ pc = "fuse_main"
    /\ IF mounted THEN Go("init") ELSE Exit(1)
    /\ UNCHANGED <<args, conf, log, fuse_args, file, mounts, typed, session,
                   preferred>>

\* Mutant: any bitrate will do.
AnyBitrate(c) == IF "bitrate" \in DOMAIN c THEN c.bitrate ELSE "default"

\* spotify_bitrate_set
Bitrate(c) ==
    IF "bitrate" \in DOMAIN c /\ c.bitrate \in Bitrates THEN c.bitrate ELSE "default"

\* A failed login is only warned about.
Session(created) == IF created THEN "created" ELSE "failed"

\* spfs_init goes on without a session if there is none.
session_init(created) ==
    /\ pc = "init"
    /\ session' = Session(created)
    /\ preferred' = IF created THEN Bitrate(conf) ELSE preferred
    /\ Go("serving")
    /\ UNCHANGED <<args, conf, log, fuse_args, file, mounts, typed>>

unmount ==
    /\ pc = "serving"
    /\ Exit(0)
    /\ UNCHANGED <<args, conf, log, fuse_args, file, mounts, typed, session,
                   preferred>>

\* The process has ended.
ended == pc = "exited" /\ UNCHANGED vars

Next ==
    \/ \E root \in BOOLEAN : check_root(root)
    \/ \E item \in Items : opt_process(item)
    \/ args_end
    \/ \E says \in Contents : load_configuration(says)
    \/ \E mounted \in Mounts : check_mountpoint(mounted)
    \/ \E tty \in BOOLEAN, answer \in {Unset, <<"typed">>} : ask_password(tty, answer)
    \/ check_credentials
    \/ \E mounted \in BOOLEAN : fuse_main(mounted)
    \/ \E created \in BOOLEAN : session_init(created)
    \/ unmount
    \/ ended

Spec == Init /\ [][Next]_vars

-----------------------------------------------------------------------------
(* Properties.                                                             *)

TypeOK ==
    /\ pc \in {"main", "args", "config", "mountpoint", "password",
               "credentials", "fuse_main", "init", "serving", "exited"}
    /\ args \in Seq(Items)
    /\ DOMAIN conf \subseteq Fields \cup {"mountpoint", "-f", "-d"}
    /\ log \in {"stdout", "syslog"} /\ status \in {0, 1}
    /\ session \in {"none", "created", "failed"}
    /\ preferred \in Bitrates \cup {"default"}

\* Whether arguments give a value to a field, and whether v is the last one.
Given(items, k) == \E i \in DOMAIN items : items[i].key = k

GivenLast(items, k, v) ==
    \E i \in DOMAIN items :
        /\ items[i].key = k /\ items[i].value = v
        /\ \A j \in i + 1 .. Len(items) : items[j].key # k

\* What was given last on the command line counts; only what was not given
\* there is taken from the configuration file named there, and only a
\* password found in neither is typed.
CommandLineFirst ==
    \A k \in {"username", "password", "bitrate", "mountpoint"} :
        IF Given(args, k)
        THEN k \in DOMAIN conf /\ GivenLast(args, k, conf[k])
        ELSE IF k \in DOMAIN file.says
             THEN k \in DOMAIN conf /\ conf[k] = file.says[k]
             ELSE /\ k \in DOMAIN conf => k = "password" /\ conf[k] = typed
                  /\ k # "bitrate" => k \in DOMAIN conf

\* FUSE has one mountpoint, whichever way it was given and however often,
\* and none of the credentials.
OneMountpoint ==
    /\ \E i \in DOMAIN fuse_args : \A j \in DOMAIN fuse_args :
          fuse_args[j] = "mountpoint" <=> j = i
    /\ ToSet(fuse_args) \cap Fields = {}

\* Messages go to the terminal exactly if FUSE stays there, which it does if
\* it sees one of its own options for it.
LogsFollowFuse ==
    (log = "stdout") <=> (ToSet(fuse_args) \cap {"-f", "-d"} # {})

\* The file system is served the way it was asked for, by arguments in any
\* order, file and terminal together.
ServedAsAsked ==
    pc = "serving" => CommandLineFirst /\ OneMountpoint /\ LogsFollowFuse

\* A mountpoint that is in use when the program looks is noticed ("Already
\* mounted"): nothing is mounted there a second time.  The code does not keep
\* this for a mountpoint without a slash at the end, or a relative one.
MountedIsNoticed ==
    "mountpoint" \in ToSet(fuse_args) => conf.mountpoint.at \notin mounts

=============================================================================
