---------------------------- MODULE StartupProofs ----------------------------
(***************************************************************************)
(* Theorems about Startup, for any arguments and any number of them, any   *)
(* configuration files and whatever else the program finds.                *)
(***************************************************************************)
EXTENDS Startup, SequenceLemmas

-----------------------------------------------------------------------------
(* Configurations, and arguments one after the other.                      *)

LEMMA OneMore ==
    ASSUME NEW S, NEW s \in Seq(S), NEW x \in S
    PROVE  /\ Append(s, x) \in Seq(S)
           /\ ToSet(Append(s, x)) = ToSet(s) \cup {x}
<1>1. PICK n \in Nat : n = Len(s)
  BY LenProperties
<1> DEFINE t == Append(s, x)
<1>2. /\ t \in Seq(S) /\ Len(t) = n + 1
      /\ \A i \in 1 .. n : t[i] = s[i]
      /\ t[n + 1] = x
  BY <1>1, AppendProperties
<1> HIDE DEF t
<1>3. DOMAIN s = 1 .. n /\ DOMAIN t = 1 .. n + 1
  BY <1>1, <1>2, LenProperties
<1>4. \A i \in 1 .. n + 1 : i \in 1 .. n \/ i = n + 1
  OBVIOUS
<1>5. n + 1 \in 1 .. n + 1 /\ \A i \in 1 .. n : i \in 1 .. n + 1
  OBVIOUS
<1>6. ToSet(t) = ToSet(s) \cup {x}
  BY <1>2, <1>3, <1>4, <1>5 DEF ToSet
<1> QED BY <1>2, <1>6 DEF t

\* One more argument.
LEMMA NextGiven ==
    ASSUME NEW items \in Seq(Items), NEW item \in Items, NEW k
    PROVE  /\ Given(Append(items, item), k) <=> Given(items, k) \/ item.key = k
           /\ item.key = k => GivenLast(Append(items, item), k, item.value)
           /\ item.key # k => \A v : GivenLast(items, k, v) =>
                                     GivenLast(Append(items, item), k, v)
<1>1. PICK n \in Nat : n = Len(items)
  BY LenProperties
<1> DEFINE t == Append(items, item)
<1>2. /\ t \in Seq(Items) /\ Len(t) = n + 1
      /\ \A i \in 1 .. n : t[i] = items[i]
      /\ t[n + 1] = item
  BY <1>1, AppendProperties
<1> HIDE DEF t
<1>3. DOMAIN items = 1 .. n /\ DOMAIN t = 1 .. n + 1
  BY <1>1, <1>2, LenProperties
<1>4. \A i \in 1 .. n + 1 : i \in 1 .. n \/ i = n + 1
  OBVIOUS
<1>5. n + 1 \in 1 .. n + 1 /\ \A i \in 1 .. n : i \in 1 .. n + 1
  OBVIOUS
<1>6. Given(t, k) <=> Given(items, k) \/ item.key = k
  BY <1>2, <1>3, <1>4, <1>5 DEF Given
<1>7. ASSUME item.key = k PROVE GivenLast(t, k, item.value)
  <2>1. \A j \in (n + 1) + 1 .. n + 1 : t[j].key # k
    OBVIOUS
  <2> QED BY <1>2, <1>3, <1>5, <1>7, <2>1 DEF GivenLast
<1>8. ASSUME item.key # k, NEW v, GivenLast(items, k, v)
      PROVE  GivenLast(t, k, v)
  <2>1. PICK i \in 1 .. n : /\ items[i].key = k /\ items[i].value = v
                            /\ \A j \in i + 1 .. n : items[j].key # k
    BY <1>1, <1>3, <1>8 DEF GivenLast
  <2>2. ASSUME NEW j \in i + 1 .. n + 1 PROVE t[j].key # k
    <3>1. j = n + 1 \/ j \in i + 1 .. n
      OBVIOUS
    <3>2. j \in i + 1 .. n => j \in 1 .. n
      OBVIOUS
    <3> QED BY <1>2, <1>8, <2>1, <3>1, <3>2
  <2> QED BY <1>2, <1>3, <1>5, <2>1, <2>2 DEF GivenLast
<1> QED BY <1>6, <1>7, <1>8 DEF t

\* A mountpoint given to FUSE once.
Once(words) ==
    \E i \in DOMAIN words : \A j \in DOMAIN words :
        words[j] = "mountpoint" <=> j = i

LEMMA FirstMountpoint ==
    ASSUME NEW S, NEW s \in Seq(S), "mountpoint" \in S,
           "mountpoint" \notin ToSet(s)
    PROVE  Once(Append(s, "mountpoint"))
<1>1. PICK n \in Nat : n = Len(s)
  BY LenProperties
<1> DEFINE t == Append(s, "mountpoint")
<1>2. /\ t \in Seq(S) /\ Len(t) = n + 1
      /\ \A i \in 1 .. n : t[i] = s[i]
      /\ t[n + 1] = "mountpoint"
  BY <1>1, AppendProperties
<1> HIDE DEF t
<1>3. DOMAIN s = 1 .. n /\ DOMAIN t = 1 .. n + 1
  BY <1>1, <1>2, LenProperties
<1>4. ASSUME NEW i \in 1 .. n + 1 PROVE t[i] = "mountpoint" <=> i = n + 1
  <2>1. CASE i = n + 1
    BY <1>2, <2>1
  <2>2. CASE i # n + 1
    <3>1. i \in 1 .. n
      BY <2>2
    <3>2. s[i] # "mountpoint"
      BY <1>3, <3>1 DEF ToSet
    <3> QED BY <1>2, <2>2, <3>1, <3>2
  <2> QED BY <2>1, <2>2
<1>5. n + 1 \in 1 .. n + 1
  OBVIOUS
<1>6. Once(t)
  <2>1. /\ n + 1 \in DOMAIN t
        /\ \A j \in DOMAIN t : t[j] = "mountpoint" <=> j = n + 1
    BY <1>3, <1>4, <1>5
  <2> QED BY <2>1 DEF Once
<1> QED BY <1>6 DEF t

-----------------------------------------------------------------------------
(* The inductive invariant: at each stage of main, where each value of the *)
(* configuration is from, and what FUSE will be started with.              *)

Words == {item.key : item \in Items} \cup {"entry_timeout=0", "mountpoint"}

Typed == TypeOK /\ fuse_args \in Seq(Words)

Asked == {"username", "password", "bitrate", "mountpoint"}

\* k is as the command line says, or else rest holds.
FirstOf(k, rest) ==
    IF Given(args, k) THEN k \in DOMAIN conf /\ GivenLast(args, k, conf[k])
    ELSE rest

\* The same with the configuration file.
SecondOf(k, rest) ==
    FirstOf(k, IF k \in DOMAIN file.says
               THEN k \in DOMAIN conf /\ conf[k] = file.says[k] ELSE rest)

Parsing == {"main", "args"}
Loading == Parsing \cup {"config"}
Mounting == {"mountpoint"}
Mounted == {"password", "credentials", "fuse_main", "init", "serving"}
Ready == {"fuse_main", "init", "serving"}

Settings ==
    /\ pc \in Loading => \A k \in Asked : FirstOf(k, k \notin DOMAIN conf)
    /\ pc \in Mounting \cup {"password"} =>
          \A k \in Asked : SecondOf(k, k \notin DOMAIN conf)
    /\ pc \in Mounted =>
          /\ \A k \in Asked :
                SecondOf(k, k \in DOMAIN conf => k = "password" /\ conf[k] = typed)
          /\ "mountpoint" \in DOMAIN conf
    /\ pc \in Ready => Needed \subseteq DOMAIN conf

Signals == ToSet(fuse_args) \cap {"-f", "-d"} # {}

ForFuse ==
    /\ ToSet(fuse_args) \cap Fields = {}
    /\ pc \in Parsing => (Foreground(conf) <=> Signals)
    /\ pc \in {"config"} \cup Mounting \cup Mounted =>
          ((log = "stdout") <=> Signals)
    /\ pc \in Loading \cup Mounting => "mountpoint" \notin ToSet(fuse_args)
    /\ pc \in Mounted => Once(fuse_args)

StartupInv == Typed /\ Settings /\ ForFuse

LEMMA StartupInit == ASSUME Init PROVE StartupInv
<1>1. Typed
  BY EmptySeq DEF Init, Typed, TypeOK
<1>2. \A k : ~ Given(<<>>, k)
  BY DEF Given
<1>3. Settings
  BY <1>2 DEF Init, Settings, Loading, Parsing, Mounting, Mounted, Ready,
              FirstOf
<1>4. ToSet(<<>>) = {}
  BY DEF ToSet
<1>5. ForFuse
  BY <1>4 DEF Init, ForFuse, Loading, Parsing, Mounting, Mounted, Signals,
              Foreground
<1> QED BY <1>1, <1>3, <1>5 DEF StartupInv

\* Steps that only go on, or end.
LEMMA OnlyOn ==
    ASSUME StartupInv,
           UNCHANGED <<args, conf, log, fuse_args, file, typed>>,
           \/ pc' = "exited"
           \/ pc = "main" /\ pc' = "args"
           \/ pc = "credentials" /\ pc' = "fuse_main" /\ Needed \subseteq DOMAIN conf
           \/ pc = "fuse_main" /\ pc' = "init"
           \/ pc = "init" /\ pc' = "serving"
    PROVE  Settings' /\ ForFuse'
<1>1. Settings'
  BY DEF StartupInv, Settings, Loading, Parsing, Mounting, Mounted, Ready,
         FirstOf, SecondOf
<1>2. ForFuse'
  BY DEF StartupInv, ForFuse, Loading, Parsing, Mounting, Mounted, Signals,
         Foreground
<1> QED BY <1>1, <1>2

LEMMA OptionKeeps ==
    ASSUME StartupInv, NEW item \in Items, opt_process(item)
    PROVE  StartupInv'
<1>1. /\ pc = "args" /\ args' = Append(args, item)
      /\ args \in Seq(Items) /\ fuse_args \in Seq(Words)
      /\ DOMAIN conf \subseteq Fields \cup {"mountpoint", "-f", "-d"}
      /\ UNCHANGED <<log, file, mounts, typed, session, preferred>>
  BY DEF StartupInv, Typed, TypeOK, opt_process
<1>2. pc' \in {"args", "exited"} /\ status' \in {0, 1}
  BY DEF opt_process, Exit, Go, StartupInv, Typed, TypeOK
<1>3. item.key \in Words
  BY DEF Words
<1>4. /\ Append(args, item) \in Seq(Items)
      /\ Append(fuse_args, item.key) \in Seq(Words)
      /\ ToSet(Append(fuse_args, item.key)) = ToSet(fuse_args) \cup {item.key}
  BY <1>1, <1>3, OneMore
<1>5. /\ item.key \in Fields \cup {"mountpoint"} =>
            /\ conf' = WithField(conf, item.key, item.value)
            /\ fuse_args' = fuse_args
      /\ item.key \notin Fields \cup {"mountpoint"} =>
            /\ conf' = IF item.key \in {"-f", "-d"}
                       THEN WithField(conf, item.key, TRUE) ELSE conf
            /\ fuse_args' = Append(fuse_args, item.key)
  BY DEF opt_process, Fields
<1>6. /\ DOMAIN conf' \subseteq Fields \cup {"mountpoint", "-f", "-d"}
      /\ fuse_args' \in Seq(Words)
  <2>1. CASE item.key \in Fields \cup {"mountpoint"}
    BY <1>1, <1>5, <2>1 DEF WithField
  <2>2. CASE item.key \notin Fields \cup {"mountpoint"}
    <3>1. conf' = conf \/ DOMAIN conf' = DOMAIN conf \cup {item.key}
      BY <1>5, <2>2 DEF WithField
    <3>2. conf' # conf => item.key \in {"-f", "-d"}
      BY <1>5, <2>2
    <3> QED BY <1>1, <1>4, <1>5, <2>2, <3>1, <3>2
  <2> QED BY <2>1, <2>2
<1>7. Typed'
  BY <1>1, <1>2, <1>4, <1>6 DEF StartupInv, Typed, TypeOK
<1>8. ASSUME NEW k \in Asked
      PROVE  IF Given(args', k)
             THEN k \in DOMAIN conf' /\ GivenLast(args', k, conf'[k])
             ELSE k \notin DOMAIN conf'
  <2>1. IF Given(args, k) THEN k \in DOMAIN conf /\ GivenLast(args, k, conf[k])
        ELSE k \notin DOMAIN conf
    BY <1>1 DEF StartupInv, Settings, Loading, Parsing, FirstOf
  <2>2. /\ Given(args', k) <=> Given(args, k) \/ item.key = k
        /\ item.key = k => GivenLast(args', k, item.value)
        /\ item.key # k => \A v : GivenLast(args, k, v) => GivenLast(args', k, v)
    BY <1>1, NextGiven
  <2>3. k \in Fields \cup {"mountpoint"} /\ k \notin {"-f", "-d"}
    BY DEF Asked, Fields
  <2>4. CASE item.key = k
    <3>1. k \in DOMAIN conf' /\ conf'[k] = item.value
      BY <1>5, <2>3, <2>4 DEF WithField
    <3> QED BY <2>2, <2>4, <3>1
  <2>5. CASE item.key # k
    <3>1. /\ k \in DOMAIN conf' <=> k \in DOMAIN conf
          /\ k \in DOMAIN conf => conf'[k] = conf[k]
      <4>1. \/ conf' = conf
            \/ \E v : conf' = WithField(conf, item.key, v)
        BY <1>5
      <4> QED BY <2>5, <4>1 DEF WithField
    <3> QED BY <2>1, <2>2, <2>5, <3>1
  <2> QED BY <2>4, <2>5
<1>9. Settings'
  BY <1>2, <1>8 DEF Settings, Loading, Parsing, Mounting, Mounted, Ready, FirstOf
<1>10. /\ ToSet(fuse_args) \cap Fields = {}
       /\ Foreground(conf) <=> Signals
       /\ "mountpoint" \notin ToSet(fuse_args)
  BY <1>1 DEF StartupInv, ForFuse, Loading, Parsing
<1>11. CASE item.key \in Fields \cup {"mountpoint"}
  <2>1. item.key \notin {"-f", "-d"}
    BY <1>11 DEF Fields
  <2>2. fuse_args' = fuse_args /\ DOMAIN conf' = DOMAIN conf \cup {item.key}
    BY <1>5, <1>11 DEF WithField
  <2>3. /\ Foreground(conf') <=> Foreground(conf)
        /\ Signals' <=> Signals
    BY <2>1, <2>2 DEF Foreground, Signals
  <2> QED
    BY <1>2, <1>7, <1>9, <1>10, <2>2, <2>3
    DEF StartupInv, ForFuse, Loading, Parsing, Mounting, Mounted
<1>12. CASE item.key \notin Fields \cup {"mountpoint"}
  <2>1. ToSet(fuse_args') = ToSet(fuse_args) \cup {item.key}
    BY <1>4, <1>5, <1>12
  <2>2. /\ ToSet(fuse_args') \cap Fields = {}
        /\ "mountpoint" \notin ToSet(fuse_args')
    BY <1>10, <1>12, <2>1
  <2>3. Foreground(conf') <=> Signals'
    <3>1. CASE item.key \in {"-f", "-d"}
      BY <1>5, <1>12, <2>1, <3>1 DEF WithField, Foreground, Signals
    <3>2. CASE item.key \notin {"-f", "-d"}
      BY <1>5, <1>10, <1>12, <2>1, <3>2 DEF Foreground, Signals
    <3> QED BY <3>1, <3>2
  <2> QED
    BY <1>2, <1>7, <1>9, <2>2, <2>3
    DEF StartupInv, ForFuse, Loading, Parsing, Mounting, Mounted
<1> QED BY <1>11, <1>12

LEMMA ArgsEndKeeps == ASSUME StartupInv, args_end PROVE StartupInv'
<1>1. /\ pc = "args" /\ pc' = "config" /\ status' = status
      /\ fuse_args' = Append(fuse_args, "entry_timeout=0")
      /\ log' = IF Foreground(conf) THEN "stdout" ELSE "syslog"
      /\ UNCHANGED <<args, conf, file, mounts, typed, session, preferred>>
  BY DEF args_end, Go
<1>2. "entry_timeout=0" \in Words
  BY DEF Words
<1>3. /\ fuse_args' \in Seq(Words)
      /\ ToSet(fuse_args') = ToSet(fuse_args) \cup {"entry_timeout=0"}
  BY <1>1, <1>2, OneMore DEF StartupInv, Typed
<1>4. Typed'
  BY <1>1, <1>3 DEF StartupInv, Typed, TypeOK
<1>5. Settings'
  BY <1>1 DEF StartupInv, Settings, Loading, Parsing, Mounting, Mounted, Ready,
              FirstOf
<1>6. /\ ToSet(fuse_args) \cap Fields = {}
      /\ Foreground(conf) <=> Signals
      /\ "mountpoint" \notin ToSet(fuse_args)
  BY <1>1 DEF StartupInv, ForFuse, Loading, Parsing
<1>7. Signals' <=> Signals
  BY <1>3 DEF Signals
<1>8. /\ ToSet(fuse_args') \cap Fields = {}
      /\ "mountpoint" \notin ToSet(fuse_args')
  BY <1>3, <1>6 DEF Fields
<1>9. (log' = "stdout") <=> Signals'
  BY <1>1, <1>6, <1>7
<1>10. ForFuse'
  BY <1>1, <1>8, <1>9 DEF ForFuse, Loading, Parsing, Mounting, Mounted
<1> QED BY <1>4, <1>5, <1>10 DEF StartupInv

LEMMA ConfigKeeps ==
    ASSUME StartupInv, NEW says \in Contents, load_configuration(says)
    PROVE  StartupInv'
<1> DEFINE c == IF "config_file" \in DOMAIN conf THEN conf
                ELSE WithField(conf, "config_file", "spotifile.conf")
<1>1. /\ pc = "config" /\ pc' = "mountpoint" /\ status' = status
      /\ file'.says = says /\ conf' = Completed(c, says)
      /\ UNCHANGED <<args, log, fuse_args, mounts, typed, session, preferred>>
  BY DEF load_configuration, Go
<1>2. /\ DOMAIN c = DOMAIN conf \cup {"config_file"}
      /\ \A k \in DOMAIN conf : c[k] = conf[k]
  BY DEF WithField
<1> HIDE DEF c
<1>3. DOMAIN says \subseteq Asked
  BY StartupAssumption DEF Asked
<1>4. /\ DOMAIN conf' = DOMAIN c \cup DOMAIN says
      /\ \A k \in DOMAIN c : conf'[k] = c[k]
      /\ \A k \in DOMAIN says : k \notin DOMAIN c => conf'[k] = says[k]
  BY <1>1 DEF Completed
<1>5. Typed'
  BY <1>1, <1>2, <1>3, <1>4 DEF StartupInv, Typed, TypeOK, Asked, Fields
<1>6. ASSUME NEW k \in Asked
      PROVE  IF Given(args', k)
             THEN k \in DOMAIN conf' /\ GivenLast(args', k, conf'[k])
             ELSE IF k \in DOMAIN says
                  THEN k \in DOMAIN conf' /\ conf'[k] = says[k]
                  ELSE k \notin DOMAIN conf'
  <2>1. IF Given(args, k) THEN k \in DOMAIN conf /\ GivenLast(args, k, conf[k])
        ELSE k \notin DOMAIN conf
    BY <1>1 DEF StartupInv, Settings, Loading, Parsing, FirstOf
  <2>2. k # "config_file" /\ args' = args
    BY <1>1 DEF Asked
  <2>3. k \in DOMAIN c <=> k \in DOMAIN conf
    BY <1>2, <2>2
  <2> QED BY <1>2, <1>4, <2>1, <2>2, <2>3
<1>7. Settings'
  BY <1>1, <1>6 DEF Settings, Loading, Parsing, Mounting, Mounted, Ready,
                    FirstOf, SecondOf
<1>8. ForFuse'
  BY <1>1 DEF StartupInv, ForFuse, Loading, Parsing, Mounting, Mounted, Signals
<1> QED BY <1>5, <1>7, <1>8 DEF StartupInv

LEMMA MountpointKeeps ==
    ASSUME StartupInv, NEW mounted \in Mounts, check_mountpoint(mounted)
    PROVE  StartupInv'
<1>1. /\ pc = "mountpoint"
      /\ UNCHANGED <<args, conf, log, file, typed, session, preferred>>
  BY DEF check_mountpoint
<1>2. \/ pc' = "exited" /\ fuse_args' = fuse_args /\ status' \in {0, 1}
      \/ /\ pc' = "password" /\ "mountpoint" \in DOMAIN conf
         /\ fuse_args' = Append(fuse_args, "mountpoint") /\ status' = status
  BY DEF check_mountpoint, Exit, Go
<1>3. CASE pc' = "exited" /\ fuse_args' = fuse_args /\ status' \in {0, 1}
  <2>1. Typed'
    BY <1>1, <1>3 DEF StartupInv, Typed, TypeOK
  <2> QED BY <1>1, <1>3, <2>1, OnlyOn DEF StartupInv
<1>4. CASE /\ pc' = "password" /\ "mountpoint" \in DOMAIN conf
           /\ fuse_args' = Append(fuse_args, "mountpoint") /\ status' = status
  <2>1. "mountpoint" \in Words
    BY DEF Words
  <2>2. fuse_args \in Seq(Words) /\ "mountpoint" \notin ToSet(fuse_args)
    BY <1>1 DEF StartupInv, Typed, ForFuse, Loading, Parsing, Mounting
  <2>3. /\ fuse_args' \in Seq(Words)
        /\ ToSet(fuse_args') = ToSet(fuse_args) \cup {"mountpoint"}
    BY <1>4, <2>1, <2>2, OneMore
  <2>4. Once(fuse_args')
    BY <1>4, <2>1, <2>2, FirstMountpoint
  <2>5. Typed'
    BY <1>1, <1>4, <2>3 DEF StartupInv, Typed, TypeOK
  <2>6. Settings'
    BY <1>1, <1>4 DEF StartupInv, Settings, Loading, Parsing, Mounting, Mounted,
                      Ready, FirstOf, SecondOf
  <2>7. Signals' <=> Signals
    BY <2>3 DEF Signals
  <2>8. ToSet(fuse_args') \cap Fields = {}
    BY <2>3 DEF StartupInv, ForFuse, Fields
  <2>9. ForFuse'
    BY <1>1, <1>4, <2>4, <2>7, <2>8
    DEF StartupInv, ForFuse, Loading, Parsing, Mounting, Mounted
  <2> QED BY <2>5, <2>6, <2>9 DEF StartupInv
<1> QED BY <1>2, <1>3, <1>4

LEMMA PasswordKeeps ==
    ASSUME StartupInv, NEW tty \in BOOLEAN, NEW answer, ask_password(tty, answer)
    PROVE  StartupInv'
<1>1. /\ pc = "password" /\ pc' = "credentials" /\ status' = status
      /\ UNCHANGED <<args, log, fuse_args, file, mounts, session, preferred>>
  BY DEF ask_password, Go
<1>2. \/ UNCHANGED conf
      \/ /\ "password" \notin DOMAIN conf /\ typed' = answer
         /\ conf' = WithField(conf, "password", answer)
  BY DEF ask_password
<1>3. ASSUME NEW k \in Asked
      PROVE  /\ SecondOf(k, k \notin DOMAIN conf)
             /\ "mountpoint" \in DOMAIN conf
  BY <1>1 DEF StartupInv, Settings, Mounting, Mounted
<1>4. CASE UNCHANGED conf
  <2>1. Settings'
    BY <1>1, <1>3, <1>4 DEF Settings, Loading, Parsing, Mounting, Mounted, Ready,
                            FirstOf, SecondOf, Asked
  <2>2. Typed' /\ ForFuse'
    BY <1>1, <1>4 DEF StartupInv, Typed, TypeOK, ForFuse, Loading, Parsing,
                      Mounting, Mounted, Signals
  <2> QED BY <2>1, <2>2 DEF StartupInv
<1>5. CASE /\ "password" \notin DOMAIN conf /\ typed' = answer
           /\ conf' = WithField(conf, "password", answer)
  <2>1. /\ DOMAIN conf' = DOMAIN conf \cup {"password"}
        /\ conf'["password"] = answer
        /\ \A k \in DOMAIN conf : conf'[k] = conf[k]
    BY <1>5 DEF WithField
  <2>2. ASSUME NEW k \in Asked
        PROVE  SecondOf(k, k \in DOMAIN conf => k = "password" /\ conf[k] = typed)'
    BY <1>1, <1>3, <1>5, <2>1 DEF SecondOf, FirstOf
  <2>3. "mountpoint" \in DOMAIN conf'
    BY <1>3, <2>1 DEF Asked
  <2>4. Settings'
    BY <1>1, <2>2, <2>3 DEF Settings, Loading, Parsing, Mounting, Mounted, Ready
  <2>5. DOMAIN conf' \subseteq Fields \cup {"mountpoint", "-f", "-d"}
    BY <2>1 DEF StartupInv, Typed, TypeOK, Fields
  <2>6. Typed'
    BY <1>1, <2>5 DEF StartupInv, Typed, TypeOK
  <2>7. ForFuse'
    BY <1>1 DEF StartupInv, ForFuse, Loading, Parsing, Mounting, Mounted, Signals
  <2> QED BY <2>4, <2>6, <2>7 DEF StartupInv
<1> QED BY <1>2, <1>4, <1>5

LEMMA StartupInvariant == Spec => []StartupInv
<1>1. Init => StartupInv
  BY StartupInit
<1>2. ASSUME StartupInv, [Next]_vars PROVE StartupInv'
  <2>1. ASSUME NEW root \in BOOLEAN, check_root(root) PROVE StartupInv'
    <3>1. Typed'
      BY <1>2, <2>1 DEF check_root, Exit, Go, StartupInv, Typed, TypeOK
    <3> QED BY <1>2, <2>1, <3>1, OnlyOn DEF check_root, Exit, Go, StartupInv
  <2>2. ASSUME NEW item \in Items, opt_process(item) PROVE StartupInv'
    BY <1>2, <2>2, OptionKeeps
  <2>3. CASE args_end
    BY <1>2, <2>3, ArgsEndKeeps
  <2>4. ASSUME NEW says \in Contents, load_configuration(says)
        PROVE  StartupInv'
    BY <1>2, <2>4, ConfigKeeps
  <2>5. ASSUME NEW mounted \in Mounts, check_mountpoint(mounted)
        PROVE  StartupInv'
    BY <1>2, <2>5, MountpointKeeps
  <2>6. ASSUME NEW tty \in BOOLEAN, NEW answer, ask_password(tty, answer)
        PROVE  StartupInv'
    BY <1>2, <2>6, PasswordKeeps
  <2>7. CASE check_credentials
    <3>1. Typed'
      BY <1>2, <2>7 DEF check_credentials, Exit, Go, StartupInv, Typed, TypeOK
    <3> QED BY <1>2, <2>7, <3>1, OnlyOn
            DEF check_credentials, Exit, Go, StartupInv
  <2>8. ASSUME NEW mounted \in BOOLEAN, fuse_main(mounted) PROVE StartupInv'
    <3>1. Typed'
      BY <1>2, <2>8 DEF fuse_main, Exit, Go, StartupInv, Typed, TypeOK
    <3> QED BY <1>2, <2>8, <3>1, OnlyOn DEF fuse_main, Exit, Go, StartupInv
  <2>9. ASSUME NEW created \in BOOLEAN, session_init(created)
        PROVE  StartupInv'
    <3>1. Bitrate(conf) \in Bitrates \cup {"default"}
      BY DEF Bitrate
    <3>2. Typed'
      BY <1>2, <2>9, <3>1
      DEF session_init, Session, Go, StartupInv, Typed, TypeOK
    <3> QED BY <1>2, <2>9, <3>2, OnlyOn DEF session_init, Go, StartupInv
  <2>10. CASE unmount
    <3>1. Typed'
      BY <1>2, <2>10 DEF unmount, Exit, StartupInv, Typed, TypeOK
    <3> QED BY <1>2, <2>10, <3>1, OnlyOn DEF unmount, Exit, StartupInv
  <2>11. CASE ended \/ UNCHANGED vars
    <3>1. Typed'
      BY <1>2, <2>11 DEF ended, vars, StartupInv, Typed, TypeOK
    <3>2. Settings'
      BY <1>2, <2>11 DEF ended, vars, StartupInv, Settings, Loading, Parsing,
                         Mounting, Mounted, Ready, FirstOf, SecondOf
    <3>3. ForFuse'
      BY <1>2, <2>11 DEF ended, vars, StartupInv, ForFuse, Loading, Parsing,
                         Mounting, Mounted, Signals, Foreground
    <3> QED BY <3>1, <3>2, <3>3 DEF StartupInv
  <2> QED
    BY <1>2, <2>1, <2>2, <2>3, <2>4, <2>5, <2>6, <2>7, <2>8, <2>9, <2>10, <2>11
    DEF Next
<1> QED BY <1>1, <1>2, PTL DEF Spec

-----------------------------------------------------------------------------
(* Theorems.                                                               *)

\* The type invariant.
THEOREM TypeCorrect == Spec => []TypeOK
<1>1. StartupInv => TypeOK
  BY DEF StartupInv, Typed
<1> QED BY <1>1, StartupInvariant, PTL

\* Once the file system is served, each setting is the one given last on the
\* command line, or else that of the file, or else the typed password; FUSE got
\* one mountpoint and no credentials; and messages go where FUSE runs.
THEOREM ServedCorrectly == Spec => []ServedAsAsked
<1>1. ASSUME StartupInv, pc = "serving"
      PROVE  CommandLineFirst /\ OneMountpoint /\ LogsFollowFuse
  <2>1. /\ \A k \in Asked :
              SecondOf(k, k \in DOMAIN conf => k = "password" /\ conf[k] = typed)
        /\ "mountpoint" \in DOMAIN conf /\ Needed \subseteq DOMAIN conf
    BY <1>1 DEF StartupInv, Settings, Mounted, Ready
  <2>2. CommandLineFirst
    BY <2>1 DEF CommandLineFirst, SecondOf, FirstOf, Asked, Needed
  <2>3. OneMountpoint
    BY <1>1 DEF StartupInv, ForFuse, Mounted, OneMountpoint, Once
  <2>4. LogsFollowFuse
    BY <1>1 DEF StartupInv, ForFuse, Mounting, Mounted, LogsFollowFuse, Signals
  <2> QED BY <2>2, <2>3, <2>4
<1>2. StartupInv => ServedAsAsked
  BY <1>1 DEF ServedAsAsked
<1> QED BY <1>2, StartupInvariant, PTL
=============================================================================
