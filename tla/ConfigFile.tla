----------------------------- MODULE ConfigFile -----------------------------
(***************************************************************************)
(* Config (src/src/common/config.cpp): loaded once by Daemon::init(), and  *)
(* rewritten in place by every login when remember_last_user is set.       *)
(* Around it, the daemon is killed and started again at any moment, the    *)
(* disk fills up, and the administrator edits the files.                   *)
(*                                                                         *)
(* A file is what its lines give each key; four keys stand for the ten:   *)
(* default_session, greeter_user and those of [Autologin] are plain text   *)
(* like greeter_command, numlock and enabled are Boolean.                  *)
(***************************************************************************)
EXTENDS Naturals, Sequences

CONSTANTS
    Texts,          \* what the lines of a file can give a key
    NoFile,         \* the content of a path where there is no file
    Users,          \* names that log in
    AdminFiles,     \* what the administrator may write
    Custom          \* "custom" when the daemon was started with --config

VARIABLES
    disk,           \* path -> the file there
    m_loaded_path,
    config,         \* Config::general, in memory
    at,             \* where the daemon is
    kept            \* history: what the next start may find, {} if unsure

vars == <<disk, m_loaded_path, config, at, kept>>

-----------------------------------------------------------------------------
\* An empty text; it stands for what is left of a text that was cut, too.
Blank == ""

Default == [remember_last_user |-> TRUE, last_user |-> Blank,
            greeter_command |-> "default", vt |-> "1"]

\* The order in which save() writes the keys.
Order == <<"remember_last_user", "last_user", "greeter_command", "vt">>

Keys == DOMAIN Default

\* ... of a key that no line of the file names.
Absent == "absent"

Files == [Keys -> Texts \cup {Absent}]

EmptyFile == [k \in Keys |-> Absent]

\* "etc" is /etc/miqudm/miqudm.conf, "share" a later candidate.
Paths == {"custom", "etc", "share"}

\* std::stoi takes these; what it throws on leaves vt alone.
Numbers == {"1", "7"}

ASSUME ConfigAssumption ==
    /\ {Blank, "default", "true", "false"} \cup Numbers \subseteq Texts
    /\ Absent \notin Texts
    /\ NoFile \notin Files
    /\ AdminFiles \subseteq Files
    /\ Users \subseteq Texts
    /\ Custom \in {"custom", "none"}

\* find_config_file(): the file asked for, or the first candidate there is.
Exists(p) == p \in Paths /\ disk[p] # NoFile

Find(custom) ==
    IF Exists(custom) THEN custom
    ELSE IF Exists("etc") THEN "etc"
    ELSE IF Exists("share") THEN "share"
    ELSE "none"

\* Seeded fault: a vt taken as it is written.
Loaded_TakesAnyVt(file, old) ==
    [remember_last_user |-> file.remember_last_user # "false",
     last_user |-> IF file.last_user = Absent
                   THEN old.last_user ELSE file.last_user,
     greeter_command |-> IF file.greeter_command = Absent
                         THEN old.greeter_command ELSE file.greeter_command,
     vt |-> IF file.vt = Absent THEN old.vt ELSE file.vt]

\* load() over what was in memory: a key that is absent keeps its value, and
\* a Boolean that is no Boolean takes the default of parse_bool, true here.
Loaded(file, old) ==
    [remember_last_user |-> IF file.remember_last_user = Absent
                            THEN old.remember_last_user
                            ELSE file.remember_last_user # "false",
     last_user |-> IF file.last_user = Absent
                   THEN old.last_user ELSE file.last_user,
     greeter_command |-> IF file.greeter_command = Absent
                         THEN old.greeter_command ELSE file.greeter_command,
     vt |-> IF file.vt \in Numbers THEN file.vt ELSE old.vt]

\* Seeded fault: a save() that leaves out the number.
Written_DropsVt(c) ==
    [remember_last_user |-> IF c.remember_last_user THEN "true" ELSE "false",
     last_user |-> c.last_user,
     greeter_command |-> c.greeter_command,
     vt |-> Absent]

\* The lines of save().
Written(c) ==
    [remember_last_user |-> IF c.remember_last_user THEN "true" ELSE "false",
     last_user |-> c.last_user,
     greeter_command |-> c.greeter_command,
     vt |-> c.vt]

\* ... when the disk is full after n of them, the next one cut after its "=".
CutAfter(file, n) ==
    [k \in Keys |-> LET i == CHOOSE j \in DOMAIN Order : Order[j] = k
                    IN IF i <= n THEN file[k]
                       ELSE IF i = n + 1 THEN Blank ELSE Absent]

Configs == [remember_last_user : BOOLEAN, last_user : Texts,
            greeter_command : Texts, vt : Numbers]

\* What may come of a configuration whose save was cut: each key as it was
\* saved, or its default, or, for a text, blank.
Mixtures(c) ==
    {m \in Configs :
        /\ m.remember_last_user \in {c.remember_last_user, Default.remember_last_user}
        /\ m.last_user \in {c.last_user, Default.last_user, Blank}
        /\ m.greeter_command \in {c.greeter_command, Default.greeter_command, Blank}
        /\ m.vt \in {c.vt, Default.vt}}

-----------------------------------------------------------------------------
TypeOK ==
    /\ disk \in [Paths -> Files \cup {NoFile}]
    /\ m_loaded_path \in Paths \cup {"none"}
    /\ config \in Configs
    /\ at \in {"down", "up", "saving"}
    /\ kept \subseteq Configs

Init ==
    /\ disk \in [Paths -> AdminFiles \cup {NoFile}]
    /\ m_loaded_path = "none"
    /\ config = Default
    /\ at = "down"
    /\ kept = {}

(***************************************************************************)
(* Daemon::init() calls load() without a path: main() reads the argument   *)
(* of --config and does not pass it on.  A new process has the defaults.   *)
(***************************************************************************)
Start ==
    /\ at = "down"
    /\ at' = "up"
    /\ m_loaded_path' = Find("none")
    /\ config' = IF m_loaded_path' = "none" THEN Default
                 ELSE Loaded(disk[m_loaded_path'], Default)
    /\ kept' = {config'}
    /\ UNCHANGED disk

SavePath == IF m_loaded_path = "none" THEN "etc" ELSE m_loaded_path

\* What is written at SavePath is what the next start looks at.
SaveInForce == Find("none")' = SavePath

\* A login remembers its user; opening the file truncates it, and a start from
\* an empty file has nothing but the defaults.
SaveOpens(u) ==
    /\ at = "up"
    /\ config.remember_last_user
    /\ config' = [config EXCEPT !.last_user = u]
    /\ disk' = [disk EXCEPT ![SavePath] = EmptyFile]
    /\ at' = "saving"
    /\ kept' = IF SaveInForce THEN {Default} ELSE kept
    /\ UNCHANGED m_loaded_path

\* ... or it cannot be opened, which nobody looks at.
SaveFails(u) ==
    /\ at = "up"
    /\ config.remember_last_user
    /\ config' = [config EXCEPT !.last_user = u]
    /\ UNCHANGED <<disk, m_loaded_path, at, kept>>

\* The next start finds what was saved, if it looks where it was saved, ...
SaveWrites ==
    /\ at = "saving"
    /\ at' = "up"
    /\ disk' = [disk EXCEPT ![SavePath] = Written(config)]
    /\ kept' = IF SaveInForce THEN {config} ELSE kept
    /\ UNCHANGED <<m_loaded_path, config>>

\* ... or, when the disk is full, the part of it that was.
SaveIsCut(n) ==
    /\ at = "saving"
    /\ at' = "up"
    /\ disk' = [disk EXCEPT ![SavePath] = CutAfter(Written(config), n)]
    /\ kept' = IF SaveInForce THEN Mixtures(config) ELSE kept
    /\ UNCHANGED <<m_loaded_path, config>>

\* The daemon ends, in the middle of a save or not.
Stop ==
    /\ at \in {"up", "saving"}
    /\ at' = "down"
    /\ UNCHANGED <<disk, m_loaded_path, config, kept>>

\* An edit, but for the moment between truncation and write.  The file the
\* next start looks at is now this one, or the same as before, or one that
\* this one had hidden.
AdminWrites(p, file) ==
    /\ at # "saving"
    /\ disk' = [disk EXCEPT ![p] = file]
    /\ kept' = CASE Find("none")' = p -> {Loaded(file, Default)}
                 [] Find("none")' # p /\ Find("none")' = Find("none") -> kept
                 [] OTHER -> {}
    /\ UNCHANGED <<m_loaded_path, config, at>>

Next ==
    \/ Start
    \/ \E u \in Users : SaveOpens(u) \/ SaveFails(u)
    \/ SaveWrites
    \/ \E n \in 0 .. 3 : SaveIsCut(n)
    \/ Stop
    \/ \E p \in Paths, file \in AdminFiles \cup {NoFile} : AdminWrites(p, file)

Spec == Init /\ [][Next]_vars

-----------------------------------------------------------------------------
Starts == at = "down" /\ at' = "up"

(***************************************************************************)
(* A start finds what was last put where it looks: the configuration that  *)
(* the life before it had loaded or saved, every key of it, with the last  *)
(* user; an edit made meanwhile, and then not the save that went to the    *)
(* file the edit shadows; the defaults where a save was interrupted; and   *)
(* of a save that a full disk cut no value that was neither saved, nor a   *)
(* default, nor the rest of a text.  (Nothing is said when a file is       *)
(* removed that hid another.)                                              *)
(***************************************************************************)
StartFindsWhatWasKept ==
    [][Starts /\ kept # {} => config' \in kept]_vars

(***************************************************************************)
(* main.cpp:20 promises with --config a "Path to custom configuration      *)
(* file": a start with a file there should load that one.                  *)
(***************************************************************************)
CustomFileIsLoaded == [][Starts => m_loaded_path' = Find(Custom)]_vars
=============================================================================
