---------------------------- MODULE ConfigProofs ----------------------------
(***************************************************************************)
(* Theorems about the configuration file, for any users and any files an   *)
(* administrator writes.  What the next start must find is on the disk all *)
(* the time, so a start that finds something else would have to read       *)
(* another file or read it differently.                                    *)
(***************************************************************************)
EXTENDS ConfigFile, TLAPS

\* What a start would make of the disk as it is.
Loading ==
    IF Find("none") = "none" THEN Default
    ELSE Loaded(disk[Find("none")], Default)

\* The history is right, and a file that is being saved is empty.
ConfigInv ==
    /\ TypeOK
    /\ kept # {} => Loading \in kept
    /\ at = "saving" => disk[SavePath] = EmptyFile

LEMMA KeyNames ==
    Keys = {"remember_last_user", "last_user", "greeter_command", "vt"}
BY DEF Keys, Default

LEMMA FileTypes == EmptyFile \in Files /\ EmptyFile # NoFile
BY ConfigAssumption DEF EmptyFile, Files

LEMMA PathTypes ==
    ASSUME TypeOK
    PROVE  Find("none") \in Paths \cup {"none"} /\ SavePath \in Paths
BY DEF TypeOK, Find, Exists, SavePath, Paths

LEMMA LoadedType ==
    ASSUME NEW file \in Files, NEW old \in Configs
    PROVE  Loaded(file, old) \in Configs
<1>1. \A k \in {"last_user", "greeter_command"} :
         file[k] \in Texts \/ file[k] = Absent
  BY KeyNames DEF Files
<1> QED
  BY <1>1 DEF Loaded, Configs

LEMMA DefaultType == Default \in Configs
BY ConfigAssumption DEF Default, Numbers, Configs, Blank

LEMMA WrittenType ==
    ASSUME NEW c \in Configs
    PROVE  Written(c) \in Files /\ Written(c) # NoFile
<1>1. /\ DOMAIN Written(c) = Keys
      /\ Written(c) = [k \in DOMAIN Written(c) |-> Written(c)[k]]
  BY KeyNames DEF Written
<1>2. \A k \in Keys : Written(c)[k] \in Texts
  <2>1. /\ Written(c)["remember_last_user"] \in {"true", "false"}
        /\ Written(c)["last_user"] = c.last_user
        /\ Written(c)["greeter_command"] = c.greeter_command
        /\ Written(c)["vt"] = c.vt
    BY DEF Written
  <2> QED
    BY <2>1, KeyNames, ConfigAssumption DEF Configs
<1>3. Written(c) \in Files
  BY <1>1, <1>2 DEF Files
<1> QED
  BY <1>3, ConfigAssumption

\* A cut file has the keys of the whole one, each written, empty or absent.
LEMMA CutType ==
    ASSUME NEW file \in Files, NEW n
    PROVE  CutAfter(file, n) \in Files
BY ConfigAssumption DEF CutAfter, Files

(***************************************************************************)
(* save() and load() are inverse: whatever was in memory before.           *)
(***************************************************************************)
THEOREM RoundTrip ==
    ASSUME NEW c \in Configs, NEW old
    PROVE  Loaded(Written(c), old) = c
BY ConfigAssumption DEF Loaded, Written, Configs

\* A file cut to nothing is loaded as the defaults.
LEMMA EmptyIsDefault == Loaded(EmptyFile, Default) = Default
<1>1. /\ EmptyFile.remember_last_user = Absent /\ EmptyFile.last_user = Absent
      /\ EmptyFile.greeter_command = Absent /\ EmptyFile.vt = Absent
  BY KeyNames DEF EmptyFile
<1> QED
  BY <1>1 DEF Loaded, Default, Absent, Numbers

LEMMA BlankIsText == Blank \in Texts /\ Blank # Absent /\ Blank \notin Numbers
<1>1. Blank \in Texts /\ Absent \notin Texts
  BY ConfigAssumption DEF Blank
<1>2. Blank # "1" /\ Blank # "7"
  BY DEF Blank
<1> QED
  BY <1>1, <1>2 DEF Numbers

(***************************************************************************)
(* A save that a full disk cuts after n keys is loaded key by key: those   *)
(* before the cut as they were saved, those after it as the defaults.  The *)
(* key at the cut is its default if it is a flag or a number, but a text   *)
(* is blank: cut there, the greeter command is one that neither the saved  *)
(* configuration nor the defaults have (save(), load()).                   *)
(***************************************************************************)
THEOREM CutLoads ==
    ASSUME NEW c \in Configs, NEW n \in 0 .. 3,
           NEW file, file = CutAfter(Written(c), n)
    PROVE  Loaded(file, Default) =
             [remember_last_user |-> IF n >= 1 THEN c.remember_last_user ELSE TRUE,
              last_user |-> IF n >= 2 THEN c.last_user ELSE Blank,
              greeter_command |-> IF n >= 3 THEN c.greeter_command
                                  ELSE IF n = 2 THEN Blank ELSE "default",
              vt |-> "1"]
<1> DEFINE Cut(i, text) == IF i <= n THEN text ELSE IF i = n + 1 THEN Blank ELSE Absent
<1>1. \A i \in 1 .. 4 : (CHOOSE j \in DOMAIN Order : Order[j] = Order[i]) = i
  BY DEF Order
<1>2. /\ file.remember_last_user =
             Cut(1, IF c.remember_last_user THEN "true" ELSE "false")
      /\ file.last_user = Cut(2, c.last_user)
      /\ file.greeter_command = Cut(3, c.greeter_command)
      /\ file.vt = Cut(4, c.vt)
  <2>1. /\ Order[1] = "remember_last_user" /\ Order[2] = "last_user"
        /\ Order[3] = "greeter_command" /\ Order[4] = "vt"
    BY DEF Order
  <2>2. \A i \in 1 .. 4 : Order[i] \in Keys =>
           file[Order[i]] = Cut(i, Written(c)[Order[i]])
    BY <1>1, Zenon DEF CutAfter, Blank
  <2> HIDE DEF Cut
  <2> QED
    BY <2>1, <2>2, KeyNames DEF Written
<1>3. /\ c.last_user # Absent /\ c.greeter_command # Absent
      /\ Absent \notin Numbers /\ Absent # "true" /\ Absent # "false"
      /\ Blank # Absent /\ Blank \notin Numbers /\ Blank # "false"
  BY ConfigAssumption, BlankIsText DEF Absent, Numbers, Blank, Configs
<1>4. Default = [remember_last_user |-> TRUE, last_user |-> Blank,
                 greeter_command |-> "default", vt |-> "1"]
  BY Zenon DEF Default, Blank
<1>5. /\ Loaded(file, Default).remember_last_user =
             IF n >= 1 THEN c.remember_last_user ELSE TRUE
      /\ Loaded(file, Default).vt = "1"
  <2>1. /\ n = 0 => file.remember_last_user = Blank
        /\ n >= 1 => file.remember_last_user =
                        IF c.remember_last_user THEN "true" ELSE "false"
    BY <1>2
  <2>2. file.vt \in {Blank, Absent}
    BY <1>2
  <2>3. c.remember_last_user \in BOOLEAN
    BY DEF Configs
  <2> HIDE DEF Cut
  <2>4. Loaded(file, Default).remember_last_user =
             IF n >= 1 THEN c.remember_last_user ELSE TRUE
    <3>1. file.remember_last_user # Absent
      BY <1>3, <2>1
    <3>2. Loaded(file, Default).remember_last_user =
              (file.remember_last_user # "false")
      BY <3>1 DEF Loaded
    <3>3. CASE n = 0
      BY <1>3, <2>1, <3>2, <3>3
    <3>4. CASE n >= 1 /\ c.remember_last_user = TRUE
      BY <2>1, <3>2, <3>4
    <3>5. CASE n >= 1 /\ c.remember_last_user = FALSE
      BY <2>1, <3>2, <3>5
    <3>6. n = 0 \/ n >= 1
      OBVIOUS
    <3>7. c.remember_last_user = TRUE \/ c.remember_last_user = FALSE
      BY <2>3, Zenon
    <3> QED
      BY <3>3, <3>4, <3>5, <3>6, <3>7, Zenon
  <2>5. Loaded(file, Default).vt = "1"
    BY <1>3, <1>4, <2>2 DEF Loaded
  <2> QED
    BY <2>4, <2>5
<1>6. Loaded(file, Default).last_user = IF n >= 2 THEN c.last_user ELSE Blank
  BY <1>2, <1>3, <1>4 DEF Loaded
<1>7. Loaded(file, Default).greeter_command =
          IF n >= 3 THEN c.greeter_command ELSE IF n = 2 THEN Blank ELSE "default"
  BY <1>2, <1>3, <1>4 DEF Loaded
<1> QED
  BY <1>5, <1>6, <1>7 DEF Loaded

LEMMA ConfigInit == Init => ConfigInv
<1> SUFFICES ASSUME Init PROVE ConfigInv
  OBVIOUS
<1>2. disk \in [Paths -> Files \cup {NoFile}]
  BY ConfigAssumption DEF Init
<1> QED
  BY <1>2, DefaultType DEF Init, ConfigInv, TypeOK

\* What a cut save leaves is a mixture of what was saved, defaults and blanks.
LEMMA CutIsMixture ==
    ASSUME NEW c \in Configs, NEW n \in 0 .. 3
    PROVE  Loaded(CutAfter(Written(c), n), Default) \in Mixtures(c)
<1> DEFINE file == CutAfter(Written(c), n)
<1>1. Loaded(file, Default) \in Configs
  BY WrittenType, CutType, LoadedType, DefaultType
<1>2. Loaded(file, Default) =
             [remember_last_user |-> IF n >= 1 THEN c.remember_last_user ELSE TRUE,
              last_user |-> IF n >= 2 THEN c.last_user ELSE Blank,
              greeter_command |-> IF n >= 3 THEN c.greeter_command
                                  ELSE IF n = 2 THEN Blank ELSE "default",
              vt |-> "1"]
  BY CutLoads
<1>3. /\ Default.remember_last_user = TRUE /\ Default.greeter_command = "default"
      /\ Default.vt = "1"
  BY Zenon DEF Default
<1> DEFINE m == Loaded(file, Default)
<1>4. /\ m.remember_last_user \in {c.remember_last_user, TRUE}
      /\ m.last_user \in {c.last_user, Blank}
      /\ m.greeter_command \in {c.greeter_command, "default", Blank}
      /\ m.vt = "1"
  BY <1>2
<1> HIDE DEF m
<1> QED
  BY <1>1, <1>3, <1>4, Zenon DEF Mixtures, m

\* After a write to SavePath a start finds what was written there, or, where
\* another file comes first, what it would have found before.
LEMMA SaveFound ==
    ASSUME TypeOK, NEW file \in Files, UNCHANGED m_loaded_path,
           disk' = [disk EXCEPT ![SavePath] = file]
    PROVE  /\ SaveInForce => Loading' = Loaded(file, Default)
           /\ ~SaveInForce => Loading' = Loading
<1>1. /\ SavePath \in Paths /\ Paths = {"custom", "etc", "share"}
      /\ disk \in [Paths -> Files \cup {NoFile}] /\ file # NoFile
  BY PathTypes, ConfigAssumption DEF TypeOK, Paths
<1>2. /\ disk'[SavePath] = file
      /\ \A p \in Paths : p # SavePath => disk'[p] = disk[p]
  BY <1>1
<1>3. \A p \in Paths : Exists(p)' <=> Exists(p) \/ p = SavePath
  BY <1>1, <1>2 DEF Exists
<1>4. CASE SaveInForce
  BY <1>1, <1>2, <1>4 DEF SaveInForce, Loading
<1>5. CASE ~SaveInForce
  <2>1. Find("none")' = Find("none") /\ Find("none") # SavePath
    BY <1>1, <1>3, <1>5 DEF SaveInForce, Find, Exists
  <2>2. Find("none") \in Paths \cup {"none"}
    BY PathTypes
  <2>3. Find("none") # "none" => disk'[Find("none")] = disk[Find("none")]
    BY <1>2, <2>1, <2>2
  <2>4. CASE Find("none") = "none"
    BY <1>5, <2>1, <2>4, Zenon DEF Loading
  <2>5. CASE Find("none") # "none"
    <3>1. Loading = Loaded(disk[Find("none")], Default)
      BY <2>5 DEF Loading
    <3>2. Loading' = Loaded(disk'[Find("none")'], Default)
      BY <2>1, <2>5 DEF Loading
    <3> QED
      BY <1>5, <2>1, <2>3, <2>5, <3>1, <3>2
  <2> QED
    BY <2>4, <2>5
<1> QED
  BY <1>4, <1>5

LEMMA ConfigStep == ConfigInv /\ [Next]_vars => ConfigInv'
<1> SUFFICES ASSUME ConfigInv, [Next]_vars
             PROVE  ConfigInv'
  OBVIOUS
<1>a. /\ TypeOK /\ disk \in [Paths -> Files \cup {NoFile}]
      /\ config \in Configs /\ kept \subseteq Configs
      /\ kept # {} => Loading \in kept
      /\ at = "saving" => disk[SavePath] = EmptyFile
      /\ Find("none") \in Paths \cup {"none"} /\ SavePath \in Paths
  BY PathTypes DEF ConfigInv, TypeOK
<1>1. CASE Start
  <2>1. disk' = disk /\ at' = "up" /\ m_loaded_path' = Find("none")
    BY <1>1 DEF Start
  <2>2. config' = Loading /\ kept' = {Loading}
    BY <1>1 DEF Start, Loading
  <2>3. Loading' = Loading
    BY <2>1 DEF Loading, Find, Exists
  <2>4. Loading \in Configs
    BY <1>a, LoadedType, DefaultType DEF Loading, Find, Exists
  <2> QED
    BY <1>a, <2>1, <2>2, <2>3, <2>4 DEF ConfigInv, TypeOK
<1>2. ASSUME NEW u \in Users, SaveOpens(u)
      PROVE  ConfigInv'
  <2>1. /\ SaveInForce => Loading' = Default
        /\ ~SaveInForce => Loading' = Loading
    BY <1>a, <1>2, FileTypes, SaveFound, EmptyIsDefault DEF SaveOpens
  <2>2. [config EXCEPT !.last_user = u] \in Configs
    BY <1>a, ConfigAssumption DEF Configs
  <2>3. TypeOK'
    BY <1>a, <1>2, <2>2, FileTypes, DefaultType DEF SaveOpens, TypeOK
  <2>4. disk'[SavePath] = EmptyFile /\ SavePath' = SavePath
    BY <1>a, <1>2 DEF SaveOpens, SavePath
  <2> QED
    BY <1>a, <1>2, <2>1, <2>3, <2>4 DEF SaveOpens, ConfigInv
<1>3. ASSUME NEW u \in Users, SaveFails(u)
      PROVE  ConfigInv'
  <2>1. [config EXCEPT !.last_user = u] \in Configs
    BY <1>a, ConfigAssumption DEF Configs
  <2>2. TypeOK'
    BY <1>a, <1>3, <2>1 DEF SaveFails, TypeOK
  <2>3. Loading' = Loading /\ kept' = kept /\ at' = "up"
    BY <1>3 DEF SaveFails, Loading, Find, Exists
  <2> QED
    BY <1>a, <2>2, <2>3 DEF ConfigInv
<1>4. CASE SaveWrites
  <2>1. Written(config) \in Files /\ Loaded(Written(config), Default) = config
    BY <1>a, WrittenType, RoundTrip
  <2>2. TypeOK'
    BY <1>a, <1>4, <2>1 DEF SaveWrites, TypeOK
  <2>3. /\ SaveInForce => Loading' = config
        /\ ~SaveInForce => Loading' = Loading
    BY <1>a, <1>4, <2>1, SaveFound DEF SaveWrites
  <2> QED
    BY <1>a, <1>4, <2>2, <2>3 DEF SaveWrites, ConfigInv
<1>5. ASSUME NEW n \in 0 .. 3, SaveIsCut(n)
      PROVE  ConfigInv'
  <2> DEFINE file == CutAfter(Written(config), n)
  <2>1. file \in Files /\ Loaded(file, Default) \in Mixtures(config)
    BY <1>a, WrittenType, CutType, CutIsMixture
  <2>2. Mixtures(config) \subseteq Configs
    BY DEF Mixtures
  <2> HIDE DEF file
  <2>3. disk' = [disk EXCEPT ![SavePath] = file]
    BY <1>5 DEF SaveIsCut, file
  <2>4. TypeOK'
    BY <1>a, <1>5, <2>1, <2>2, <2>3 DEF SaveIsCut, TypeOK
  <2>5. /\ SaveInForce => Loading' \in Mixtures(config)
        /\ ~SaveInForce => Loading' = Loading
    BY <1>a, <1>5, <2>1, <2>3, SaveFound DEF SaveIsCut
  <2> QED
    BY <1>a, <1>5, <2>4, <2>5 DEF SaveIsCut, ConfigInv
<1>6. CASE Stop
  <2>1. TypeOK' /\ Loading' = Loading
    BY <1>a, <1>6 DEF Stop, TypeOK, Loading, Find, Exists
  <2> QED
    BY <1>a, <1>6, <2>1 DEF Stop, ConfigInv
<1>7. ASSUME NEW p \in Paths, NEW file \in AdminFiles \cup {NoFile},
             AdminWrites(p, file)
      PROVE  ConfigInv'
  <2>1. file \in Files \cup {NoFile} /\ at' # "saving"
    BY <1>7, ConfigAssumption DEF AdminWrites
  <2>2. /\ disk'[p] = file
        /\ \A q \in Paths : q # p => disk'[q] = disk[q]
        /\ disk' \in [Paths -> Files \cup {NoFile}]
    BY <1>a, <1>7, <2>1 DEF AdminWrites
  <2>3. p # "none" /\ NoFile \notin Files
    BY ConfigAssumption DEF Paths
  <2>4. CASE Find("none")' = p
    <3>1. file # NoFile
      BY <2>2, <2>4 DEF Find, Exists, Paths
    <3>2. Loading' = Loaded(file, Default) /\ Loaded(file, Default) \in Configs
      BY <2>1, <2>2, <2>3, <2>4, <3>1, LoadedType, DefaultType DEF Loading
    <3>3. kept' = {Loaded(file, Default)}
      BY <1>7, <2>4 DEF AdminWrites
    <3> QED
      BY <1>a, <1>7, <2>1, <2>2, <3>2, <3>3 DEF AdminWrites, TypeOK, ConfigInv
  <2>5. CASE Find("none")' # p /\ Find("none")' = Find("none")
    <3>1. Loading' = Loading
      BY <1>a, <2>2, <2>5 DEF Loading
    <3>2. kept' = kept
      BY <1>7, <2>5 DEF AdminWrites
    <3> QED
      BY <1>a, <1>7, <2>1, <2>2, <3>1, <3>2 DEF AdminWrites, TypeOK, ConfigInv
  <2>6. CASE Find("none")' # p /\ Find("none")' # Find("none")
    <3>1. kept' = {}
      BY <1>7, <2>6 DEF AdminWrites
    <3> QED
      BY <1>a, <1>7, <2>1, <2>2, <3>1 DEF AdminWrites, TypeOK, ConfigInv
  <2> QED
    BY <2>4, <2>5, <2>6
<1>8. CASE UNCHANGED vars
  <2>1. Loading' = Loading /\ SavePath' = SavePath
    BY <1>8 DEF vars, Loading, Find, Exists, SavePath
  <2> QED
    BY <1>8, <1>a, <2>1 DEF vars, TypeOK, ConfigInv
<1> QED
  BY <1>1, <1>2, <1>3, <1>4, <1>5, <1>6, <1>7, <1>8 DEF Next

(***************************************************************************)
(* load() yields a well-typed configuration, whatever the file says.       *)
(***************************************************************************)
THEOREM ConfigTypeCorrect == Spec => []TypeOK
<1>1. ConfigInv => TypeOK
  BY DEF ConfigInv
<1> QED
  BY <1>1, ConfigInit, ConfigStep, PTL DEF Spec

(***************************************************************************)
(* Every start finds what was last put where it looks: what was loaded or  *)
(* saved, an edit, after an interrupted save the defaults, and after a cut *)
(* one a mixture with no value of another origin.                          *)
(***************************************************************************)
THEOREM StartFindsCorrect == Spec => StartFindsWhatWasKept
<1>1. ASSUME ConfigInv, [Next]_vars
      PROVE  [Starts /\ kept # {} => config' \in kept]_vars
  <2> SUFFICES ASSUME Next, Starts, kept # {}
               PROVE  config' \in kept
    BY <1>1
  <2>1. Start
    BY DEF Next, Starts, Start, SaveOpens, SaveFails, SaveWrites, SaveIsCut, Stop,
           AdminWrites
  <2>2. config' = Loading
    BY <2>1 DEF Start, Loading
  <2> QED
    BY <1>1, <2>2 DEF ConfigInv
<1>2. Spec => []ConfigInv
  BY ConfigInit, ConfigStep, PTL DEF Spec
<1> QED
  BY <1>1, <1>2, PTL DEF Spec, StartFindsWhatWasKept

=============================================================================
