------------------------------ MODULE Settings ------------------------------
(***************************************************************************)
(* The settings of the application (src/config.rs, src/app.rs): the form   *)
(* the operator types into, the configuration in force, and its file.  The *)
(* interface and the theme are not in the form: they are changed in the    *)
(* configuration itself.  The list of points is in PointStore; here counts *)
(* only whether all of it is valid, because settings are validated with    *)
(* it, while points are saved without.                                     *)
(***************************************************************************)
EXTENDS Naturals

CONSTANTS
    Current,  \* CURRENT_CONFIG_VERSION
    Old,      \* versions of files that may be found
    Preferences,  \* of an interface and a theme
    NoFile, Unreadable

VARIABLES
    config,  \* in force
    form,    \* SettingsDraft
    disk,    \* the file: NoFile, Unreadable (it does not parse), or a configuration
    located, \* whether the path of the file was found at the start
    saved,   \* history: the file says what is in force: it was loaded at the start, and
             \* the last save since, if any, was to it and did not fail
    edited,  \* history: the form was edited since the start or the last accepted save
    usable   \* history: the settings were valid at the start

vars == <<config, form, disk, located, saved, edited, usable>>

-----------------------------------------------------------------------------
(* Configurations *)

\* Of the ports, two are special: the standard one, which old versions had as
\* default, and any free one.  fields are all the others: "wrong" if they parse,
\* but validate refuses them (a range, an empty host, one of certificate and key).
\* Blank certificate paths, which only a file can have, are left out.
Config == [version : Old \cup {Current}, port : {"standard", "free"}, fields : {"right", "wrong"},
           secret : BOOLEAN, remember : BOOLEAN,
           choice : Preferences, points : {"right", "wrong"}]

\* Since version 3 nothing is migrated.
ASSUME SettingsAssumption ==
    /\ Current \in Nat /\ Current >= 3
    /\ Old \subseteq Nat
    /\ Preferences # {}
    /\ {NoFile, Unreadable} \cap Config = {}

\* Texts need not parse; those of a BBMD that is off are not looked at, and are not
\* garbled whatever they say.
Form == [port : {"standard", "free"}, fields : {"right", "wrong", "garbled"},
         secret : BOOLEAN, remember : BOOLEAN]

Valid(c) == c.fields = "right" /\ c.points = "right"

Default(choice) ==
    [version |-> Current, port |-> "free", fields |-> "right", secret |-> FALSE,
     remember |-> FALSE, choice |-> choice, points |-> "right"]

\* SettingsDraft::from_config
FromConfig(c) ==
    [port |-> c.port, fields |-> c.fields, secret |-> c.secret, remember |-> c.remember]

Parses(f) == f.fields # "garbled"

AppliedRememberingForGood(f, c) ==
    [c EXCEPT !.port = f.port, !.fields = f.fields, !.secret = f.secret,
              !.remember = f.remember \/ @]

\* What SettingsDraft::apply_to makes of a configuration.
Applied(f, c) ==
    [c EXCEPT !.port = f.port, !.fields = f.fields, !.secret = f.secret,
              !.remember = f.remember]

-----------------------------------------------------------------------------
(* The file *)

MigratedAlways(c) ==
    [c EXCEPT !.port = IF c.port = "standard" THEN "free" ELSE @, !.version = Current]

\* migrate
Migrated(c) ==
    [c EXCEPT !.port = IF c.version < 3 /\ c.port = "standard" THEN "free" ELSE @,
              !.version = Current]

\* load_from_path, or the defaults; nothing is validated.  Some choice is the default.
Loaded(file, choice) ==
    IF file \in {NoFile, Unreadable} THEN Default(choice) ELSE Migrated(file)

WrittenWithSecret(c) == c

\* sanitized_for_save
Written(c) == [c EXCEPT !.secret = @ /\ c.remember]

\* save_to_path fails before it opened the file, or after it truncated it.  Without a
\* path, it writes "config.toml" of the working directory, which no start reads.
Save(c) ==
    \/ located /\ disk' = Written(c) /\ saved' = TRUE
    \/ disk' \in {disk} \cup (IF located THEN {Unreadable} ELSE {}) /\ saved' = FALSE

DefaultChoice == CHOOSE x \in Preferences : TRUE

\* load_or_default: the file as it is; or the defaults, if it cannot be read this time,
\* intact as it may be, or its path is not found.
LoadOrDefault(file) ==
    { [config |-> Loaded(file, DefaultChoice), located |-> TRUE, saved |-> TRUE] }
      \cup { [config |-> Default(DefaultChoice), located |-> found, saved |-> FALSE] :
               found \in BOOLEAN }

-----------------------------------------------------------------------------
\* A file written by hand or by an earlier version may say anything that parses.
Init ==
    /\ \/ disk \in {NoFile, Unreadable}
       \/ \E c \in Config : disk = c
    /\ \E start \in LoadOrDefault(disk) :
          config = start.config /\ located = start.located /\ saved = start.saved
    /\ form = FromConfig(config)
    /\ edited = FALSE
    /\ usable = (config.fields = "right")

\* One message of update changes one field; the texts are the operator's.
Edit ==
    /\ \/ \E t \in {"standard", "free"} : form' = [form EXCEPT !.port = t]
       \/ \E t \in {"right", "wrong", "garbled"} : form' = [form EXCEPT !.fields = t]
       \/ form' = [form EXCEPT !.secret = ~@]
       \/ form' = [form EXCEPT !.remember = ~@]
    /\ edited' = TRUE
    /\ UNCHANGED <<config, disk, located, saved, usable>>

\* save_settings: applied to a copy, and refused as a whole, also for a point that
\* is not valid.  A refused save changes nothing.
SaveSettings ==
    /\ Parses(form)
    /\ LET next == Applied(form, config)
       IN  /\ Valid(next)
           /\ config' = next
           /\ Save(next)
    /\ edited' = FALSE
    /\ UNCHANGED <<form, located, usable>>

\* InterfaceSelected, DiscoverAllInterfacesChanged and ThemeSelected: the form is
\* not saved with them.
Choose(choice) ==
    /\ config' = [config EXCEPT !.choice = choice]
    /\ Save(config')
    /\ UNCHANGED <<form, located, edited, usable>>

\* save_point and its like: whatever parses is saved.
SavePoints(points) ==
    /\ config' = [config EXCEPT !.points = points]
    /\ Save(config')
    /\ UNCHANGED <<form, located, edited, usable>>

\* The program ends, or is killed, and is started again.
Restart ==
    /\ \E start \in LoadOrDefault(disk) :
          config' = start.config /\ located' = start.located /\ saved' = start.saved
    /\ form' = FromConfig(config')
    /\ edited' = FALSE
    /\ usable' = (config'.fields = "right")
    /\ UNCHANGED disk

Next ==
    \/ Edit
    \/ SaveSettings
    \/ \E choice \in Preferences : Choose(choice)
    \/ \E points \in {"right", "wrong"} : SavePoints(points)
    \/ Restart

Spec == Init /\ [][Next]_vars

-----------------------------------------------------------------------------
(* Properties *)

Files == {NoFile, Unreadable} \cup Config

\* Every variable keeps its shape; in memory, the version is always the current one.
TypeOK ==
    /\ config \in Config
    /\ config.version = Current
    /\ form \in Form
    /\ disk \in Files
    /\ {located, saved, edited, usable} \subseteq BOOLEAN

\* "Passwords and client key passphrases are only written to the TOML config when
\* Remember secrets is enabled", by whatever saves the configuration, while the form
\* and the configuration in force may disagree about it.
SecretsOnlyIfRemembered ==
    [][disk' # disk /\ disk' \in Config /\ disk'.secret => disk'.remember /\ config'.remember]_vars

\* A restart that can read the file brings back what was in force, if the last save was
\* to it and did not fail, down to a secret that was not to be remembered; in particular
\* the upgrade of an old file does not take back, at the next start, what the operator
\* chose since.
RestartKeepsSettings ==
    [][Restart /\ saved /\ saved' =>
          /\ [config' EXCEPT !.secret = config.secret] = config
          /\ config.remember => config'.secret = config.secret]_vars

\* What the form shows, unless the operator is editing it, is what is in force, over
\* picks of an interface, edits of points, failed saves and restarts; and settings
\* that were usable at the start stay so, because a save that validate refuses for
\* one field takes over none of the others.
ShownIsInForce ==
    /\ ~edited => form = FromConfig(config)
    /\ usable => config.fields = "right"
=============================================================================
