--------------------------- MODULE SettingsProofs ---------------------------
(***************************************************************************)
(* Proofs about Settings: what the form shows is in force, a secret is     *)
(* written only if it is to be remembered, and a restart brings back what  *)
(* was in force, for any versions and any choices.                         *)
(*                                                                         *)
(* The temporal theorems rest on two invariants, TypeOK and InAgreement:   *)
(* ShownIsInForce is inductive beside TypeOK, but RestartKeepsSettings     *)
(* needs to know what the file holds before the restart.                   *)
(***************************************************************************)
EXTENDS Settings, TLAPS

\* What a secret may not survive: equal but for it, and for it too if remembered.
Kept(c, d) ==
    /\ [d EXCEPT !.secret = c.secret] = c
    /\ c.remember => d.secret = c.secret

\* As long as the file says what is in force, it would be loaded as that.
InAgreement == saved => Kept(config, Loaded(disk, DefaultChoice))

-----------------------------------------------------------------------------
(* Operators *)

LEMMA DefaultIsConfig ==
    /\ Default(DefaultChoice) \in Config
    /\ Default(DefaultChoice).version = Current
<1>1. DefaultChoice \in Preferences
    BY SettingsAssumption DEF DefaultChoice
<1> QED
    BY <1>1 DEF Default, Config

\* Migration ends at the current version.
LEMMA MigratedIsCurrent ==
    ASSUME NEW c \in Config
    PROVE  Migrated(c) \in Config /\ Migrated(c).version = Current
BY DEF Migrated, Config

\* Whatever the file holds, what is loaded is a configuration of the current version.
LEMMA LoadedIsCurrent ==
    ASSUME NEW file \in Files
    PROVE  /\ Loaded(file, DefaultChoice) \in Config
           /\ Loaded(file, DefaultChoice).version = Current
BY DefaultIsConfig, MigratedIsCurrent DEF Loaded, Files

\* However a start goes, what is in force is of the current version, and what the file
\* says if the file is said to.
LEMMA StartIsCurrent ==
    ASSUME NEW file \in Files, NEW start \in LoadOrDefault(file)
    PROVE  /\ start.config \in Config /\ start.config.version = Current
           /\ start.located \in BOOLEAN /\ start.saved \in BOOLEAN
           /\ start.saved => start.config = Loaded(file, DefaultChoice)
<1> DEFINE default == Default(DefaultChoice)
           loaded == Loaded(file, DefaultChoice)
<1>1. /\ default \in Config /\ default.version = Current
      /\ loaded \in Config /\ loaded.version = Current
    BY DefaultIsConfig, LoadedIsCurrent
<1>2. \/ start = [config |-> loaded, located |-> TRUE, saved |-> TRUE]
      \/ \E found \in BOOLEAN : start = [config |-> default, located |-> found, saved |-> FALSE]
    BY DEF LoadOrDefault
<1> HIDE DEF default, loaded
<1>3. CASE start = [config |-> loaded, located |-> TRUE, saved |-> TRUE]
    <2>1. start.config = loaded /\ start.located = TRUE /\ start.saved = TRUE
        BY <1>3
    <2> QED
        BY <1>1, <2>1 DEF loaded
<1>4. ASSUME NEW found \in BOOLEAN, start = [config |-> default, located |-> found, saved |-> FALSE]
      PROVE  /\ start.config \in Config /\ start.config.version = Current
             /\ start.located \in BOOLEAN /\ start.saved = FALSE
    <2>1. start.config = default /\ start.located = found /\ start.saved = FALSE
        BY <1>4
    <2> QED
        BY <1>1, <2>1
<1> QED
    BY <1>2, <1>3, <1>4

\* A configuration of the current version survives a save and a load, but for a
\* secret that is not remembered.
LEMMA WrittenIsKept ==
    ASSUME NEW c \in Config, c.version = Current
    PROVE  /\ Written(c) \in Config
           /\ Kept(c, Loaded(Written(c), DefaultChoice))
<1>1. /\ Written(c) \in Config
      /\ Written(c).version = Current
      /\ Written(c).remember = c.remember
      /\ Written(c).secret = (c.secret /\ c.remember)
    BY DEF Written, Config
<1>2. ~(Current < 3)
    BY SettingsAssumption
<1>3. Migrated(Written(c)) = Written(c)
    BY <1>1, <1>2 DEF Migrated, Config
<1>4. Loaded(Written(c), DefaultChoice) = Written(c)
    BY <1>1, <1>3, SettingsAssumption DEF Loaded
<1>5. [Written(c) EXCEPT !.secret = c.secret] = c
    BY DEF Written, Config
<1>6. c.remember => Written(c).secret = c.secret
    BY <1>1 DEF Config
<1> QED
    BY <1>1, <1>4, <1>5, <1>6 DEF Kept

\* The outcome of a save: the file stays one, and agrees if the save succeeded.
LEMMA SaveAgrees ==
    ASSUME TypeOK, NEW c \in Config, c.version = Current, Save(c)
    PROVE  /\ disk' \in Files
           /\ saved' \in BOOLEAN
           /\ saved' => Kept(c, Loaded(disk', DefaultChoice))
BY WrittenIsKept DEF Save, Files, TypeOK

LEMMA FromConfigIsForm ==
    ASSUME NEW c \in Config
    PROVE  FromConfig(c) \in Form
BY DEF FromConfig, Config, Form

\* Settings that are accepted make a valid configuration of the same version, which
\* the form shows.
LEMMA AppliedIsShown ==
    ASSUME NEW f \in Form, NEW c \in Config, Parses(f)
    PROVE  /\ Applied(f, c) \in Config
           /\ Applied(f, c).version = c.version
           /\ FromConfig(Applied(f, c)) = f
BY DEF Parses, Applied, FromConfig, Form, Config

-----------------------------------------------------------------------------
(* One lemma per invariant *)

\* A restart forgets the form, and whether saves failed before.
LEMMA Restarted ==
    ASSUME TypeOK, Restart
    PROVE  TypeOK' /\ ShownIsInForce' /\ InAgreement'
<1>1. /\ config' \in Config /\ config'.version = Current
      /\ located' \in BOOLEAN /\ saved' \in BOOLEAN
      /\ saved' => config' = Loaded(disk, DefaultChoice)
    BY StartIsCurrent DEF Restart, TypeOK
<1>2. form' \in Form
    BY <1>1, FromConfigIsForm DEF Restart
<1>3. Kept(config', config')
    BY <1>1 DEF Kept, Config
<1>4. {edited', usable'} \subseteq BOOLEAN /\ disk' = disk
    BY DEF Restart
<1>5. TypeOK' /\ ShownIsInForce'
    BY <1>1, <1>2, <1>4 DEF Restart, TypeOK, ShownIsInForce
<1>6. InAgreement'
    BY <1>1, <1>3, <1>4 DEF InAgreement
<1> QED
    BY <1>5, <1>6

\* One field of the form is typed into.
LEMMA EditedForm ==
    ASSUME TypeOK, Edit
    PROVE  form' \in Form
<1>1. form \in Form
    BY DEF TypeOK
<1> QED
    BY <1>1 DEF Edit, Form

LEMMA StepTypeOK ==
    ASSUME TypeOK, [Next]_vars
    PROVE  TypeOK'
<1>1. CASE Edit
    BY <1>1, EditedForm DEF Edit, TypeOK
<1>2. CASE SaveSettings
    <2>1. config' \in Config /\ config'.version = Current
        BY <1>2, AppliedIsShown DEF SaveSettings, TypeOK
    <2>2. Save(config')
        BY <1>2 DEF SaveSettings
    <2> QED
        BY <1>2, <2>1, <2>2, SaveAgrees DEF SaveSettings, TypeOK
<1>3. ASSUME \/ \E choice \in Preferences : Choose(choice)
             \/ \E points \in {"right", "wrong"} : SavePoints(points)
      PROVE  TypeOK'
    <2>1. config' \in Config /\ config'.version = Current /\ Save(config')
        BY <1>3 DEF Choose, SavePoints, TypeOK, Config
    <2>2. UNCHANGED <<form, located, edited, usable>>
        BY <1>3 DEF Choose, SavePoints
    <2> QED
        BY <2>1, <2>2, SaveAgrees DEF TypeOK
<1>4. CASE Restart
    BY <1>4, Restarted
<1>5. CASE UNCHANGED vars
    BY <1>5 DEF vars, TypeOK
<1> QED
    BY <1>1, <1>2, <1>3, <1>4, <1>5 DEF Next

LEMMA StepShown ==
    ASSUME TypeOK, ShownIsInForce, [Next]_vars
    PROVE  ShownIsInForce'
<1>1. CASE Edit
    BY <1>1 DEF Edit, ShownIsInForce
<1>2. CASE SaveSettings
    <2>1. form' = FromConfig(config')
        BY <1>2, AppliedIsShown DEF SaveSettings, TypeOK
    <2>2. config'.fields = "right"
        BY <1>2 DEF SaveSettings, Valid
    <2> QED
        BY <2>1, <2>2 DEF ShownIsInForce
<1>3. ASSUME \/ \E choice \in Preferences : Choose(choice)
             \/ \E points \in {"right", "wrong"} : SavePoints(points)
      PROVE  ShownIsInForce'
    <2>1. FromConfig(config') = FromConfig(config) /\ config'.fields = config.fields
        BY <1>3 DEF Choose, SavePoints, FromConfig, TypeOK, Config
    <2>2. UNCHANGED <<form, edited, usable>>
        BY <1>3 DEF Choose, SavePoints
    <2> QED
        BY <2>1, <2>2 DEF ShownIsInForce
<1>4. CASE Restart
    BY <1>4, Restarted
<1>5. CASE UNCHANGED vars
    BY <1>5 DEF vars, ShownIsInForce, FromConfig
<1> QED
    BY <1>1, <1>2, <1>3, <1>4, <1>5 DEF Next

LEMMA StepAgreement ==
    ASSUME TypeOK, InAgreement, [Next]_vars
    PROVE  InAgreement'
<1>1. CASE Edit
    BY <1>1 DEF Edit, InAgreement, Kept
<1>2. CASE SaveSettings \/ (\E choice \in Preferences : Choose(choice))
             \/ (\E points \in {"right", "wrong"} : SavePoints(points))
    <2>1. Save(config')
        BY <1>2 DEF SaveSettings, Choose, SavePoints
    <2>2. config' \in Config /\ config'.version = Current
        BY StepTypeOK DEF TypeOK
    <2> QED
        BY <2>1, <2>2, SaveAgrees DEF InAgreement
<1>3. CASE Restart
    BY <1>3, Restarted
<1>4. CASE UNCHANGED vars
    BY <1>4 DEF vars, InAgreement, Kept
<1> QED
    BY <1>1, <1>2, <1>3, <1>4 DEF Next

\* The program starts with all of it true.
LEMMA InitEstablishes ==
    ASSUME Init
    PROVE  TypeOK /\ ShownIsInForce /\ InAgreement
<1>1. disk \in Files
    BY DEF Init, Files
<1>2. /\ config \in Config /\ config.version = Current
      /\ located \in BOOLEAN /\ saved \in BOOLEAN
      /\ saved => config = Loaded(disk, DefaultChoice)
    BY <1>1, StartIsCurrent DEF Init
<1>3. form \in Form
    BY <1>2, FromConfigIsForm DEF Init
<1>4. Kept(config, config)
    BY <1>2 DEF Kept, Config
<1>5. {edited, usable} \subseteq BOOLEAN
    BY DEF Init
<1> QED
    BY <1>1, <1>2, <1>3, <1>4, <1>5 DEF Init, TypeOK, ShownIsInForce, InAgreement

-----------------------------------------------------------------------------
(* Theorems *)

\* Whatever file is found and however it is edited, variables keep their shape, and
\* the configuration in memory is of the current version.
THEOREM SettingsTyped == Spec => []TypeOK
<1>1. Init => TypeOK
    BY InitEstablishes
<1>2. TypeOK /\ [Next]_vars => TypeOK'
    BY StepTypeOK
<1> QED
    BY <1>1, <1>2, PTL DEF Spec

\* A form nobody is editing shows what is in force, and a save that is refused for
\* one field took over none of the others (apply_to on a clone, validate).
THEOREM SettingsShown == Spec => []ShownIsInForce
<1>1. Init => ShownIsInForce
    BY InitEstablishes
<1>2. TypeOK /\ ShownIsInForce /\ [Next]_vars => ShownIsInForce'
    BY StepShown
<1> QED
    BY <1>1, <1>2, SettingsTyped, PTL DEF Spec

\* Whatever saves the configuration, a secret gets into the file only if it is to be
\* remembered (sanitized_for_save).
THEOREM SettingsSecrets == Spec => SecretsOnlyIfRemembered
<1>1. ASSUME TypeOK, [Next]_vars
      PROVE  [disk' # disk /\ disk' \in Config /\ disk'.secret
                => disk'.remember /\ config'.remember]_vars
    <2> SUFFICES ASSUME disk' # disk, disk' \in Config, disk'.secret
                 PROVE  disk'.remember /\ config'.remember
        OBVIOUS
    <2>1. Save(config')
        BY <1>1 DEF Next, vars, Edit, SaveSettings, Choose, SavePoints, Restart
    <2>2. disk' = Written(config')
        BY <2>1, <1>1, SettingsAssumption DEF Save
    <2>3. config' \in Config
        BY <1>1, StepTypeOK DEF TypeOK
    <2> QED
        BY <2>2, <2>3 DEF Written, Config
<1> QED
    BY <1>1, SettingsTyped, PTL DEF Spec, SecretsOnlyIfRemembered

\* A restart brings back what was in force, unless a save had failed or a start did not
\* load the file: the migration of an old file happens once, and not again to what was
\* saved since.
THEOREM SettingsSurvive == Spec => RestartKeepsSettings
<1>1. Init => InAgreement
    BY InitEstablishes
<1>2. TypeOK /\ InAgreement /\ [Next]_vars => InAgreement'
    BY StepAgreement
<1>3. TypeOK /\ InAgreement =>
        [Restart /\ saved /\ saved' =>
           /\ [config' EXCEPT !.secret = config.secret] = config
           /\ config.remember => config'.secret = config.secret]_vars
    <2> SUFFICES ASSUME TypeOK, InAgreement, Restart, saved, saved'
                 PROVE  Kept(config, config')
        BY DEF Kept
    <2>1. config' = Loaded(disk, DefaultChoice)
        BY StartIsCurrent DEF Restart, TypeOK
    <2> QED
        BY <2>1 DEF InAgreement
<1> QED
    BY <1>1, <1>2, <1>3, SettingsTyped, PTL DEF Spec, RestartKeepsSettings
=============================================================================
