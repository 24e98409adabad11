--------------------------- MODULE Configuration ---------------------------
(***************************************************************************)
(* Settings and translations, app/modules/settings and translations, and   *)
(* the seeding that runs beside the administrators on a deployment         *)
(* (scripts/seed/reference.py): it inserts the settings that are missing,  *)
(* then loads one locale file after another, each in its own transaction.  *)
(* A row that is deleted and made again is another row, told by number.    *)
(***************************************************************************)
EXTENDS Calls

CONSTANTS
    Keys,           \* names of settings
    SystemKeys,     \* SYSTEM_SETTINGS
    Values,
    StringKeys,
    Languages,
    DefaultLanguage,
    Locale          \* the files: language -> key -> text, or None

ASSUME ConfigurationAssumption ==
    /\ SystemKeys \subseteq Keys
    /\ DefaultLanguage \in Languages
    /\ Locale \in [Languages -> [StringKeys -> Values \cup {None}]]

VARIABLES settings, strings

configVars == <<settings, strings>>

SettingRow == [row : Nat, value : Values \cup {None}, system : BOOLEAN]
StringRow == [row : Nat, value : Values]

\* NULL is no row, and no seeding that is under way.
ASSUME ConfigNoneAssumption ==
    None \notin SettingRow \cup StringRow \cup [op : {"sync"}, id : {None}, todo : SUBSET Languages]

ConfigTypeOK == /\ settings \in [Keys -> SettingRow \cup {None}]
                /\ strings \in [StringKeys \X Languages -> StringRow \cup {None}]

SameNumber(a, b) == (a = None /\ b = None) \/ (a # None /\ b # None /\ a.row = b.row)

(***************************************************************************)
(* Settings.                                                               *)
(***************************************************************************)
\* set, and set_many: an unknown key rejects the whole form.
SetSettings(r, form) ==
    /\ \A k \in DOMAIN form : settings[k] # None
    /\ Begin(r, [op |-> "set", id |-> None, set |-> form, was |-> settings])

WriteSettings(r) ==
    /\ Doing(r, "set")
    /\ LET c == call[r]
           named == {k \in DOMAIN c.set : c.set[k] # c.was[k].value}
       IN  /\ \A k \in named : SameNumber(settings[k], c.was[k])
           /\ settings' = [k \in Keys |-> IF k \in named
                                          THEN [settings[k] EXCEPT !.value = c.set[k]]
                                          ELSE settings[k]]
    /\ UNCHANGED strings
    /\ End(r)

CreateSetting(r, k, v) ==
    /\ settings[k] = None
    /\ Begin(r, [op |-> "setting", id |-> k, was |-> None,
                 row |-> [row |-> made, value |-> v, system |-> FALSE]])

\* What ships with the platform is not deleted.
DeleteSetting(r, k) ==
    /\ settings[k] # None
    /\ ~settings[k].system
    /\ Begin(r, [op |-> "setting", id |-> k, was |-> settings[k], row |-> None])

\* An INSERT the unique index admits, or the DELETE of the loaded row.
WriteSetting(r) ==
    /\ Doing(r, "setting")
    /\ LET c == call[r]
       IN  /\ c.row # None => settings[c.id] = None
           /\ settings' = IF SameNumber(settings[c.id], c.was)
                          THEN [settings EXCEPT ![c.id] = c.row] ELSE settings
    /\ UNCHANGED strings
    /\ End(r)

(***************************************************************************)
(* Translations.                                                           *)
(***************************************************************************)
CreateString(r, s, v) ==
    /\ strings[s] = None
    /\ Begin(r, [op |-> "string", id |-> s, was |-> None, row |-> [row |-> made, value |-> v]])

UpdateString(r, s, v) ==
    /\ strings[s] # None
    /\ strings[s].value # v
    /\ Begin(r, [op |-> "string", id |-> s, was |-> strings[s],
                 row |-> [strings[s] EXCEPT !.value = v]])

DeleteString(r, s) ==
    /\ strings[s] # None
    /\ Begin(r, [op |-> "string", id |-> s, was |-> strings[s], row |-> None])

WriteString(r) ==
    /\ Doing(r, "string")
    /\ LET c == call[r]
       IN  /\ c.row # None => SameNumber(strings[c.id], c.was)
           /\ strings' = IF SameNumber(strings[c.id], c.was)
                         THEN [strings EXCEPT ![c.id] = c.row] ELSE strings
    /\ UNCHANGED settings
    /\ End(r)

\* get_bundle: what the language lacks is the default language's.
Bundle(l) ==
    [k \in {k \in StringKeys : \E m \in {l, DefaultLanguage} : strings[<<k, m>>] # None} |->
        LET m == IF strings[<<k, l>>] # None THEN l ELSE DefaultLanguage IN strings[<<k, m>>].value]

(***************************************************************************)
(* Seeding.                                                                *)
(***************************************************************************)
\* Mutant: a table that has any of them is taken to have been seeded.
MissingSettingsOfNone ==
    IF \E k \in SystemKeys : settings[k] # None THEN {} ELSE SystemKeys

\* seed_system_settings: a row that exists, an administrator's too, is left
\* as it is.
MissingSettings == {k \in SystemKeys : settings[k] = None}

Seed(r) == Begin(r, [op |-> "seed", id |-> None, add |-> MissingSettings])

WriteSettingsSeed(r) ==
    /\ Doing(r, "seed")
    /\ \A k \in call[r].add : settings[k] = None
    /\ settings' = [k \in Keys |-> IF k \in call[r].add
                                   THEN [row |-> made, value |-> None, system |-> TRUE]
                                   ELSE settings[k]]
    /\ call' = [call EXCEPT ![r] = [op |-> "sync", id |-> None, todo |-> Languages]]
    /\ UNCHANGED <<load, made, strings>>

\* upsert_many: one statement, on conflict the text is the file's.
Synced(l) ==
    [s \in StringKeys \X Languages |->
        IF s[2] # l \/ Locale[l][s[1]] = None THEN strings[s]
        ELSE IF strings[s] = None THEN [row |-> made, value |-> Locale[l][s[1]]]
        ELSE [strings[s] EXCEPT !.value = Locale[l][s[1]]]]

\* sync_all_locales: the default language first, one transaction each.
SyncLocale(r) ==
    /\ Doing(r, "sync")
    /\ LET todo == call[r].todo
           l == IF DefaultLanguage \in todo THEN DefaultLanguage ELSE CHOOSE m \in todo : TRUE
       IN  /\ strings' = Synced(l)
           /\ IF todo = {l} THEN End(r)
              ELSE /\ call' = [call EXCEPT ![r].todo = todo \ {l}]
                   /\ UNCHANGED <<load, made>>
    /\ UNCHANGED settings

(***************************************************************************)
(* The specification.                                                      *)
(***************************************************************************)
\* An earlier version of the platform seeded some of the settings, and some
\* of the names were taken by settings of an administrator.
ConfigInit == /\ settings \in [Keys -> {None} \cup [row : {0}, value : {None}, system : BOOLEAN]]
              /\ \A k \in Keys \ SystemKeys : settings[k] # None => ~settings[k].system
              /\ strings = [s \in StringKeys \X Languages |-> None]

SettingCalls(r) ==
    \/ \E on \in SUBSET Keys : /\ on # {}
                               /\ \E form \in [on -> Values \cup {None}] : SetSettings(r, form)
    \/ \E k \in Keys : DeleteSetting(r, k) \/ \E v \in Values : CreateSetting(r, k, v)

StringCalls(r) == \E s \in StringKeys \X Languages :
    \/ DeleteString(r, s)
    \/ \E v \in Values : CreateString(r, s, v) \/ UpdateString(r, s, v)

ConfigNext == \E r \in Requests : \/ /\ SettingCalls(r) \/ StringCalls(r) \/ Seed(r)
                                     /\ UNCHANGED configVars
                                  \/ WriteSettings(r) \/ WriteSetting(r) \/ WriteString(r)
                                  \/ WriteSettingsSeed(r) \/ SyncLocale(r)
                                  \/ Die(r) /\ UNCHANGED configVars

ConfigSpec == CallsInit /\ ConfigInit /\ [][ConfigNext]_<<callVars, configVars>>

(***************************************************************************)
(* Properties.                                                             *)
(***************************************************************************)
\* However calls and seedings overlap, a setting that ships with the platform
\* stays, and its value is changed by nothing but a form that names it: a
\* deployment overwrites no credentials.  While they do not overlap, a seeding
\* that comes to its end leaves no setting and no string of its files missing,
\* whatever earlier ones that died half way, and administrators, left behind.
SeedingCompletes ==
    [][/\ \A k \in Keys : settings[k] # None /\ settings[k].system =>
            /\ settings'[k] # None /\ settings'[k].system
            /\ settings'[k].value # settings[k].value =>
                  \E r \in Requests : Doing(r, "set") /\ k \in DOMAIN call[r].set
       /\ Alone => \A r \in Requests : SyncLocale(r) /\ call'[r] = None =>
            /\ \A k \in SystemKeys : settings'[k] # None
            /\ \A s \in StringKeys \X Languages :
                  Locale[s[2]][s[1]] # None => Bundle(s[2])'[s[1]] = Locale[s[2]][s[1]]
      ]_<<callVars, configVars>>
=============================================================================
