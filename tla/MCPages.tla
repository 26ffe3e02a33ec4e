------------------------------ MODULE MCPages -------------------------------
(***************************************************************************)
(* The pages that write: an account's settings, the app's preferences, and  *)
(* a sign-up.  They share no state but the link, so each is run by itself:  *)
(* `part` says which.                                                       *)
(***************************************************************************)
EXTENDS Wire

CONSTANTS
    Values, MaxAsks,                  \* AccountSettings
    Hosts, Names, Blank, MaxTries,    \* Registration
    Options, Default                  \* Preferences

VARIABLES
    part,
    fields, pending, waits, status, switch, unread, saving, orderly, asks, acct, stored,
    state, host, row, image, entered, added, late, session, tries, made,
    kind, shown, unmuted, log, inStore, level, had, keyUnread, missed, hasty

A == INSTANCE AccountSettings
R == INSTANCE Registration
P == INSTANCE Preferences WITH Depth <- 3, stored <- inStore, unread <- keyUnread

settingsVars ==
    <<fields, pending, waits, status, switch, unread, saving, orderly, asks, acct, stored>>
registrationVars == <<state, host, row, image, entered, added, late, session, tries, made>>
preferenceVars ==
    <<kind, shown, unmuted, log, inStore, level, had, keyUnread, missed, hasty>>
vars == <<part, wire, settingsVars, registrationVars, preferenceVars>>

\* A part that is not run stays in one initial state of its own.
Init ==
    /\ part \in {"settings", "registration", "preferences"}
    /\ A!SettingsInit /\ R!RegistrationInit /\ P!PreferencesInit
    /\ part \in {"settings", "preferences"} => ~up
    /\ part # "preferences" => kind = "list" /\ inStore = <<>>
    /\ part = "settings" => acct.nick = acct.route
    /\ part # "settings" => acct.nick = acct.password /\ acct.route = acct.password

OnlySettings == part = "settings" /\ UNCHANGED <<part, registrationVars, preferenceVars>>
OnlyRegistration == part = "registration" /\ UNCHANGED <<part, settingsVars, preferenceVars>>
OnlyPreferences == part = "preferences" /\ UNCHANGED <<part, settingsVars, registrationVars>>

Next ==
    \/ OnlySettings /\ A!SettingsNext
    \/ OnlyRegistration /\ R!RegistrationNext
    \/ OnlyPreferences /\ P!PreferencesNext

Spec ==
    /\ Init /\ [][Next]_vars
    /\ WF_vars(OnlySettings /\ A!SettingsUi) /\ WF_vars(OnlySettings /\ A!SettingsTacky)
    /\ WF_vars(OnlyRegistration /\ R!RegistrationUi)
    /\ WF_vars(OnlyRegistration /\ R!RegistrationTacky)

\* AccountSettings: what a save says is saved is, and a switch stands where tacky has it.
\* Preferences: the controls show what is in force, and no emoji is forgotten.
SettingsTrue ==
    /\ part = "settings" => A!SettingsTypeOK /\ A!SettingsTrue
    /\ part = "preferences" => P!PreferencesTypeOK /\ P!ControlsTrue /\ P!NoneForgotten
\* AccountSettings: "saved() follows once the writes are through" (AccountSettings.h:117).
SavedIsSaved == A!SavedIsSaved
\* Registration: the sheet adds the account that was made, and shows tacky's form.
SignUpTrue == part = "registration" => R!RegistrationTypeOK /\ R!SignUpTrue
\* Neither page waits for ever: the settings for a write, the sheet for a server.
WaitsEnd == A!WritesEnd /\ R!SignUpEnds
=============================================================================
