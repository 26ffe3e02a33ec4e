---------------------------- MODULE Preferences -----------------------------
(***************************************************************************)
(* What tacky stores for the app: one key of AppSettings or one gain of     *)
(* AudioDevices, shown as it is written and put right by what tacky says.   *)
(* Keys do not meet; there are three kinds of them.                         *)
(***************************************************************************)
EXTENDS Wire, SequencesExt

CONSTANTS
    Options,    \* what a key may hold, emoji included
    Default     \* one of Options: tacky's own, repeated in the UI

\* A value is a sequence.  Of a "setting" <<>> is a key never written; of a "choice"
\* (a device, the media backend) it leaves the choice to tacky; of a "gain" it is
\* silence; and a "list" (the emoji used last, the newest first) may be empty.
VARIABLES
    kind,
    shown,
    unmuted,        \* of a gain: where an unmute goes back to
    log,            \* tacky: what it logs by, of a setting of the log (of others nothing is sent)
    stored,         \* tacky
    level,          \* of a gain: the last tacky had that was not silence (history)
    had,            \* of a list: all tacky ever had in it (history)
    unread,         \* the last read was refused (history)
    missed,         \* word of this key was lost, one way or the other (history)
    hasty           \* an emoji was used with others on their way (history)

preferenceVars == <<kind, shown, unmuted, log, stored, level, had, unread, missed, hasty>>
histories == <<level, had, unread, missed, hasty>>

Picks == {<<c>> : c \in Options}
Listed(v) == IF kind = "list" THEN ToSet(v) ELSE {}
\* The last that was not silence.
Loud(v, was) == IF kind = "gain" /\ v # <<>> THEN v ELSE was

PreferencesInit ==
    /\ WireInit /\ kind \in {"setting", "choice", "list", "gain"}
    /\ stored \in {<<>>} \cup Picks
    /\ shown = IF kind \in {"choice", "list"} THEN <<>> ELSE <<Default>>
    /\ unmuted = <<Default>> /\ log \in Picks /\ (kind # "setting" => log = <<Default>>)
    /\ level = Loud(stored, <<Default>>)
    /\ had = Listed(stored)
    /\ unread = FALSE /\ missed = FALSE /\ hasty = FALSE

Get == Call("get", Nil)
LogBy(v) == IF kind = "setting" THEN <<Frame("log", v)>> ELSE <<>>

\* A key never written leaves tacky's default in force.
Value(v) == IF kind = "setting" /\ v = <<>> THEN shown ELSE v

\* Shown at once; what the log has to go by is sent when it changes.
applyValue(in, v, fs) ==
    /\ shown' = Value(v) /\ unmuted' = Loud(v, unmuted)
    /\ send(in, {}, fs \o IF shown' = shown THEN <<>> ELSE LogBy(shown'))
    /\ UNCHANGED <<kind, log, stored>>

write(v) ==
    /\ Fits(2) /\ applyValue(toUi, v, <<Frame("set", v)>>)
    /\ missed' = (missed \/ ~up) /\ UNCHANGED <<level, had, unread>>

set(v) == kind # "list" /\ write(v) /\ UNCHANGED hasty

setMuted == kind = "gain" /\ write(IF shown = <<>> THEN unmuted ELSE <<>>) /\ UNCHANGED hasty

\* The newest goes first, in front of what is shown; all of Options fit.
use(c) ==
    /\ kind = "list" /\ write(<<c>> \o SelectSeq(shown, LAMBDA d : d # c))
    /\ hasty' = (hasty \/ unread \/ ~QuietWire)

\* On the connected edge, when the store opens, and by a picker.
Reads == LogBy(shown) \o <<Get>>

applyStoredPreferences ==
    /\ Fits(2) /\ send(toUi, {"get"}, Reads) /\ unread' = FALSE
    /\ missed' = (missed \/ (kind = "gain" /\ Waits("get")))
    /\ UNCHANGED <<kind, shown, unmuted, log, stored, level, had, hasty>>

PreferenceRead ==
    /\ Arrives("get") /\ ~Fails /\ Room /\ UNCHANGED histories
    /\ IF Given.live THEN applyValue(Rest, Given.body, <<>>)
       ELSE Took /\ UNCHANGED <<kind, shown, unmuted, log, stored>>

PreferenceUnread ==
    /\ Arrives("get") /\ Fails /\ Took
    /\ unread' = (unread \/ Given.live) /\ missed' = (missed \/ Given.live)
    /\ UNCHANGED <<kind, shown, unmuted, log, stored, level, had, hasty>>

OnChanged ==
    /\ Arrives("Changed") /\ Room /\ applyValue(Rest, Given.body, <<>>) /\ UNCHANGED histories

PreferencesAttach ==
    /\ Comes({"get"}, Reads) /\ unread' = FALSE
    /\ UNCHANGED <<kind, shown, unmuted, log, stored, level, had, missed, hasty>>

PreferencesDrop ==
    /\ Lost /\ missed' = TRUE
    /\ UNCHANGED <<kind, shown, unmuted, log, stored, level, had, unread, hasty>>

----------------------------------------------------------------------------
(* tacky                                                                    *)

OurSide == UNCHANGED <<kind, shown, unmuted, unread, hasty>>

TackyGets ==
    /\ Takes("get") /\ OurSide /\ UNCHANGED <<log, stored, level, had, missed>>
    /\ Says(<<Result(stored)>>) \/ Says(<<Refusal>>)

TackySets ==
    /\ Takes("set") /\ OurSide /\ UNCHANGED <<log, missed>>
    /\ stored' = Asked.body /\ level' = Loud(stored', level) /\ had' = had \cup Listed(stored')
    /\ Says(<<Frame("Changed", Asked.body)>>)

TackyLogs ==
    /\ Takes("log") /\ Says(<<>>) /\ log' = Asked.body
    /\ OurSide /\ UNCHANGED <<stored, level, had, missed>>

\* Another client, or tacky's own menu; the lists are the picker's alone.
Elsewhere ==
    /\ kind # "list" /\ OurSide /\ UNCHANGED <<log, had>>
    /\ stored' \in Picks \cup (IF kind = "setting" THEN {} ELSE {<<>>}) /\ stored' # stored
    /\ level' = Loud(stored', level) /\ missed' = (missed \/ ~up \/ Waits("get"))
    /\ Tells(<<Frame("Changed", stored')>>)

PreferencesNext ==
    \/ \E v \in Picks \cup {<<>>} : (v = <<>> => kind = "choice") /\ set(v)
    \/ setMuted \/ (\E c \in Options : use(c))
    \/ applyStoredPreferences \/ PreferenceRead \/ PreferenceUnread \/ OnChanged
    \/ PreferencesAttach \/ PreferencesDrop
    \/ TackyGets \/ TackySets \/ TackyLogs \/ Elsewhere

----------------------------------------------------------------------------

PreferencesTypeOK ==
    /\ WireTypeOK /\ kind \in {"setting", "choice", "list", "gain"}
    /\ {stored, shown, unmuted, level, log} \subseteq SeqOf(Options, Cardinality(Options))
    /\ kind = "setting" => shown # <<>>
    /\ unmuted # <<>> /\ {unread, missed, hasty} \subseteq BOOLEAN

InForce == IF kind = "setting" /\ stored = <<>> THEN <<Default>> ELSE stored

\* With nothing under way a control shows what is in force, whatever was written
\* under an older read; the log goes by what is shown; an unmute goes back to the
\* level there was.  What is written under a key for the first time, and lost, is
\* shown for good; nothing lost is gone back to.
ControlsTrue ==
    QuietWire /\ ~unread =>
        /\ shown = InForce \/ (kind = "setting" /\ stored = <<>> /\ missed)
        /\ kind = "setting" => log = shown
        /\ kind = "gain" /\ ~missed => unmuted = level

\* Emoji used one after the other, none before the list is read, are all remembered,
\* in a list with room for them: "what was sent from it" (AppSettings.h:59).
NoneForgotten == kind = "list" /\ ~hasty => had \subseteq ToSet(stored)
=============================================================================
