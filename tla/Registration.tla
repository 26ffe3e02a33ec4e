---------------------------- MODULE Registration ----------------------------
(***************************************************************************)
(* A sign-up: RegistrationController and the sheet that shows it, against   *)
(* tacky, which keeps a session under the one token the controller uses for *)
(* every attempt.  The form has one field that names the account, and a     *)
(* picture that comes apart from it.                                        *)
(***************************************************************************)
EXTENDS Wire

CONSTANTS
    Hosts,          \* servers
    Names,          \* what is typed in the field
    Blank,          \* the field as the server sent it
    MaxTries        \* sessions the user asks for (bound)

VARIABLES
    state, host, row, image, entered,
    added,          \* accounts the sheet added, as <<host, name>>
    late,           \* an attempt's end was taken for a later one's (history)
    \* tacky
    session,        \* [n, host, phase], Nil if there is none
    tries,
    made            \* accounts on servers, as <<host, name>>

registrationVars == <<state, host, row, image, entered, added, late, session, tries, made>>

States == {"Idle", "Connecting", "Ready", "Submitting", "Registered", "Failed"}
NoRow == Nil
busy == state \in {"Connecting", "Submitting"}
Tokens == {"form", "media"}
Theirs == UNCHANGED <<session, tries, made>>
registeredName(s) == IF s = "Registered" /\ row # Blank THEN row ELSE Nil

RegistrationInit ==
    /\ WireInit /\ state = "Idle" /\ host = Nil /\ row = NoRow /\ image = Nil
    /\ entered = Nil /\ session = Nil /\ tries = 0 /\ added = {} /\ late = FALSE /\ made = {}

sendCancel == IF state = "Idle" THEN <<>> ELSE <<Bare("cancel")>>

\* After `fs`, the host is asked for its form, if there is a link to ask it over.
connectSession(h, fs) ==
    /\ tries' = tries + 1 /\ host' = h
    /\ send(toUi, Tokens, fs \o <<Frame("connect", [n |-> tries', host |-> h])>>)
    /\ state' = IF up THEN "Connecting" ELSE "Failed"

\* Another server's form is another form; nothing of the last one is left.
start(h) ==
    /\ ~busy /\ Fits(2) /\ tries < MaxTries
    /\ connectSession(h, sendCancel)
    /\ entered' = Nil /\ row' = NoRow /\ image' = Nil
    /\ UNCHANGED <<added, late, session, made>>

retry ==
    /\ ~busy /\ Fits(1) /\ tries < MaxTries /\ row # NoRow
    /\ connectSession(host, <<>>)
    /\ UNCHANGED <<row, image, entered, added, late, session, made>>

\* The sheet closes.
cancel ==
    /\ state # "Idle" /\ Fits(1) /\ send(toUi, Tokens, sendCancel)
    /\ state' = "Idle" /\ entered' = Nil /\ row' = NoRow /\ image' = Nil
    /\ UNCHANGED <<host, added, late>> /\ Theirs

setValue(v) ==
    /\ ~busy /\ row # NoRow /\ v # row /\ row' = v /\ entered' = v
    /\ UNCHANGED <<wire, state, host, image, added, late>> /\ Theirs

submitForm ==
    /\ ~busy /\ row \notin {NoRow, Blank} /\ Fits(1)
    /\ notify(<<Frame("submit", row)>>)
    /\ state' = IF up THEN "Submitting" ELSE "Failed"
    /\ UNCHANGED <<host, row, image, entered, added, late>> /\ Theirs

\* Each event names the token, which an attempt shares with the one before it.
OnForm ==
    /\ Arrives("Form") /\ Room /\ send(Rest, {"form"}, <<Call("form", Nil)>>)
    /\ UNCHANGED <<state, host, row, image, entered, added, late>> /\ Theirs

OnMediaReady ==
    /\ Arrives("MediaReady") /\ Room /\ send(Rest, {}, <<Call("media", Nil)>>)
    /\ UNCHANGED <<state, host, row, image, entered, added, late>> /\ Theirs

\* The sheet adds the account, as the form names it, when the state first says so.
OnVerdict ==
    /\ Arrives("Success") \/ Arrives("Error")
    /\ Took /\ state' = IF Given.kind = "Success" THEN "Registered" ELSE "Failed"
    /\ added' = IF state = "Registered" \/ registeredName(state') = Nil THEN added
                ELSE added \cup {<<host, row>>}
    /\ late' = (late \/ Given.body # tries)
    /\ UNCHANGED <<host, row, image, entered>> /\ Theirs

\* What was typed beats what the server filled in.
applyForm(f) == row' = (IF entered = Nil THEN f ELSE entered) /\ image' = Nil

\* As a bug would have it: whichever form it is
FormAnsweredAny ==
    /\ Arrives("form") /\ Took
    /\ IF Fails THEN state' = "Failed" /\ UNCHANGED <<row, image>>
       ELSE state' = "Ready" /\ applyForm(Given.body)
    /\ UNCHANGED <<host, entered, added, late>> /\ Theirs

FormAnswered ==
    /\ Arrives("form") /\ Took
    /\ IF ~Given.live THEN UNCHANGED <<state, row, image>>
       ELSE IF Fails THEN state' = "Failed" /\ UNCHANGED <<row, image>>
       ELSE state' = "Ready" /\ applyForm(Given.body)
    /\ UNCHANGED <<host, entered, added, late>> /\ Theirs

applyMedia(m) == image' = IF row = NoRow THEN image ELSE m

MediaAnswered ==
    /\ Arrives("media") /\ Took
    /\ IF ~Given.live \/ Fails THEN UNCHANGED image ELSE applyMedia(Given.body)
    /\ UNCHANGED <<state, host, row, entered, added, late>> /\ Theirs

\* As a bug would have it: the answers may still come
onRunningChangedOnly ==
    /\ Lost /\ session' = Nil
    /\ UNCHANGED <<state, host, row, image, entered, added, late, tries, made>>

\* The connection tacky held goes with the link.
onRunningChanged ==
    /\ Lost /\ session' = Nil
    /\ state' = IF state \in {"Connecting", "Ready", "Submitting"} THEN "Failed" ELSE state
    /\ UNCHANGED <<host, row, image, entered, added, late, tries, made>>

\* Nothing is asked again: a sign-up is the user's own doing.
RegistrationAttach == Comes({}, <<>>) /\ UNCHANGED registrationVars

----------------------------------------------------------------------------
(* tacky                                                                    *)

Ours == UNCHANGED <<state, host, row, image, entered, added, late, tries>>

\* Which attempt it is of is not said; the body is for `late`.
Verdict(k) == Frame(k, IF session = Nil THEN 0 ELSE session.n)

TackyConnect ==
    /\ Takes("connect") /\ Says(<<>>) /\ Ours /\ UNCHANGED made
    /\ session' = [n |-> Asked.body.n, host |-> Asked.body.host, phase |-> "asking"]

TackyCancel == Takes("cancel") /\ Says(<<>>) /\ session' = Nil /\ Ours /\ UNCHANGED made

\* The server hands out its form, with a picture or not, or turns the user away.
TackyForm ==
    /\ up /\ session # Nil /\ session.phase = "asking" /\ Len(toUi) <= Depth
    /\ \E end \in {<<"form", <<Bare("Form")>>>>, <<"pictured", <<Bare("Form"), Bare("MediaReady")>>>>,
                   <<"spent", <<Verdict("Error")>>>>} :
         session' = [session EXCEPT !.phase = end[1]] /\ toUi' = toUi \o end[2]
    /\ Ours /\ UNCHANGED <<up, toTacky, drops, made>>

HasForm == session # Nil /\ session.phase \in {"form", "pictured", "rejected"}

TackyReads ==
    /\ Ours /\ UNCHANGED <<session, made>>
    /\ \/ Takes("form") /\ Says(<<IF HasForm THEN Result(Blank) ELSE Refusal>>)
       \/ Takes("media")
          /\ Says(<<IF session # Nil /\ session.phase = "pictured"
                    THEN Result(session.n) ELSE Refusal>>)

TackySubmit ==
    /\ Takes("submit") /\ Ours
    /\ \/ HasForm /\ Says(<<Verdict("Success")>>) /\ made' = made \cup {<<session.host, Asked.body>>}
          /\ session' = [session EXCEPT !.phase = "spent"]
       \/ /\ Says(<<Verdict("Error")>>) /\ UNCHANGED made
          /\ IF HasForm THEN \E p \in {"rejected", "spent"} : session' = [session EXCEPT !.phase = p]
             ELSE UNCHANGED session

\* The server closes the connection.
TackyFails ==
    /\ HasForm /\ session' = [session EXCEPT !.phase = "spent"]
    /\ Tells(<<Verdict("Error")>>) /\ Ours /\ UNCHANGED made

RegistrationTacky == TackyConnect \/ TackyCancel \/ TackyForm \/ TackyReads \/ TackySubmit
RegistrationUi ==
    \/ OnForm \/ OnMediaReady \/ OnVerdict \/ FormAnswered \/ MediaAnswered
    \/ RegistrationAttach
RegistrationUser ==
    \/ \E h \in Hosts : start(h)
    \/ retry \/ cancel \/ submitForm \/ \E v \in Names : setValue(v)

RegistrationNext ==
    RegistrationUser \/ RegistrationUi \/ RegistrationTacky \/ TackyFails \/ onRunningChanged

----------------------------------------------------------------------------

RegistrationTypeOK ==
    /\ WireTypeOK /\ state \in States /\ host \in Hosts \cup {Nil} /\ tries \in 0..MaxTries
    /\ row \in Names \cup {NoRow, Blank} /\ entered \in Names \cup {Nil}
    /\ late \in BOOLEAN /\ image \in {Nil} \cup 1..MaxTries /\ added \cup made \subseteq Hosts \X Names

\* An account the sheet adds is one that was made; what was typed is what the
\* field shows, whichever form it is in; and with nothing under way, a form tacky
\* holds is the one shown, with that form's picture, none is filled in that tacky
\* has no session for, and a session is held
\* only for a sheet that is open - unless an attempt's end, a failure or a success, came
\* after the next was begun (`late`).
SignUpTrue ==
    /\ ~late => added \subseteq made
    /\ row # NoRow /\ entered # Nil => row = entered
    /\ QuietWire /\ ~late =>
        /\ state = "Idle" => session = Nil
        /\ state = "Ready" => HasForm
        /\ HasForm => row # NoRow /\ state = IF session.phase = "rejected" THEN "Failed" ELSE "Ready"
        /\ HasForm /\ image # Nil => image = session.n
        /\ session # Nil /\ session.phase = "pictured" => image # Nil

\* The sheet does not stay busy.
SignUpEnds == busy ~> ~busy
=============================================================================
