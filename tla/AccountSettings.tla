-------------------------- MODULE AccountSettings --------------------------
(***************************************************************************)
(* One account's settings: a form that is saved in steps - the password,    *)
(* the nickname on the server, then the route, which starts the account     *)
(* over -, switches written at once, and requests of their own for the      *)
(* avatar and the server's password.                                        *)
(***************************************************************************)
EXTENDS Wire

CONSTANTS
    Values,         \* of a field
    MaxAsks         \* what the user does, or another session (bound)

VARIABLES
    fields,         \* m_password, m_nick, m_proxy with m_tor: as last read
    pending,        \* m_pendingProxy and m_pendingTor
    waits,          \* the writes that are waited for
    status,         \* of the save
    switch,
    unread,         \* reads refused since they were all made (history)
    saving,         \* what was last saved: a nickname if it was to change, a route (history)
    orderly,        \* of the saves since the attach (history): "none", "all", "crossed" by
                    \* one another, or "not" if one did not wait for the reads
    asks,           \* so far (for MaxAsks)
    \* tacky
    acct,
    stored          \* the switch, Nil if never written

settingsVars ==
    <<fields, pending, waits, status, switch, unread, saving, orderly, asks, acct, stored>>

Unset == CHOOSE v \in Values : TRUE
Account == [password : Values, nick : Values, route : Values]
ReadKinds == {"get", "nick", "setting"}
Writes == {"setNick", "setRoute", "changePassword", "avatar"}
Saving == waits \cap {"setNick", "setRoute"} # {}

SettingsInit ==
    /\ WireInit /\ fields = [password |-> Unset, nick |-> Unset, route |-> Unset]
    /\ pending = Unset /\ waits = {} /\ status = "" /\ switch = FALSE
    /\ unread = {} /\ saving = [nick |-> Nil, route |-> Unset] /\ orderly = "not"
    /\ asks = 0 /\ acct \in {a \in Account : a.password = Unset} /\ stored = Nil

\* Every read is over.
AllRead == up /\ unread = {} /\ ~\E k \in ReadKinds : Waits(k)

Reads == <<Call("get", Nil), Call("nick", Nil), Call("setting", Nil)>>
requestNick(in) == send(in, {"nick"}, <<Call("nick", Nil)>>)

\* Room the user leaves to the handlers.
Spare == Len(toTacky) <= Depth

Theirs == UNCHANGED <<acct, stored>>
AsksMore == asks < MaxAsks /\ asks' = asks + 1

\* As a bug would have it: written only if no nickname was
saveProxyLone(r, in, K, fs) ==
    /\ status' = "saved" /\ UNCHANGED waits /\ send(in, K, fs)

\* The last step: tacky's answer ends the save, unless there is nothing to change.
saveProxy(r, in, K, fs) ==
    IF r = fields.route
    THEN status' = "saved" /\ waits' = waits \ K /\ send(in, K, fs)
    ELSE /\ status' = "saving" /\ waits' = (waits \ K) \cup {"setRoute"}
         /\ send(in, K \cup {"setRoute"}, fs \o <<Call("setRoute", r)>>)

\* The form, by its button, or by Enter in a field, which does not look whether a
\* save is under way.
save(p, n, r) ==
    /\ Fits(1) /\ AsksMore /\ [password |-> p, nick |-> n, route |-> r] # fields
    /\ fields' = [fields EXCEPT !.password = p] /\ pending' = r
    /\ LET fs == IF p = fields.password THEN <<>> ELSE <<Frame("set", p)>>
       IN  IF n = fields.nick THEN saveProxy(r, toUi, {}, fs)
           ELSE /\ status' = "saving" /\ waits' = waits \cup {"setNick"}
                /\ send(toUi, {"setNick"}, fs \o <<Call("setNick", n)>>)
    /\ saving' = [nick |-> IF n = fields.nick THEN Nil ELSE n, route |-> r]
    /\ orderly' = IF orderly = "not" \/ ~AllRead THEN "not"
                  ELSE IF Saving \/ orderly = "crossed" THEN "crossed" ELSE "all"
    /\ UNCHANGED <<switch, unread>> /\ Theirs

\* The avatar, or the server's password: one at a time.
Ask(k) ==
    /\ Fits(1) /\ AsksMore /\ k \notin waits /\ waits' = waits \cup {k} /\ notify(<<Call(k, Nil)>>)
    /\ UNCHANGED <<fields, pending, status, switch, unread, saving, orderly>> /\ Theirs

\* Redrawn at once, as tacky will confirm.
writeSetting ==
    /\ Fits(1) /\ AsksMore /\ switch' = ~switch /\ notify(<<Frame("setting", switch')>>)
    /\ UNCHANGED <<fields, pending, waits, status, unread, saving, orderly>> /\ Theirs

applySetting(v) == switch' = IF v = Nil THEN switch ELSE v.on

Form == UNCHANGED <<pending, waits, status, saving, orderly, asks>>

ReadAnswered ==
    /\ \E k \in ReadKinds : Arrives(k)
    /\ Took /\ Form /\ Theirs
    /\ IF ~Given.live \/ Fails
       THEN UNCHANGED <<fields, switch>>
       ELSE CASE Given.kind = "get" ->
                    /\ fields' = [fields EXCEPT !.password = Given.body.password, !.route = Given.body.route]
                    /\ UNCHANGED switch
              [] Given.kind = "nick" ->
                    fields' = [fields EXCEPT !.nick = Given.body] /\ UNCHANGED switch
              [] OTHER -> applySetting(Given.body) /\ UNCHANGED fields
    /\ unread' = IF Given.live /\ Fails THEN unread \cup {Given.kind} ELSE unread

NickSet ==
    /\ Arrives("setNick") /\ Spare
    /\ IF ~Given.live THEN Took /\ UNCHANGED <<waits, status>>
       ELSE IF Fails
       THEN /\ Took /\ waits' = waits \ {"setNick"} /\ status' = "failed"
       ELSE saveProxy(pending, Rest, {"setNick"}, <<>>)
    /\ UNCHANGED <<fields, pending, switch, unread, saving, orderly, asks>> /\ Theirs

RouteSet ==
    /\ Arrives("setRoute") /\ Took
    /\ IF ~Given.live THEN UNCHANGED <<fields, waits, status>>
       ELSE /\ waits' = waits \ {"setRoute"}
            /\ status' = IF Fails THEN "failed" ELSE "saved"
            /\ fields' = IF Fails THEN fields ELSE [fields EXCEPT !.route = pending]
    /\ UNCHANGED <<pending, switch, unread, saving, orderly, asks>> /\ Theirs

\* The stored password is read back, rather than a copy of what was typed kept.
PasswordChanged ==
    /\ Arrives("changePassword") /\ Spare /\ waits' = waits \ {"changePassword"}
    /\ IF Fails THEN Took ELSE send(Rest, {"get"}, <<Call("get", Nil)>>)
    /\ status' = IF Fails THEN status ELSE "password changed"
    /\ UNCHANGED <<fields, pending, switch, unread, saving, orderly, asks>> /\ Theirs

AvatarDone ==
    /\ Arrives("avatar") /\ Took /\ waits' = waits \ {"avatar"}
    /\ UNCHANGED <<fields, pending, status, switch, unread, saving, orderly, asks>> /\ Theirs

OnSettingChanged ==
    /\ Arrives("Changed") /\ Took /\ applySetting(Given.body)
    /\ UNCHANGED <<fields, unread>> /\ Form /\ Theirs

\* The nickname is the server's: another session may have another.
OnNick ==
    /\ Arrives("Nick") /\ Spare /\ requestNick(Rest)
    /\ unread' = unread \ {"nick"}
    /\ UNCHANGED <<fields, switch>> /\ Form /\ Theirs

\* Each write that was out fails.
SettingsDrop ==
    /\ Lost /\ waits' = {} /\ status' = IF Saving THEN "failed" ELSE status
    /\ UNCHANGED <<fields, pending, switch, unread, saving, orderly, asks>> /\ Theirs

SettingsAttach ==
    /\ Comes(ReadKinds, Reads) /\ unread' = {}
    /\ orderly' = "none"
    /\ UNCHANGED <<fields, pending, waits, status, switch, saving, asks>> /\ Theirs

----------------------------------------------------------------------------
(* tacky                                                                    *)

OurForm == UNCHANGED <<fields, pending, waits, status, switch, unread, orderly>>
Ours == OurForm /\ UNCHANGED asks

TackyReads ==
    /\ Ours /\ Theirs /\ UNCHANGED saving
    /\ \/ \E k \in ReadKinds : Takes(k) /\ IsCall(Asked) /\ Says(<<Refusal>>)
       \/ Takes("get") /\ Says(<<Result(acct)>>)
       \/ Takes("nick") /\ Says(<<Result(acct.nick)>>)
       \/ Takes("setting") /\ IsCall(Asked) /\ Says(<<Result(stored)>>)

TackySet ==
    /\ Takes("set") /\ acct' = [acct EXCEPT !.password = Asked.body] /\ Says(<<>>)
    /\ Ours /\ UNCHANGED <<saving, stored>>

TackySetting ==
    /\ Takes("setting") /\ ~IsCall(Asked)
    /\ stored' = [on |-> Asked.body] /\ Says(<<Frame("Changed", stored')>>)
    /\ Ours /\ UNCHANGED <<saving, acct>>

TackyWrites ==
    /\ \E k \in Writes : Takes(k)
    /\ Ours /\ UNCHANGED <<saving, stored>>
    /\ \/ Says(<<Refusal>>) /\ UNCHANGED acct
       \/ /\ Says((IF Asked.kind = "setNick" THEN <<Bare("Nick")>> ELSE <<>>) \o <<Result(Nil)>>)
          /\ CASE Asked.kind = "setNick" -> acct' = [acct EXCEPT !.nick = Asked.body]
               [] Asked.kind = "setRoute" -> acct' = [acct EXCEPT !.route = Asked.body]
               [] Asked.kind = "changePassword" -> \E v \in Values : acct' = [acct EXCEPT !.password = v]
               [] OTHER -> UNCHANGED acct

\* The nickname changes elsewhere, or the session comes up with another.
TackyNick ==
    /\ AsksMore /\ \E v \in Values : v # acct.nick /\ acct' = [acct EXCEPT !.nick = v]
    /\ saving' = [saving EXCEPT !.nick = Nil]
    /\ Tells(<<Bare("Nick")>>) /\ OurForm /\ UNCHANGED stored

SettingsTacky == TackyReads \/ TackySet \/ TackySetting \/ TackyWrites
SettingsUi ==
    \/ ReadAnswered \/ NickSet \/ RouteSet \/ PasswordChanged \/ AvatarDone
    \/ OnSettingChanged \/ OnNick \/ SettingsAttach
SettingsUser ==
    \/ \E p, n, r \in Values : save(p, n, r)
    \/ Ask("avatar") \/ Ask("changePassword") \/ writeSetting

SettingsNext ==
    SettingsUser \/ SettingsUi \/ SettingsTacky \/ SettingsDrop \/ TackyNick

----------------------------------------------------------------------------

SettingsTypeOK ==
    /\ WireTypeOK /\ asks \in 0..MaxAsks /\ fields \in Account /\ acct \in Account /\ saving.route \in Values
    /\ pending \in Values /\ waits \subseteq Writes /\ switch \in BOOLEAN
    /\ status \in {"", "saving", "saved", "failed", "password changed"}
    /\ unread \subseteq ReadKinds /\ orderly \in {"none", "all", "crossed", "not"}
    /\ stored \in {Nil} \cup [on : BOOLEAN]

OnServer ==
    status = "saved" => saving.nick \in {Nil, acct.nick} /\ acct.route = saving.route

\* "saved() follows once the writes are through, which for the nickname means the
\* server said yes" (AccountSettings.h:117): what the form says is saved is what the
\* account has, with every field read when it was changed.
SavedIsSaved == orderly \in {"all", "crossed"} => OnServer

\* A save begun after the fields were read and the save before it was over is
\* saved when it says so; and with nothing under way a switch stands where tacky
\* acts on it, and the nickname shown is the server's, unless a read was refused.
SettingsTrue ==
    /\ orderly = "all" => OnServer
    /\ QuietWire =>
        /\ "setting" \notin unread /\ stored # Nil => switch = stored.on
        /\ "nick" \notin unread => fields.nick = acct.nick

\* The page does not wait for ever on a save, an avatar or a password.
WritesEnd == waits # {} ~> waits = {}
=============================================================================
