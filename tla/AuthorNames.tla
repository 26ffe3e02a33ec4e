---------------------------- MODULE AuthorNames ----------------------------
(***************************************************************************)
(* The names of a chat's senders: a map read whole, and patched one name at *)
(* a time.                                                                  *)
(***************************************************************************)
EXTENDS Wire, Functions, TLC

CONSTANTS Rooms, NoRoom, Senders

VARIABLES
    room,       \* m_chat
    names,      \* m_names: what each sender is called, and in which chat
    unread,     \* the last read was refused (history)
    \* tacky
    called      \* what each sender of each chat is called: one of two names

namesVars == <<room, names, unread, called>>

Calls == [Rooms -> [Senders -> BOOLEAN]]
NameIn(r, s) == [of |-> r, is |-> called[r][s]]

NamesInit ==
    /\ WireInit /\ room = NoRoom /\ names = <<>> /\ unread = FALSE
    /\ called = [r \in Rooms |-> [s \in Senders |-> FALSE]]

NamesGet(r) == IF r = NoRoom THEN <<>> ELSE <<Call("author", r)>>

\* Nothing waits on an older answer, in no chat as well.
NamesRefresh(in, r) == send(in, {"author"}, NamesGet(r)) /\ unread' = FALSE

\* One map per chat: a stale name under another would be worse than a bare JID.
NamesRestart(r) ==
    /\ Fits(1) /\ r # room /\ room' = r /\ names' = <<>>
    /\ NamesRefresh(toUi, r) /\ UNCHANGED called

NamesAnswered ==
    /\ Arrives("author") /\ ~Fails /\ Took
    /\ names' = IF Given.live THEN Given.body ELSE names
    /\ UNCHANGED <<room, unread, called>>

NamesRefused ==
    /\ Arrives("author") /\ Fails /\ Took /\ unread' = (unread \/ Given.live)
    /\ UNCHANGED <<room, names, called>>

NameChanged ==
    /\ Arrives("Changed") /\ Took
    /\ names' = IF Given.body.of = room THEN (Given.body.from :> Given.body.name) @@ names ELSE names
    /\ UNCHANGED <<room, unread, called>>

\* The occupants are rebuilt with the session, and no change tells of it.
NamesSessionUp ==
    /\ Arrives("State") /\ Room /\ NamesRefresh(Rest, room)
    /\ UNCHANGED <<room, names, called>>

NamesAttach ==
    /\ Comes({"author"}, NamesGet(room)) /\ unread' = FALSE
    /\ UNCHANGED <<room, names, called>>

NamesDrop == Lost /\ UNCHANGED namesVars

----------------------------------------------------------------------------
(* tacky                                                                    *)

TackyNames ==
    /\ Takes("author") /\ UNCHANGED namesVars
    /\ \/ Says(<<Result([s \in Senders |-> NameIn(Asked.body, s)])>>)
       \/ Says(<<Refusal>>)

TackyRenames ==
    \E r \in Rooms, s \in Senders :
        /\ called' = [called EXCEPT ![r][s] = ~@]
        /\ Tells(<<Frame("Changed", [of |-> r, from |-> s, name |-> NameIn(r, s)'])>>)
        /\ UNCHANGED <<room, names, unread>>

TackyRebuilds == called' \in Calls /\ Tells(<<Bare("State")>>) /\ UNCHANGED <<room, names, unread>>

NamesUi ==
    NamesAnswered \/ NamesRefused \/ NameChanged \/ NamesSessionUp \/ NamesAttach

NamesNext ==
    \/ \E r \in Rooms \cup {NoRoom} : NamesRestart(r)
    \/ NamesUi \/ NamesDrop
    \/ TackyNames \/ TackyRenames \/ TackyRebuilds

----------------------------------------------------------------------------

NamesTypeOK ==
    /\ WireTypeOK /\ room \in Rooms \cup {NoRoom} /\ unread \in BOOLEAN
    /\ called \in Calls /\ DOMAIN names \subseteq Senders

\* A name shown is one of this chat, and with nothing under way it is the one
\* tacky has, unless the last read was refused.
NamesTrue ==
    /\ \A s \in DOMAIN names : names[s].of = room
    /\ QuietWire /\ room # NoRoom /\ ~unread => names = [s \in Senders |-> NameIn(room, s)]
=============================================================================
