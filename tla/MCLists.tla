------------------------------ MODULE MCLists -------------------------------
(***************************************************************************)
(* What a device has beside the messages of a chat: lists read from tacky    *)
(* and patched by its events, pictures and files, alerts, calls that ring,   *)
(* and the bytes of the link.  The parts share no state but the link, so     *)
(* each is run by itself: `part` says which.                                 *)
(***************************************************************************)
EXTENDS Wire

CONSTANTS
    MaxJid, MaxOrder,                                    \* ChatListModel
    Chats, NoRoom, Senders,                              \* AuthorNames
    Own, Peer, This, Other, Hers, NoDevice,            \* OmemoDevices
    Rooms, People, Full,                                 \* MucRoom
    Jids,                                                \* AccountsModel
    Keys, None, MaxAlerts, MaxIds, Bus,                  \* DesktopAlerts
    Sids, Posted, MaxInvites,                            \* PhoneCalls
    Faces, Hashes, NoHash, Loads,                        \* Avatars
    Quoting, OwnMessage, Taps,                           \* Attachments
    Newline, Base, Longest, MaxFrame, MaxSent, MaxOpened \* Framing

VARIABLES
    part,
    account, items, loadError, entries,
    room, names, namesUnread, called,
    owner, lastRows, deviceRows, ownDevice, blindTrust, devicesUnread, session, trust, blind,
    jid, active, stale, people, filter, rows, joined, roomUnread, in, present,
    accountRows, enabledJids, enabledKnown, listsUnread, accounts,
    resolved, available, held, alerts, byId, toDaemon, toApp, screen, ids, raised, due, failed,
    main, calls, groups, silenced, shown, wanted, timers, ringing, foreground, inCall, sent,
    leg, joinedCalls, invites,
    hash, marked, fetching, onScreen, image, response, posted, twice, excused, have, marks,
    fileRows, key, xfer, upload, pendingAction, forgotten, crossed, followed, file, waiting, put, stamp,
    on, sock, timer, reported, buf, expected, loop, served, prefix, len, payload,
    bytesUp, bytesDown, opened, written, emitted, wrote, took, gave, lost

L == INSTANCE ChatListModel
N == INSTANCE AuthorNames WITH Rooms <- Chats, unread <- namesUnread
D == INSTANCE OmemoDevices WITH jid <- owner, rows <- deviceRows, unread <- devicesUnread
M == INSTANCE MucRoom WITH Keys <- People, unread <- roomUnread
A == INSTANCE AccountsModel WITH rows <- accountRows, unread <- listsUnread
F == INSTANCE DesktopAlerts WITH entries <- alerts
\* Calls by themselves, and one beside a group call.
P == INSTANCE PhoneCalls WITH joined <- joinedCalls, Rooms <- {}
G == INSTANCE PhoneCalls WITH joined <- joinedCalls, Sids <- {CHOOSE s \in Sids : TRUE}

V == INSTANCE Avatars WITH People <- Faces, pending <- fetching
T == INSTANCE Attachments WITH rows <- fileRows, Own <- OwnMessage
B == INSTANCE Framing WITH
       wanted <- on, toService <- bytesUp, toUi <- bytesDown, sent <- written, put <- wrote

listVars == <<account, items, loadError, entries>>
namesVars == <<room, names, namesUnread, called>>
devicesVars ==
    <<owner, lastRows, deviceRows, ownDevice, blindTrust, devicesUnread, session, trust, blind>>
roomVars == <<jid, active, stale, people, filter, rows, joined, roomUnread, in, present>>
accountsVars == <<accountRows, enabledJids, enabledKnown, listsUnread, accounts>>
alertVars ==
    <<resolved, available, held, alerts, byId, toDaemon, toApp, screen, ids, raised, due, failed>>
phoneVars ==
    <<main, calls, groups, silenced, shown, wanted, timers, ringing, foreground, inCall, sent,
      leg, joinedCalls, invites>>
avatarVars ==
    <<hash, marked, fetching, onScreen, image, response, posted, twice, excused, have, marks>>
fileVars ==
    <<fileRows, key, xfer, upload, pendingAction, forgotten, crossed, followed, file, waiting,
      put, stamp>>
byteVars ==
    <<on, sock, timer, reported, buf, expected, loop, served, prefix, len, payload,
      bytesUp, bytesDown, opened, written, emitted, wrote, took, gave, lost>>
vars ==
    <<part, wire, listVars, namesVars, devicesVars, roomVars, accountsVars, alertVars, phoneVars,
      avatarVars, fileVars, byteVars>>

\* A part that is not run stays in one initial state of its own.
Init ==
    /\ part \in {"list", "names", "devices", "room", "accounts", "alerts", "phone", "group phone",
                "avatars", "files", "bytes"}
    /\ L!ListInit /\ N!NamesInit /\ D!DevicesInit /\ M!RoomInit /\ A!AccountsInit /\ F!AlertsInit
    /\ V!AvatarsInit /\ T!FilesInit /\ B!FramingInit
    /\ IF part = "phone" THEN P!PhoneInit ELSE G!PhoneInit
    /\ part # "list" => entries[1] = 0
    /\ part # "devices" => ~blind
    /\ part # "room" => \A r \in Rooms : ~in[r]
    /\ part # "avatars" => \A p \in Faces : have[p] = NoHash
    /\ part \in {"accounts", "alerts", "phone", "group phone", "bytes"} => ~up

NotList == UNCHANGED listVars
NotNames == UNCHANGED namesVars
NotDevices == UNCHANGED devicesVars
NotRoom == UNCHANGED roomVars
NotAccounts == UNCHANGED accountsVars
NotAlerts == UNCHANGED alertVars
NotPhone == UNCHANGED phoneVars
NotAvatars == UNCHANGED avatarVars
NotFiles == UNCHANGED fileVars
NotBytes == UNCHANGED byteVars
NotMedia == NotAvatars /\ NotFiles
Lists == NotAlerts /\ NotPhone /\ NotMedia /\ NotBytes /\ UNCHANGED part
NoLists == NotList /\ NotNames /\ NotDevices /\ NotRoom /\ NotAccounts
NoLink == NoLists /\ NotMedia /\ NotBytes /\ UNCHANGED <<part, wire>>

OnlyList == part = "list" /\ Lists /\ NotNames /\ NotDevices /\ NotRoom /\ NotAccounts
OnlyNames == part = "names" /\ Lists /\ NotList /\ NotDevices /\ NotRoom /\ NotAccounts
OnlyDevices == part = "devices" /\ Lists /\ NotList /\ NotNames /\ NotRoom /\ NotAccounts
OnlyRoom == part = "room" /\ Lists /\ NotList /\ NotNames /\ NotDevices /\ NotAccounts
OnlyAccounts == part = "accounts" /\ Lists /\ NotList /\ NotNames /\ NotDevices /\ NotRoom
OnlyAlerts == part = "alerts" /\ NoLink /\ NotPhone
OnlyAvatars == part = "avatars" /\ NoLists /\ NotAlerts /\ NotPhone /\ NotFiles /\ NotBytes /\ UNCHANGED part
OnlyFiles == part = "files" /\ NoLists /\ NotAlerts /\ NotPhone /\ NotAvatars /\ NotBytes /\ UNCHANGED part
OnlyBytes ==
    part = "bytes" /\ NoLists /\ NotAlerts /\ NotPhone /\ NotMedia /\ UNCHANGED <<part, wire>>

Next ==
    \/ OnlyList /\ L!ListNext
    \/ OnlyNames /\ N!NamesNext
    \/ OnlyDevices /\ D!DevicesNext
    \/ OnlyRoom /\ M!RoomNext
    \/ OnlyAccounts /\ A!AccountsNext
    \/ OnlyAlerts /\ F!AlertsNext
    \/ OnlyAvatars /\ V!AvatarsNext
    \/ OnlyFiles /\ T!FilesNext
    \/ OnlyBytes /\ B!FramingNext
    \/ part = "phone" /\ NoLink /\ NotAlerts /\ P!PhoneNext
    \/ part = "group phone" /\ NoLink /\ NotAlerts /\ G!PhoneNext

Spec == Init /\ [][Next]_vars

\* ChatListModel: with nothing under way the chats are tacky's, in their order.
ListTrue == part = "list" => L!ListTypeOK /\ L!ListTrue
\* AuthorNames: with nothing under way each sender is called what tacky calls them.
NamesTrue == part = "names" => N!NamesTypeOK /\ N!NamesTrue
\* AccountsModel: with nothing under way the accounts are tacky's, and as it has them.
AccountsTrue == part = "accounts" => A!AccountsTypeOK /\ A!AccountsTrue
\* The lists a shell shows: chats, the names in them, and accounts.
ListsTrue == ListTrue /\ NamesTrue /\ AccountsTrue
\* OmemoDevices: with nothing under way the devices and their trust are tacky's.
TrustTrue == part = "devices" => D!DevicesTypeOK /\ D!TrustTrue
\* MucRoom: with nothing under way the people shown are the room's.
RoomTrue == part = "room" => M!RoomTypeOK /\ M!RoomTrue
\* Avatars: each load ends once, and what is shown is the picture there is.
AvatarsTrue == part = "avatars" => V!AvatarsTypeOK /\ V!AvatarsTrue
\* Attachments: with nothing under way the files shown are tacky's.
FilesTrue == part = "files" => T!FilesTypeOK /\ T!FilesTrue
\* What comes to a message and the face beside it from elsewhere.
MediaTrue == AvatarsTrue /\ FilesTrue
\* Framing: what either end receives is what the other has sent it, whole and in order.
FramesWhole == part = "bytes" => B!FramingTypeOK /\ B!FramesWhole
\* DesktopAlerts: a chat has one popup, if it has something to say.
AlertsTrue == part = "alerts" => F!AlertsTypeOK /\ F!AlertsTrue
\* PhoneCalls: the phone rings for the calls that come in, for as long as they do.
PhoneTrue ==
    /\ part = "phone" => P!PhoneTypeOK /\ P!PhoneTrue
    /\ part = "group phone" => G!PhoneTypeOK /\ G!PhoneTrue
=============================================================================
