---------------------------- MODULE OmemoDevices ---------------------------
(***************************************************************************)
(* The devices of one JID and the trust put in each, and the account's      *)
(* blind trust.  Our own JID has this device among its own, which is told   *)
(* apart by an answer of its own and not shown.                             *)
(***************************************************************************)
EXTENDS Wire

CONSTANTS
    Own, Peer,          \* whose devices may be looked at
    This, Other, Hers, \* two devices of our own, one of the peer's
    NoDevice

VARIABLES
    jid,                \* m_jid, of no one at first
    lastRows, rows,     \* the list as it came, and what is shown of it
    ownDevice,
    blindTrust,
    unread,             \* one of the last reads was refused (history)
    \* tacky
    session,            \* the account's store is open
    trust, blind

devicesVars == <<jid, lastRows, rows, ownDevice, blindTrust, unread, session, trust, blind>>

Devices == {This, Other, Hers}
Trusts == {"trusted", "undecided"}
NoRows == <<>>
OfJid(j) == IF j = Own THEN {This, Other} ELSE {Hers}

DevicesInit ==
    /\ WireInit /\ jid = Nil /\ lastRows = NoRows /\ rows = NoRows /\ ownDevice = NoDevice
    /\ blindTrust = FALSE /\ unread = FALSE
    /\ session = FALSE /\ trust = [d \in Devices |-> "undecided"] /\ blind \in BOOLEAN

Reads(j) ==
    IF j = Nil THEN <<>>
    ELSE <<Call("trustList", j), Call("blindTrust", Nil)>>
         \o IF j = Own THEN <<Call("device", Nil)>> ELSE <<>>
ReadKinds(j) == {"trustList", "blindTrust"} \cup IF j = Own THEN {"device"} ELSE {}

\* The same JID: the rows stay until an answer replaces them.
DevicesRefresh(in, j) == send(in, ReadKinds(j), Reads(j)) /\ unread' = FALSE

\* Another: the rows on screen are the old one's.
DevicesRestart(j) ==
    /\ Fits(1) /\ j # jid /\ jid' = j
    /\ lastRows' = NoRows /\ rows' = NoRows /\ ownDevice' = NoDevice
    /\ DevicesRefresh(toUi, j)
    /\ UNCHANGED <<blindTrust, session, trust, blind>>

Tacky == <<session, trust, blind>>

setTrust(d, st) ==
    /\ Fits(1) /\ d \in DOMAIN rows /\ rows[d] # st
    /\ notify(<<Frame("trust", [device |-> d, state |-> st])>>)
    /\ UNCHANGED devicesVars

\* The checkbox follows the click.
setBlindTrust ==
    /\ Fits(1) /\ jid # Nil /\ blindTrust' = ~blindTrust
    /\ notify(<<Frame("setBlindTrust", blindTrust')>>)
    /\ UNCHANGED <<jid, lastRows, rows, ownDevice, unread, session, trust, blind>>

Without(rs, d) == [x \in DOMAIN rs \ {d} |-> rs[x]]

visibleRows(rs, own) == IF jid = Own /\ own # NoDevice THEN Without(rs, own) ELSE rs

applyTrustList(rs) == lastRows' = rs /\ rows' = visibleRows(rs, ownDevice)

\* As a bug would have it: the rows that came before it are left as they are
applyOwnDeviceOnly(d) == ownDevice' = d /\ UNCHANGED rows

\* The list may have come first, with our own row in it.
applyOwnDevice(d) == ownDevice' = d /\ rows' = visibleRows(lastRows, d)

Unmoved == UNCHANGED <<jid, session, trust, blind>>

TrustListAnswered ==
    /\ Arrives("trustList") /\ Took /\ Unmoved
    /\ IF Given.live /\ ~Fails THEN applyTrustList(Given.body) ELSE UNCHANGED <<lastRows, rows>>
    /\ unread' = (unread \/ (Given.live /\ Fails))
    /\ UNCHANGED <<ownDevice, blindTrust>>

BlindTrustAnswered ==
    /\ Arrives("blindTrust") /\ Took /\ Unmoved
    /\ blindTrust' = IF Given.live /\ ~Fails THEN Given.body ELSE blindTrust
    /\ unread' = (unread \/ (Given.live /\ Fails))
    /\ UNCHANGED <<lastRows, rows, ownDevice>>

DeviceAnswered ==
    /\ Arrives("device") /\ Took /\ Unmoved
    /\ IF Given.live /\ ~Fails THEN applyOwnDevice(Given.body) ELSE UNCHANGED <<rows, ownDevice>>
    /\ unread' = (unread \/ (Given.live /\ Fails))
    /\ UNCHANGED <<lastRows, blindTrust>>

OnTrustList ==
    /\ Arrives("TrustList") /\ Took /\ Unmoved
    /\ IF Given.body.jid = jid THEN applyTrustList(Given.body.rows) ELSE UNCHANGED <<lastRows, rows>>
    /\ UNCHANGED <<ownDevice, blindTrust, unread>>

OnBlindTrust ==
    /\ Arrives("BlindTrust") /\ Took /\ Unmoved
    /\ blindTrust' = Given.body
    /\ UNCHANGED <<lastRows, rows, ownDevice, unread>>

\* What was asked before the store was open came back empty.
DevicesSessionUp ==
    /\ Arrives("State") /\ Room /\ DevicesRefresh(Rest, jid) /\ Unmoved
    /\ UNCHANGED <<lastRows, rows, ownDevice, blindTrust>>

DevicesAttach ==
    /\ Comes(ReadKinds(jid), Reads(jid)) /\ unread' = FALSE /\ Unmoved
    /\ UNCHANGED <<lastRows, rows, ownDevice, blindTrust>>

DevicesDrop == Lost /\ UNCHANGED devicesVars

----------------------------------------------------------------------------
(* tacky                                                                    *)

Ours == UNCHANGED <<jid, lastRows, rows, ownDevice, blindTrust, unread>>

RowsOf(j, t) == IF session THEN [d \in OfJid(j) |-> t[d]] ELSE NoRows

TackyTellsDevices ==
    /\ \E k \in {"trustList", "blindTrust", "device"} : Takes(k)
    /\ Ours /\ UNCHANGED Tacky
    /\ \/ Says(<<Refusal>>)
       \/ Says(<<Result(CASE Asked.kind = "trustList" -> RowsOf(Asked.body, trust)
                          [] Asked.kind = "blindTrust" -> session /\ blind
                          [] OTHER -> IF session THEN This ELSE NoDevice)>>)

TrustNews(j, t) == Frame("TrustList", [jid |-> j, rows |-> RowsOf(j, t)])

TackyTrusts ==
    /\ Takes("trust") /\ Ours /\ UNCHANGED <<session, blind>>
    /\ LET d == Asked.body.device
       IN  /\ trust' = IF session THEN [trust EXCEPT ![d] = Asked.body.state] ELSE trust
           /\ Says(IF session THEN <<TrustNews(IF d = Hers THEN Peer ELSE Own, trust')>> ELSE <<>>)

TackyTrustsBlindly ==
    /\ Takes("setBlindTrust") /\ Ours /\ UNCHANGED <<session, trust>>
    /\ blind' = IF session THEN Asked.body ELSE blind
    /\ Says(IF session THEN <<Frame("BlindTrust", blind')>> ELSE <<>>)

SessionUp == ~session /\ session' = TRUE /\ Tells(<<Bare("State")>>) /\ Ours /\ UNCHANGED <<trust, blind>>
SessionDown == session /\ session' = FALSE /\ Ours /\ UNCHANGED <<wire, trust, blind>>

DevicesUi ==
    \/ TrustListAnswered \/ BlindTrustAnswered \/ DeviceAnswered
    \/ OnTrustList \/ OnBlindTrust \/ DevicesSessionUp \/ DevicesAttach

DevicesNext ==
    \/ \E j \in {Own, Peer} : DevicesRestart(j)
    \/ \E d \in Devices, st \in Trusts : setTrust(d, st)
    \/ setBlindTrust \/ DevicesUi \/ DevicesDrop
    \/ TackyTellsDevices \/ TackyTrusts \/ TackyTrustsBlindly \/ SessionUp \/ SessionDown

----------------------------------------------------------------------------

DevicesTypeOK ==
    /\ WireTypeOK /\ jid \in {Nil, Own, Peer} /\ ownDevice \in {NoDevice, This}
    /\ DOMAIN rows \subseteq DOMAIN lastRows /\ DOMAIN lastRows \subseteq Devices
    /\ blindTrust \in BOOLEAN /\ unread \in BOOLEAN
    /\ session \in BOOLEAN /\ trust \in [Devices -> Trusts] /\ blind \in BOOLEAN

\* The devices shown are of the JID looked at, this one is never among them once it
\* is known, and with nothing under way the trust shown is the trust tacky acts on,
\* unless a read was refused.
TrustTrue ==
    /\ jid # Nil => DOMAIN rows \subseteq OfJid(jid)
    /\ ownDevice = This /\ jid = Own => This \notin DOMAIN rows
    /\ QuietWire /\ session /\ jid # Nil /\ ~unread =>
        /\ rows = [d \in OfJid(jid) \ {This} |-> trust[d]] /\ blindTrust = blind
=============================================================================
