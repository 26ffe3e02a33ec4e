------------------------------ MODULE MucRoom ------------------------------
(***************************************************************************)
(* One room as its page shows it: who is in it, read whole each time it     *)
(* changes while the page is up, and whether we are.                        *)
(***************************************************************************)
EXTENDS Wire, SequencesExt

CONSTANTS
    Rooms,
    Keys,       \* people
    Full        \* how many of them a room may hold (bound)

VARIABLES
    jid,        \* m_roomJid, of no room at first
    active, stale,
    people, filter, rows,
    joined,
    unread,     \* what was last read and refused (history)
    \* tacky
    in,         \* whether we are in each room
    present     \* who is in each room, in the order they are shown

roomVars == <<jid, active, stale, people, filter, rows, joined, unread, in, present>>

Person(r, k) == [of |-> r, key |-> k]
Lists == UNION {{s \in [1..n -> Keys] : IsInjective(s)} : n \in 0..Full}

RoomInit ==
    /\ WireInit /\ jid = Nil /\ active = FALSE /\ stale = FALSE
    /\ people = <<>> /\ filter = Keys /\ rows = <<>> /\ joined = FALSE /\ unread = {}
    /\ in \in [Rooms -> BOOLEAN] /\ present \in [Rooms -> {<<>>}]

keysOf(s) == {s[i].key : i \in DOMAIN s}
matches(ps, f) == SelectSeq(ps, LAMBDA p : p.key \in f)

\* One place of the walk: the person stays, is moved up from below, or comes in.
Walk(rs, next, j) ==
    LET k == SelectInSubSeq(rs, j, Len(rs), LAMBDA p : p.key = next[j].key)
    IN  IF k = 0 THEN InsertAt(rs, j, next[j])
        ELSE InsertAt(RemoveAt(rs, k), j, next[j])

\* As a bug would have it: those who went are left where they are
rebuiltKept(rs, next) == FoldLeftDomain(LAMBDA acc, j : Walk(acc, next, j), rs, next)

\* The rows walked onto the new list one place at a time, so the view keeps its place.
rebuilt(rs, next) ==
    FoldLeftDomain(LAMBDA acc, j : Walk(acc, next, j),
                   SelectSeq(rs, LAMBDA p : p.key \in keysOf(next)), next)

applyPeople(ps) == people' = ps /\ rows' = rebuilt(rows, matches(ps, filter))
clearRoom == applyPeople(<<>>) /\ joined' = FALSE

readPeople(r) == Call("people", r)
Reads(r, on) == IF r = Nil THEN <<>> ELSE <<Call("isJoined", r)>> \o IF on THEN <<readPeople(r)>> ELSE <<>>
ReadKinds(on) == {"isJoined"} \cup IF on THEN {"people"} ELSE {}

\* The room is asked all of it again; the people only while the page is up.
Refreshed(r) == clearRoom /\ stale' = (r = Nil \/ ~active) /\ unread' = {}

Theirs == UNCHANGED <<in, present>>

setJid(r) ==
    /\ Fits(1) /\ r # jid /\ jid' = r /\ Refreshed(r)
    /\ send(toUi, ReadKinds(active), Reads(r, active))
    /\ UNCHANGED <<active, filter>> /\ Theirs

setFilter(f) ==
    /\ f # filter /\ filter' = f /\ rows' = rebuilt(rows, matches(people, f))
    /\ UNCHANGED <<wire, jid, active, stale, people, joined, unread>> /\ Theirs

setActive ==
    /\ Fits(1) /\ active' = ~active
    /\ IF ~active /\ stale /\ jid # Nil
       THEN send(toUi, {"people"}, <<readPeople(jid)>>) /\ stale' = FALSE /\ unread' = unread \ {"people"}
       ELSE UNCHANGED <<wire, stale, unread>>
    /\ UNCHANGED <<jid, people, filter, rows, joined>> /\ Theirs

PeopleChanged ==
    /\ Arrives("PeopleChanged") /\ Room
    /\ IF Given.body # jid THEN Took /\ UNCHANGED <<stale, unread>>
       ELSE IF active
       THEN send(Rest, {"people"}, <<readPeople(jid)>>) /\ stale' = FALSE /\ unread' = unread \ {"people"}
       ELSE Took /\ stale' = TRUE /\ UNCHANGED unread
    /\ UNCHANGED <<jid, active, people, filter, rows, joined>> /\ Theirs

\* tacky records the join before it says so.
Joined ==
    /\ Arrives("Joined") /\ Room
    /\ IF Given.body = jid
       THEN Refreshed(jid) /\ send(Rest, ReadKinds(active), Reads(jid, active))
       ELSE Took /\ UNCHANGED <<people, rows, joined, stale, unread>>
    /\ UNCHANGED <<jid, active, filter>> /\ Theirs

Left ==
    /\ Arrives("Left") /\ Took
    /\ IF Given.body = jid THEN clearRoom ELSE UNCHANGED <<people, rows, joined>>
    /\ UNCHANGED <<jid, active, stale, filter, unread>> /\ Theirs

PeopleAnswered ==
    /\ Arrives("people") /\ Took
    /\ IF Given.live /\ ~Fails THEN applyPeople(Given.body) ELSE UNCHANGED <<people, rows>>
    /\ unread' = IF Given.live /\ Fails THEN unread \cup {Given.kind} ELSE unread
    /\ UNCHANGED <<jid, active, stale, filter, joined>> /\ Theirs

JoinedAnswered ==
    /\ Arrives("isJoined") /\ Took
    /\ joined' = IF Given.live /\ ~Fails THEN Given.body ELSE joined
    /\ unread' = IF Given.live /\ Fails THEN unread \cup {Given.kind} ELSE unread
    /\ UNCHANGED <<jid, active, stale, people, filter, rows>> /\ Theirs

RoomAttach ==
    /\ Comes(ReadKinds(active), Reads(jid, active)) /\ Refreshed(jid)
    /\ UNCHANGED <<jid, active, filter>> /\ Theirs

RoomDrop == Lost /\ UNCHANGED roomVars

----------------------------------------------------------------------------
(* tacky                                                                    *)

Ours == UNCHANGED <<jid, active, stale, people, filter, rows, joined, unread>>

PeopleOf(r) == [i \in DOMAIN present[r] |-> Person(r, present[r][i])]

TackyTellsPeople ==
    /\ Takes("people") /\ Ours /\ Theirs
    /\ Says(<<Result(PeopleOf(Asked.body))>>) \/ Says(<<Refusal>>)

TackyTellsJoined ==
    /\ Takes("isJoined") /\ Ours /\ Theirs
    /\ Says(<<Result(in[Asked.body])>>) \/ Says(<<Refusal>>)

TackyPeople(r) ==
    /\ in[r] /\ \E s \in Lists : s # present[r] /\ present' = [present EXCEPT ![r] = s]
    /\ Tells(<<Frame("PeopleChanged", r)>>) /\ Ours /\ UNCHANGED in

TackyJoins(r) ==
    /\ ~in[r] /\ in' = [in EXCEPT ![r] = TRUE] /\ Tells(<<Frame("Joined", r)>>)
    /\ Ours /\ UNCHANGED present

\* Left, or the room destroyed: no one is left to be told of.
TackyLeaves(r) ==
    /\ in[r] /\ in' = [in EXCEPT ![r] = FALSE] /\ present' = [present EXCEPT ![r] = <<>>]
    /\ Tells(<<Frame("Left", r)>>) /\ Ours

RoomUi ==
    \/ PeopleChanged \/ Joined \/ Left \/ PeopleAnswered \/ JoinedAnswered \/ RoomAttach

RoomNext ==
    \/ \E r \in Rooms : setJid(r) \/ TackyPeople(r) \/ TackyJoins(r) \/ TackyLeaves(r)
    \/ (\E f \in SUBSET Keys : setFilter(f))
    \/ setActive \/ RoomUi \/ RoomDrop \/ TackyTellsPeople \/ TackyTellsJoined

----------------------------------------------------------------------------

RoomTypeOK ==
    /\ WireTypeOK /\ jid \in Rooms \cup {Nil} /\ active \in BOOLEAN /\ stale \in BOOLEAN
    /\ keysOf(people) \subseteq Keys /\ filter \subseteq Keys /\ joined \in BOOLEAN
    /\ unread \subseteq {"people", "isJoined"} /\ in \in [Rooms -> BOOLEAN] /\ present \in [Rooms -> Lists]

\* The walk ends at the people that match, in their order; and with nothing under
\* way a page that is up shows who is in the room, unless the read of it was refused.
RoomTrue ==
    /\ rows = matches(people, filter)
    /\ QuietWire /\ jid # Nil =>
        /\ "isJoined" \notin unread => joined = in[jid]
        /\ active /\ "people" \notin unread => people = PeopleOf(jid)

\* "Whichever of them changed, what is on screen belongs to the room we were showing
\* before": nobody is shown as of a room they are not of.
OfThisRoom == \A i \in DOMAIN people : people[i].of = jid
=============================================================================
