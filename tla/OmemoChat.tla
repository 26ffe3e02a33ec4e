------------------------------ MODULE OmemoChat -----------------------------
(***************************************************************************)
(* The padlock of one chat: what tacky says of the switch, moved at once by *)
(* the user and put right by what tacky says next.                          *)
(***************************************************************************)
EXTENDS Wire

VARIABLES
    groupchat,
    known, enabled,
    offered,        \* what is known of a room: that it offers a switch
    prepared,       \* the chat's keys have been asked for
    \* tacky
    session,        \* the account's store is open
    on, fit

omemoVars == <<groupchat, known, enabled, offered, prepared, session, on, fit>>

available == ~groupchat \/ (known /\ offered)

OmemoInit ==
    /\ WireInit /\ groupchat \in BOOLEAN
    /\ known = FALSE /\ enabled = TRUE /\ offered = FALSE /\ prepared = FALSE
    /\ session = FALSE /\ on \in BOOLEAN /\ fit \in BOOLEAN

Read == Call("padlock", groupchat)

\* Back to knowing nothing, and no token counts.
Forget == known' = FALSE /\ offered' = FALSE /\ prepared' = FALSE

refresh(in) ==
    /\ Room /\ Forget /\ send(in, {"padlock", "switch"}, <<Read>>)
    /\ UNCHANGED <<groupchat, enabled, session, on, fit>>

\* The padlock follows the click.  In a room tacky may refuse.
setEnabled ==
    /\ Fits(1) /\ available /\ enabled' = ~enabled /\ known' = TRUE
    /\ IF groupchat THEN send(toUi, {"switch"}, <<Call("switch", enabled')>>)
                    ELSE notify(<<Frame("set", enabled')>>)
    /\ UNCHANGED <<groupchat, offered, prepared, session, on, fit>>

\* What is said of the switch, and of the room where it is one; the keys are asked
\* for once it is on.
Learn(st, K) ==
    /\ Room /\ known' = TRUE /\ enabled' = st.enabled
    /\ offered' = IF groupchat THEN st.offered ELSE offered
    /\ LET asks == enabled' /\ ~prepared /\ (~groupchat \/ offered')
       IN  /\ prepared' = (prepared \/ asks)
           /\ send(Rest, K, IF asks THEN <<Bare("prepare")>> ELSE <<>>)
    /\ UNCHANGED <<groupchat, session, on, fit>>

Ignore == Took /\ UNCHANGED omemoVars

OmemoRead ==
    /\ Arrives("padlock") /\ ~Fails
    /\ IF Given.live THEN Learn(Given.body, {}) ELSE Ignore

OmemoUnread == Arrives("padlock") /\ Fails /\ Ignore

\* As a bug would have it: a refusal is not put back
SwitchAnsweredNoted == Arrives("switch") /\ Ignore

\* A refused switch is put back by reading the room again.
SwitchAnswered ==
    /\ Arrives("switch")
    /\ IF Given.live /\ Fails THEN refresh(Rest) ELSE Ignore

\* It outranks a read under way.
OnEnabled == Arrives("Enabled") /\ Learn([enabled |-> Given.body, offered |-> offered], {"padlock"})

OnRoomStatus ==
    /\ Arrives("RoomStatus")
    /\ IF groupchat THEN Learn(Given.body, {"padlock"}) ELSE Ignore

\* What was read before the store was open was read of nothing.
OmemoSessionUp == Arrives("State") /\ refresh(Rest)

OmemoAttach ==
    /\ Comes({"padlock", "switch"}, <<Read>>) /\ Forget
    /\ UNCHANGED <<groupchat, enabled, session, on, fit>>

OmemoDrop == Lost /\ UNCHANGED omemoVars

----------------------------------------------------------------------------
(* tacky                                                                    *)

Ours == UNCHANGED <<groupchat, known, enabled, offered, prepared>>

Status ==
    IF session THEN [enabled |-> on, offered |-> fit] ELSE [enabled |-> TRUE, offered |-> FALSE]

TackyReadsSwitch ==
    /\ Takes("padlock") /\ UNCHANGED <<session, on, fit>> /\ Ours
    /\ Says(<<Result(Status)>>) \/ Says(<<Refusal>>)

\* It says what the switch has become: of a room, with all there is to say of it.
News == IF groupchat THEN Frame("RoomStatus", Status') ELSE Frame("Enabled", on')

\* A request may be refused whatever the room is: it need not be told of first.
TackySwitches ==
    /\ Takes("set") \/ Takes("switch")
    /\ UNCHANGED <<session, fit>> /\ Ours
    /\ \/ /\ session /\ (groupchat => fit) /\ on' = Asked.body
          /\ Says(<<News>> \o IF IsCall(Asked) THEN <<Result(Nil)>> ELSE <<>>)
       \/ IsCall(Asked) /\ UNCHANGED on /\ Says(<<Refusal>>)
       \/ ~IsCall(Asked) /\ ~session /\ UNCHANGED on /\ Says(<<>>)

TackyPrepares == Takes("prepare") /\ Says(<<>>) /\ UNCHANGED <<session, on, fit>> /\ Ours

SessionUp == ~session /\ session' = TRUE /\ Tells(<<Bare("State")>>) /\ UNCHANGED <<on, fit>> /\ Ours
SessionDown == session /\ session' = FALSE /\ UNCHANGED <<wire, on, fit>> /\ Ours

\* The switch is moved elsewhere, or the room changes.
RoomMoves ==
    /\ session /\ fit' \in BOOLEAN /\ on' \in BOOLEAN /\ UNCHANGED session /\ Ours
    /\ Tells(<<News>>)

OmemoTacky == TackyReadsSwitch \/ TackySwitches \/ TackyPrepares
OmemoUi ==
    \/ OmemoRead \/ OmemoUnread \/ SwitchAnswered \/ OnEnabled \/ OnRoomStatus
    \/ OmemoSessionUp \/ OmemoAttach
OmemoUser == setEnabled

OmemoNext ==
    \/ OmemoUser \/ OmemoUi \/ OmemoTacky \/ OmemoDrop
    \/ SessionUp \/ SessionDown \/ RoomMoves

----------------------------------------------------------------------------

OmemoTypeOK ==
    /\ WireTypeOK /\ groupchat \in BOOLEAN /\ known \in BOOLEAN /\ enabled \in BOOLEAN
    /\ offered \in BOOLEAN /\ prepared \in BOOLEAN
    /\ session \in BOOLEAN /\ on \in BOOLEAN /\ fit \in BOOLEAN

\* The padlock tells how the next message goes out: with nothing under way it is
\* what tacky has, or is not shown.
PadlockTrue == QuietWire /\ session /\ known => enabled = on /\ (groupchat => offered = fit)
=============================================================================
