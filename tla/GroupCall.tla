----------------------------- MODULE GroupCall ------------------------------
(***************************************************************************)
(* One chat's group call as a UI shows it (GroupCall, fed by                *)
(* GroupCallsModel): the phase is moved here at once by the user and then   *)
(* by the states tacky sends, which may be older than what the user did.    *)
(***************************************************************************)
EXTENDS Naturals, Sequences, SequencesExt

CONSTANTS
    Rooms,          \* the rooms the call may be held in, the chat's own included
    Own,            \* m_jid, as a room
    NoRoom,         \* m_callJid while no call is known
    Asks,           \* the platform puts up a permission prompt (Android)
    Room,           \* frames under way in a direction (bound)
    Scenes          \* what a behaviour may hold (bounds): whether others call in the
                    \* chat's own room, and how often the user joins, the link drops
                    \* and the account loses its server

ASSUME GroupCallAssumption ==
    /\ Own \in Rooms /\ NoRoom \notin Rooms
    /\ Asks \in BOOLEAN /\ Room \in Nat \ {0}
    /\ Scenes \subseteq [others : BOOLEAN, joins : Nat, drops : Nat, offs : Nat]

VARIABLES
    \* GroupCall
    phase, callJid, active, leaving, legs, preview, joinToken,
    prompt,         \* the permission prompt is up: what will be asked for
    \* GroupCallsModel, TackyBackend
    getting,        \* a `get` is out that counts
    tokens,         \* joins asked for so far
    \* tacky
    mine,           \* the room of the call we are in
    stage,          \* how far in: out, joining or live
    busy,           \* others are in the chat's own call
    online,
    \* the link, and what is spent of the bounds
    up, toTacky, toUi, drops, offs,
    scene,          \* which of Scenes this is
    blind           \* a call was left before any state of it had come (history)

call == <<phase, callJid, active, leaving, legs, preview>>
ui == <<call, joinToken, prompt, getting, tokens>>
tacky == <<mine, stage, busy, online>>
rest == <<drops, offs, scene, blind>>
link == <<up, toTacky, toUi, rest>>
vars == <<ui, tacky, link>>

inCall == phase \in {"joining", "live"}

\* The account is connected and its first `get` answered: nothing to show.
Init ==
    /\ phase = "idle" /\ callJid = NoRoom /\ active = FALSE /\ leaving = FALSE
    /\ legs = "none" /\ preview = FALSE /\ joinToken = 0
    /\ prompt = <<>> /\ getting = FALSE /\ tokens = 0 /\ blind = FALSE /\ scene \in Scenes
    /\ mine = NoRoom /\ stage = "out" /\ busy = FALSE /\ online = TRUE
    /\ up = TRUE /\ toTacky = <<>> /\ toUi = <<>> /\ drops = 0 /\ offs = 0

\* With no prompt to put up, what it guards runs on at once.
Ready == Asks \/ prompt = <<>>

Fits == Len(toTacky) < Room /\ Len(toUi) < Room
Send(f) == toTacky' = IF up THEN Append(toTacky, f) ELSE toTacky
Emit(fs) == toUi' = IF up THEN toUi \o fs ELSE toUi

----------------------------------------------------------------------------
(* The call.  Each of these is a handler's whole effect on `call`.          *)

\* GroupCallParticipants: the rows of the others.
assign == legs' = "up"
clear == legs' = "none"
endAll == legs' = "over"

\* As a bug would have it: the preview left on
tearDownPreview == phase' = "ended" /\ endAll /\ UNCHANGED preview

tearDown == phase' = "ended" /\ endAll /\ preview' = FALSE

\* As a bug would have it: leaving not remembered
StaleForgiving(room) == FALSE

\* Sent before tacky heard of our leave.
Stale(room) == leaving /\ room = callJid

ApplyIdle(st) ==
    /\ active' = IF st.room \in {Own, callJid} THEN st.busy ELSE active
    /\ UNCHANGED <<phase, callJid, leaving, legs, preview>>

ApplyEnded(st) ==
    IF callJid # NoRoom /\ st.room # callJid THEN UNCHANGED call
    ELSE /\ active' = FALSE /\ leaving' = FALSE
         /\ IF inCall THEN tearDown ELSE UNCHANGED <<phase, legs, preview>>
         /\ UNCHANGED callJid

ApplyIn(st) ==
    IF Stale(st.room) THEN UNCHANGED call
    ELSE /\ callJid' = st.room /\ preview' = TRUE /\ assign
         /\ active' = st.busy /\ phase' = st.phase
         /\ UNCHANGED leaving

applyState(st) ==
    CASE st.phase = "idle" -> ApplyIdle(st) /\ UNCHANGED joinToken
      [] st.phase = "ended" -> ApplyEnded(st) /\ UNCHANGED joinToken
      [] OTHER -> ApplyIn(st) /\ joinToken' = IF Stale(st.room) THEN joinToken ELSE 0

forget ==
    /\ active' = FALSE
    /\ IF inCall THEN tearDown /\ leaving' = FALSE
       ELSE UNCHANGED <<phase, legs, preview, leaving>>
    /\ UNCHANGED callJid

----------------------------------------------------------------------------
(* The user.                                                                *)

\* The phase moves first; what is asked waits for the prompt.
beginJoin(ask) ==
    /\ prompt = <<>> /\ ~inCall /\ tokens < scene.joins /\ (Asks \/ Fits)
    /\ prompt' = <<ask>> /\ phase' = "joining" /\ leaving' = FALSE
    /\ clear /\ preview' = FALSE

join ==
    /\ beginJoin(IF active THEN [kind |-> "join", room |-> Own] ELSE [kind |-> "start", room |-> NoRoom])
    /\ UNCHANGED <<callJid, active, joinToken, getting, tokens, tacky, link>>

answerInvite(room) ==
    /\ beginJoin([kind |-> "join", room |-> room])
    /\ callJid' = room
    /\ UNCHANGED <<active, joinToken, getting, tokens, tacky, link>>

Granted ==
    /\ prompt # <<>> /\ Fits
    /\ prompt' = <<>>
    /\ IF phase = "joining"
       THEN /\ tokens' = tokens + 1 /\ joinToken' = tokens + 1
            /\ Send([kind |-> Head(prompt).kind, room |-> Head(prompt).room, token |-> tokens + 1])
            \* not sent, it fails at once: the error is queued
            /\ toUi' = IF up THEN toUi ELSE Append(toUi, [kind |-> "error", token |-> tokens + 1])
       ELSE UNCHANGED <<tokens, joinToken, toTacky, toUi>>
    /\ UNCHANGED <<call, getting, tacky, up, rest>>

Denied ==
    /\ Asks /\ prompt # <<>> /\ prompt' = <<>>
    /\ IF phase = "joining" THEN tearDown /\ UNCHANGED <<callJid, active, leaving>>
       ELSE UNCHANGED call
    /\ UNCHANGED <<joinToken, getting, tokens, tacky, link>>

leave ==
    /\ Ready /\ inCall /\ Fits
    /\ Send([kind |-> "leave", room |-> IF callJid = NoRoom THEN Own ELSE callJid, token |-> 0])
    /\ leaving' = TRUE /\ tearDown /\ blind' = (blind \/ legs = "none")
    /\ UNCHANGED <<callJid, active, joinToken, prompt, getting, tokens, tacky, up, toUi, drops, offs, scene>>

dismiss ==
    /\ Ready /\ phase = "ended" /\ phase' = "idle" /\ clear
    /\ UNCHANGED <<callJid, active, leaving, preview, joinToken, prompt, getting, tokens, tacky, link>>

----------------------------------------------------------------------------
(* Frames that reach the UI.                                                *)

Receive(kind) ==
    /\ Ready /\ toUi # <<>> /\ Head(toUi).kind = kind /\ toUi' = Tail(toUi)
    /\ UNCHANGED <<prompt, tokens, tacky, up, rest>>

OnState == Receive("state") /\ applyState(Head(toUi)) /\ UNCHANGED <<getting, toTacky>>

startFailed ==
    /\ Receive("failed")
    /\ IF phase = "joining" THEN tearDown /\ UNCHANGED <<callJid, active, leaving>>
       ELSE UNCHANGED call
    /\ UNCHANGED <<joinToken, getting, toTacky>>

\* As a bug would have it: a refusal only noted
handleErrorNoted ==
    /\ Receive("error")
    /\ joinToken' = IF Head(toUi).token = joinToken THEN 0 ELSE joinToken
    /\ UNCHANGED <<call, getting, toTacky>>

handleError ==
    /\ Receive("error")
    /\ IF Head(toUi).token = joinToken
       THEN /\ joinToken' = 0
            /\ IF phase = "joining" THEN tearDown /\ UNCHANGED <<callJid, active, leaving>>
               ELSE UNCHANGED call
       ELSE UNCHANGED <<call, joinToken>>
    /\ UNCHANGED <<getting, toTacky>>

handleResult ==
    /\ Receive("result")
    /\ joinToken' = IF Head(toUi).token = joinToken THEN 0 ELSE joinToken
    /\ UNCHANGED <<call, getting, toTacky>>

Gets(q) == {i \in 1..Len(q) : q[i].kind = "get"}

refreshFor ==
    /\ Receive("connected")
    /\ toTacky' = Append(toTacky, [kind |-> "get", room |-> NoRoom, token |-> 0])
    /\ getting' = TRUE
    /\ UNCHANGED <<call, joinToken>>

\* The answer to the newest `get`: our call or the banner's if it names one,
\* and else the call is forgotten.
HandleGet ==
    /\ Receive("get")
    /\ IF getting /\ Gets(toUi) = {1} /\ Gets(toTacky) = {}
       THEN /\ getting' = FALSE
            /\ IF Head(toUi).states = <<>> THEN forget /\ UNCHANGED joinToken
               ELSE applyState(Head(Head(toUi).states))
       ELSE UNCHANGED <<call, joinToken, getting>>
    /\ UNCHANGED toTacky

----------------------------------------------------------------------------
(* tacky, from how this code uses it.                                       *)

State(room, ph, b) == [kind |-> "state", room |-> room, phase |-> ph, busy |-> b]
Banner(b) == State(Own, "idle", b)
InCall(room, ph) == State(room, ph, TRUE)

\* Out of the call; the banner again if others carry on in the chat's own room.
Exit ==
    /\ mine' = NoRoom /\ stage' = "out" /\ UNCHANGED <<busy, online>>
    /\ Emit(<<State(mine, "ended", FALSE)>> \o IF busy THEN <<Banner(TRUE)>> ELSE <<>>)

\* Room is left for an answer.
Spare == Ready /\ Len(toUi) + 1 < Room /\ UNCHANGED <<ui, up, toTacky, rest>>

GoLive ==
    /\ Spare /\ stage = "joining" /\ stage' = "live" /\ Emit(<<InCall(mine, "live")>>)
    /\ UNCHANGED <<mine, busy, online>>

\* Removed from the room, or the room is gone.
Removed == Spare /\ stage # "out" /\ Exit

OthersMove ==
    /\ Spare /\ scene.others /\ busy' = ~busy /\ UNCHANGED <<mine, stage, online>>
    /\ Emit(IF stage = "out" THEN <<Banner(~busy)>> ELSE <<>>)

Online ==
    /\ Spare /\ ~online /\ online' = TRUE /\ Emit(<<[kind |-> "connected"]>>)
    /\ UNCHANGED <<mine, stage, busy>>

Offline ==
    /\ Ready /\ online /\ offs < scene.offs /\ online' = FALSE /\ offs' = offs + 1
    /\ UNCHANGED <<ui, mine, stage, busy, up, toTacky, toUi, drops, scene, blind>>

Reply(kind, f) == Emit(<<[kind |-> kind, token |-> f.token]>>)

\* `start` makes a room for the call, `join` is for one that is there.
Takes(f) ==
    \/ /\ f.kind \in {"start", "join"} /\ stage = "out" /\ online
       /\ \E room \in IF f.kind = "join" THEN {f.room} ELSE Rooms \ {Own} :
            /\ mine' = room /\ stage' = "joining" /\ UNCHANGED <<busy, online>>
            /\ Emit(<<InCall(room, "joining"), [kind |-> "result", token |-> f.token]>>)
    \/ f.kind = "start" /\ stage = "out" /\ UNCHANGED tacky
       /\ Emit(<<[kind |-> "result", token |-> f.token], [kind |-> "failed"]>>)
    \/ f.kind \in {"start", "join"} /\ Reply("error", f) /\ UNCHANGED tacky
    \/ f.kind = "leave" /\ stage # "out" /\ f.room = mine /\ Exit
    \/ f.kind = "leave" /\ ~(stage # "out" /\ f.room = mine) /\ UNCHANGED <<tacky, toUi>>
    \/ /\ f.kind = "get" /\ UNCHANGED tacky
       /\ Emit(<<[kind |-> "get",
                  states |-> IF stage # "out" THEN <<InCall(mine, stage)>>
                             ELSE IF busy THEN <<Banner(TRUE)>> ELSE <<>>]>>)
    \/ /\ f.kind = "pull" /\ UNCHANGED tacky
       /\ Emit(IF online THEN <<[kind |-> "connected"]>> ELSE <<>>)

TackyTakes ==
    /\ Ready /\ toTacky # <<>> /\ Len(toUi) < Room
    /\ toTacky' = Tail(toTacky) /\ Takes(Head(toTacky))
    /\ UNCHANGED <<ui, up, rest>>

\* What was under way is lost, and the requests that were out fail.
Drop ==
    /\ Ready /\ up /\ drops < scene.drops /\ up' = FALSE /\ drops' = drops + 1
    /\ toTacky' = <<>> /\ getting' = FALSE
    /\ toUi' = IF joinToken = 0 THEN <<>> ELSE <<[kind |-> "error", token |-> joinToken]>>
    /\ UNCHANGED <<call, joinToken, prompt, tokens, tacky, offs, scene, blind>>

Attach ==
    /\ Ready /\ ~up /\ up' = TRUE
    /\ toTacky' = <<[kind |-> "pull", room |-> NoRoom, token |-> 0]>>
    /\ UNCHANGED <<ui, tacky, toUi, rest>>

\* The UI's loop, with the frame that is first.
Handles ==
    OnState \/ startFailed \/ handleError \/ handleResult \/ refreshFor \/ HandleGet

Next ==
    \/ join \/ (\E room \in Rooms : answerInvite(room)) \/ leave \/ dismiss
    \/ Granted \/ Denied
    \/ Handles
    \/ GoLive \/ Removed \/ OthersMove \/ Online \/ Offline \/ TackyTakes \/ Drop \/ Attach

Spec == Init /\ [][Next]_vars

Fair ==
    /\ WF_vars(Handles) /\ WF_vars(TackyTakes) /\ WF_vars(Attach) /\ WF_vars(Granted \/ Denied)
    /\ WF_vars(GoLive) /\ WF_vars(Online)

FairSpec == Spec /\ Fair

----------------------------------------------------------------------------
(* Properties.                                                              *)

TypeOK ==
    /\ phase \in {"idle", "joining", "live", "ended"} /\ callJid \in Rooms \cup {NoRoom}
    /\ active \in BOOLEAN /\ leaving \in BOOLEAN /\ preview \in BOOLEAN
    /\ legs \in {"none", "up", "over"} /\ joinToken \in 0..tokens /\ tokens \in 0..scene.joins
    /\ Len(prompt) <= 1 /\ getting \in BOOLEAN
    /\ mine \in Rooms \cup {NoRoom} /\ stage \in {"out", "joining", "live"}
    /\ (stage = "out") = (mine = NoRoom)
    /\ busy \in BOOLEAN /\ online \in BOOLEAN /\ up \in BOOLEAN /\ blind \in BOOLEAN

\* Out of the call nothing of it runs on: no camera preview, and the rows of the
\* others are gone or greyed (tearDown, endAll).
OutIsQuiet == ~inCall => ~preview /\ legs # "up"

Quiet == up /\ online /\ toTacky = <<>> /\ toUi = <<>> /\ prompt = <<>>

\* With nothing under way the window shows the call we are in, and none if we
\* are in none ("`phase` follows the local user").  A leave of ours that went with
\* the link, or before the call's room was known, is left out.
ShowsOurCall ==
    Quiet /\ ~leaving /\ ~blind =>
        IF stage = "out" THEN ~inCall ELSE phase = stage /\ callJid = mine

\* Every record keeps to its type, and the window to the call there is.
CallTrue == TypeOK /\ ShowsOurCall

\* "states sent before the backend heard of it must not put us back in": a call
\* left once a state of it has come is not entered again by an older state.
LeftStaysLeft ==
    [][leaving /\ ~inCall /\ leaving' /\ ~blind' => ~inCall']_vars

\* A join ends up somewhere: live, refused or over.  Once a call was left before any
\* state of it had come (`blind`), joins are left out.
JoinSettles == phase = "joining" ~> phase # "joining" \/ blind
=============================================================================
