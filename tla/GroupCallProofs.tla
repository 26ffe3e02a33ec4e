--------------------------- MODULE GroupCallProofs --------------------------
(***************************************************************************)
(* That a call we are out of shows nothing of itself, in whatever order the  *)
(* user, the permission prompt, tacky's states and the link come.            *)
(***************************************************************************)
EXTENDS GroupCall, TLAPS

AnyRoom == Rooms \cup {NoRoom}

\* A state that has us in the call names its room.
States ==
    {s \in [kind : {"state"}, room : AnyRoom, phase : {"idle", "joining", "live", "ended"},
            busy : BOOLEAN] :
        s.phase \in {"joining", "live"} => s.room \in Rooms}
Replies == [kind : {"error", "result"}, token : Nat]
Notes == [kind : {"failed", "connected"}]
Gots == [kind : {"get"}, states : Seq(States)]
UiFrames == States \cup Replies \cup Notes \cup Gots

Asked ==
    {a \in [kind : {"start", "join"}, room : AnyRoom] : a.kind = "join" => a.room \in Rooms}
Sent ==
    {f \in [kind : {"start", "join", "leave", "get", "pull"}, room : AnyRoom, token : Nat] :
        f.kind = "join" => f.room \in Rooms}

CallOK ==
    /\ phase \in {"idle", "joining", "live", "ended"} /\ callJid \in AnyRoom
    /\ active \in BOOLEAN /\ leaving \in BOOLEAN /\ preview \in BOOLEAN
    /\ legs \in {"none", "up", "over"}
    /\ OutIsQuiet

\* A prompt is up only for a join that is still to be counted.
AskOK ==
    /\ scene \in Scenes /\ tokens \in 0..scene.joins /\ joinToken \in 0..tokens
    /\ prompt \in Seq(Asked) /\ Len(prompt) <= 1
    /\ prompt # <<>> => tokens < scene.joins
    /\ getting \in BOOLEAN /\ blind \in BOOLEAN

TackyOK ==
    /\ mine \in AnyRoom /\ stage \in {"out", "joining", "live"}
    /\ (stage = "out") = (mine = NoRoom)
    /\ busy \in BOOLEAN /\ online \in BOOLEAN

WireOK == up \in BOOLEAN /\ toUi \in Seq(UiFrames) /\ toTacky \in Seq(Sent)

Inv == CallOK /\ AskOK /\ TackyOK /\ WireOK

\* The bounds of a scene are numbers.
LEMMA SceneType == ASSUME AskOK PROVE scene.joins \in Nat /\ tokens \in Nat /\ joinToken \in Nat
BY GroupCallAssumption DEF AskOK, GroupCallAssumption

-----------------------------------------------------------------------------
(* What the handlers do to the call.                                        *)

\* tearDown leaves nothing running.
LEMMA TornDown ==
    ASSUME CallOK, tearDown, callJid' \in AnyRoom, active' \in BOOLEAN, leaving' \in BOOLEAN
    PROVE  CallOK'
BY DEF CallOK, tearDown, endAll, OutIsQuiet, inCall

\* Whatever a state says, out of the call nothing of it runs on (GroupCall::applyState).
LEMMA StateApplied ==
    ASSUME CallOK, NEW st \in States, applyState(st)
    PROVE  CallOK' /\ joinToken' \in {0, joinToken}
<1>1. /\ st.room \in AnyRoom /\ st.busy \in BOOLEAN
      /\ st.phase \in {"idle", "joining", "live", "ended"}
      /\ st.phase \in {"joining", "live"} => st.room \in Rooms
      BY DEF States
<1>2. CASE st.phase = "idle"
      BY <1>1, <1>2 DEF applyState, ApplyIdle, CallOK, OutIsQuiet, inCall
<1>3. CASE st.phase = "ended"
      <2>1. ApplyEnded(st) /\ joinToken' = joinToken
            BY <1>3 DEF applyState
      <2>2. CASE callJid # NoRoom /\ st.room # callJid
            BY <2>1, <2>2 DEF ApplyEnded, call, CallOK, OutIsQuiet, inCall
      <2>3. CASE ~(callJid # NoRoom /\ st.room # callJid) /\ inCall
            BY <2>1, <2>3, TornDown DEF ApplyEnded, CallOK
      <2>4. CASE ~(callJid # NoRoom /\ st.room # callJid) /\ ~inCall
            BY <2>1, <2>4 DEF ApplyEnded, CallOK, OutIsQuiet, inCall
      <2> QED BY <2>1, <2>2, <2>3, <2>4
<1>4. CASE st.phase \in {"joining", "live"}
      <2>1. ApplyIn(st) /\ joinToken' \in {0, joinToken}
            BY <1>4 DEF applyState
      <2>2. CASE Stale(st.room)
            BY <2>1, <2>2 DEF ApplyIn, call, CallOK, OutIsQuiet, inCall
      <2>3. CASE ~Stale(st.room)
            BY <1>1, <1>4, <2>1, <2>3 DEF ApplyIn, assign, CallOK, OutIsQuiet, inCall, AnyRoom
      <2> QED BY <2>1, <2>2, <2>3
<1> QED BY <1>1, <1>2, <1>3, <1>4

\* A `get` answered without a call of ours ends the one shown (GroupCall::forget).
LEMMA Forgotten == ASSUME CallOK, forget PROVE CallOK'
<1>1. CASE inCall
      BY <1>1, TornDown DEF forget, CallOK
<1>2. CASE ~inCall
      BY <1>2 DEF forget, CallOK, OutIsQuiet, inCall
<1> QED BY <1>1, <1>2

-----------------------------------------------------------------------------
(* The user and the prompt.                                                 *)

LEMMA JoinInv ==
    ASSUME Inv, NEW ask \in Asked, beginJoin(ask), callJid' \in AnyRoom,
           UNCHANGED <<active, joinToken, getting, tokens, tacky, link>>
    PROVE  Inv'
<1>1. CallOK'
      BY DEF Inv, beginJoin, clear, CallOK, OutIsQuiet, inCall
<1>2. AskOK'
      <2>1. prompt' = <<ask>> /\ tokens < scene.joins /\ UNCHANGED <<joinToken, getting, tokens, scene, blind>>
            BY DEF beginJoin, link, rest
      <2>2. <<ask>> \in Seq(Asked) /\ Len(<<ask>>) = 1
            OBVIOUS
      <2> QED BY <2>1, <2>2 DEF Inv, AskOK
<1>3. TackyOK' /\ WireOK'
      BY DEF Inv, TackyOK, WireOK, tacky, link
<1> QED BY <1>1, <1>2, <1>3 DEF Inv

LEMMA GrantedInv == ASSUME Inv, Granted PROVE Inv'
<1>1. CallOK' /\ TackyOK'
      BY DEF Inv, Granted, call, tacky, CallOK, TackyOK, OutIsQuiet, inCall
<1>2. /\ prompt # <<>> /\ Head(prompt) \in Asked /\ tokens < scene.joins
      /\ UNCHANGED <<getting, scene, blind, up>>
      BY DEF Inv, AskOK, Granted, rest
<1>3. scene.joins \in Nat /\ tokens \in Nat /\ joinToken \in Nat
      BY SceneType DEF Inv
<1>4. AskOK'
      <2>1. tokens' \in 0..scene.joins /\ joinToken' \in 0..tokens'
            BY <1>2, <1>3 DEF Inv, AskOK, Granted
      <2>2. prompt' = <<>>
            BY DEF Granted
      <2> QED BY <1>2, <2>1, <2>2 DEF Inv, AskOK
<1>5. WireOK'
      <2>1. CASE phase = "joining"
            <3> DEFINE f == [kind |-> Head(prompt).kind, room |-> Head(prompt).room, token |-> tokens + 1]
                       e == [kind |-> "error", token |-> tokens + 1]
            <3>1. f \in Sent
                  BY <1>2, <1>3 DEF Asked, Sent
            <3>2. e \in UiFrames
                  BY <1>3 DEF UiFrames, Replies
            <3>3. Send(f) /\ toUi' = IF up THEN toUi ELSE Append(toUi, e)
                  BY <2>1 DEF Granted
            <3> HIDE DEF f, e
            <3> QED BY <1>2, <3>1, <3>2, <3>3 DEF Inv, WireOK, Send
      <2>2. CASE phase # "joining"
            BY <1>2, <2>2 DEF Granted, Inv, WireOK
      <2> QED BY <2>1, <2>2
<1> QED BY <1>1, <1>4, <1>5 DEF Inv

LEMMA DeniedInv == ASSUME Inv, Denied PROVE Inv'
<1>1. CallOK'
      <2>1. CASE phase = "joining"
            BY <2>1, TornDown DEF Denied, Inv, CallOK
      <2>2. CASE phase # "joining"
            BY <2>2 DEF Denied, call, Inv, CallOK, OutIsQuiet, inCall
      <2> QED BY <2>1, <2>2
<1>2. AskOK' /\ TackyOK' /\ WireOK'
      BY DEF Denied, tacky, link, rest, Inv, AskOK, TackyOK, WireOK
<1> QED BY <1>1, <1>2 DEF Inv

LEMMA LeaveInv == ASSUME Inv, leave PROVE Inv'
<1>1. CallOK'
      BY TornDown DEF leave, Inv, CallOK
<1>2. AskOK' /\ TackyOK'
      BY DEF leave, tacky, Inv, AskOK, TackyOK
<1>3. WireOK'
      <2> DEFINE f == [kind |-> "leave", room |-> IF callJid = NoRoom THEN Own ELSE callJid, token |-> 0]
      <2>1. f \in Sent
            BY GroupCallAssumption DEF Inv, CallOK, Sent, AnyRoom, GroupCallAssumption
      <2>2. Send(f) /\ up' = up /\ toUi' = toUi
            BY DEF leave
      <2> HIDE DEF f
      <2> QED BY <2>1, <2>2 DEF Inv, WireOK, Send
<1> QED BY <1>1, <1>2, <1>3 DEF Inv

LEMMA DismissInv == ASSUME Inv, dismiss PROVE Inv'
<1>1. CallOK'
      BY DEF dismiss, clear, Inv, CallOK, OutIsQuiet, inCall
<1>2. AskOK' /\ TackyOK' /\ WireOK'
      BY DEF dismiss, tacky, link, rest, Inv, AskOK, TackyOK, WireOK
<1> QED BY <1>1, <1>2 DEF Inv

-----------------------------------------------------------------------------
(* Frames that reach the UI.                                                *)

\* What receiving a frame leaves alone.
LEMMA Received ==
    ASSUME Inv, NEW kind, Receive(kind)
    PROVE  /\ Head(toUi) \in UiFrames /\ Head(toUi).kind = kind
           /\ toUi' \in Seq(UiFrames) /\ up' = up /\ TackyOK'
           /\ UNCHANGED <<prompt, tokens, scene, blind>>
<1>1. /\ toUi # <<>> /\ toUi' = Tail(toUi) /\ Head(toUi).kind = kind
      /\ UNCHANGED <<prompt, tokens, tacky, up, rest>>
      BY DEF Receive
<1>2. Head(toUi) \in UiFrames /\ toUi' \in Seq(UiFrames)
      BY <1>1 DEF Inv, WireOK
<1> QED BY <1>1, <1>2 DEF Inv, TackyOK, tacky, rest

\* The token may be taken off, nothing else is counted.
LEMMA AskKept ==
    ASSUME AskOK, UNCHANGED <<prompt, tokens, scene, blind>>, getting' \in BOOLEAN,
           joinToken' \in {0, joinToken}
    PROVE  AskOK'
BY SceneType DEF AskOK

LEMMA HandlesInv == ASSUME Inv, Handles PROVE Inv'
<1>1. ASSUME OnState  PROVE Inv'
      <2>1. Receive("state") /\ applyState(Head(toUi)) /\ UNCHANGED <<getting, toTacky>>
            BY <1>1 DEF OnState
      <2>2. Head(toUi) \in States
            BY <2>1, Received DEF UiFrames, Replies, Notes, Gots
      <2>3. CallOK' /\ joinToken' \in {0, joinToken}
            BY <2>1, <2>2, StateApplied DEF Inv
      <2> QED BY <2>1, <2>3, Received, AskKept DEF Inv, AskOK, WireOK
<1>2. ASSUME startFailed  PROVE Inv'
      <2>1. Receive("failed") /\ UNCHANGED <<joinToken, getting, toTacky>>
            BY <1>2 DEF startFailed
      <2>2. CallOK'
            <3>1. CASE phase = "joining"
                  BY <1>2, <3>1, TornDown DEF startFailed, Inv, CallOK
            <3>2. CASE phase # "joining"
                  BY <1>2, <3>2 DEF startFailed, call, Inv, CallOK, OutIsQuiet, inCall
            <3> QED BY <3>1, <3>2
      <2> QED BY <2>1, <2>2, Received, AskKept DEF Inv, AskOK, WireOK
<1>3. ASSUME handleError  PROVE Inv'
      <2>1. Receive("error") /\ UNCHANGED <<getting, toTacky>> /\ joinToken' \in {0, joinToken}
            BY <1>3 DEF handleError
      <2>2. CallOK'
            <3>1. CASE Head(toUi).token = joinToken /\ phase = "joining"
                  BY <1>3, <3>1, TornDown DEF handleError, Inv, CallOK
            <3>2. CASE ~(Head(toUi).token = joinToken /\ phase = "joining")
                  BY <1>3, <3>2 DEF handleError, call, Inv, CallOK, OutIsQuiet, inCall
            <3> QED BY <3>1, <3>2
      <2> QED BY <2>1, <2>2, Received, AskKept DEF Inv, AskOK, WireOK
<1>4. ASSUME handleResult  PROVE Inv'
      <2>1. /\ Receive("result") /\ UNCHANGED <<call, getting, toTacky>>
            /\ joinToken' \in {0, joinToken}
            BY <1>4 DEF handleResult
      <2>2. CallOK'
            BY <2>1 DEF call, Inv, CallOK, OutIsQuiet, inCall
      <2> QED BY <2>1, <2>2, Received, AskKept DEF Inv, AskOK, WireOK
<1>5. ASSUME refreshFor  PROVE Inv'
      <2> DEFINE f == [kind |-> "get", room |-> NoRoom, token |-> 0]
      <2>1. /\ Receive("connected") /\ UNCHANGED <<call, joinToken>> /\ getting' = TRUE
            /\ toTacky' = Append(toTacky, f)
            BY <1>5 DEF refreshFor
      <2>2. CallOK'
            BY <2>1 DEF call, Inv, CallOK, OutIsQuiet, inCall
      <2>3. f \in Sent
            BY DEF Sent, AnyRoom
      <2> HIDE DEF f
      <2>4. toTacky' \in Seq(Sent)
            BY <2>1, <2>3 DEF Inv, WireOK
      <2> QED BY <2>1, <2>2, <2>4, Received, AskKept DEF Inv, WireOK
<1>6. ASSUME HandleGet  PROVE Inv'
      <2>1. Receive("get") /\ toTacky' = toTacky /\ getting' \in BOOLEAN
            BY <1>6 DEF HandleGet, Inv, AskOK
      <2>2. Head(toUi).states \in Seq(States)
            <3>1. Head(toUi) \in UiFrames /\ Head(toUi).kind = "get"
                  BY <2>1, Received
            <3>2. \A f \in States \cup Replies \cup Notes : f.kind # "get"
                  BY DEF States, Replies, Notes
            <3>3. Head(toUi) \in Gots
                  BY <3>1, <3>2 DEF UiFrames
            <3> QED BY <3>3 DEF Gots
      <2>3. CallOK' /\ joinToken' \in {0, joinToken}
            <3>1. CASE getting /\ Gets(toUi) = {1} /\ Gets(toTacky) = {} /\ Head(toUi).states = <<>>
                  BY <1>6, <3>1, Forgotten DEF HandleGet, Inv
            <3>2. CASE getting /\ Gets(toUi) = {1} /\ Gets(toTacky) = {} /\ Head(toUi).states # <<>>
                  <4>1. applyState(Head(Head(toUi).states)) /\ Head(Head(toUi).states) \in States
                        BY <1>6, <2>2, <3>2 DEF HandleGet
                  <4> QED BY <4>1, StateApplied DEF Inv
            <3>3. CASE ~(getting /\ Gets(toUi) = {1} /\ Gets(toTacky) = {})
                  BY <1>6, <3>3 DEF HandleGet, call, Inv, CallOK, OutIsQuiet, inCall
            <3> QED BY <3>1, <3>2, <3>3
      <2> QED BY <2>1, <2>3, Received, AskKept DEF Inv, WireOK
<1> QED BY <1>1, <1>2, <1>3, <1>4, <1>5, <1>6 DEF Handles

-----------------------------------------------------------------------------
(* tacky and the link.                                                      *)

\* The types of what tacky says.
LEMMA SaysTypes ==
    /\ \A room \in Rooms, ph \in {"joining", "live"} : InCall(room, ph) \in States
    /\ \A b \in BOOLEAN : Banner(b) \in States
    /\ \A room \in AnyRoom, b \in BOOLEAN : State(room, "ended", b) \in States
    /\ States \subseteq UiFrames /\ Replies \subseteq UiFrames
    /\ Notes \subseteq UiFrames /\ Gots \subseteq UiFrames
BY GroupCallAssumption DEF InCall, Banner, State, States, AnyRoom, UiFrames, GroupCallAssumption

LEMMA OneFrame ==
    ASSUME NEW S, NEW f \in S
    PROVE  <<f>> \in Seq(S) /\ <<>> \in Seq(S)
OBVIOUS

LEMMA EmitType ==
    ASSUME NEW fs \in Seq(UiFrames), Emit(fs), WireOK
    PROVE  toUi' \in Seq(UiFrames)
BY DEF Emit, WireOK

\* tacky is in a room exactly while it is in a call.
LEMMA InRoom == ASSUME TackyOK, stage # "out" PROVE mine \in Rooms
BY DEF TackyOK, AnyRoom

LEMMA ExitInv ==
    ASSUME Inv, Exit
    PROVE  TackyOK' /\ toUi' \in Seq(UiFrames)
<1>1. TackyOK'
      BY DEF Exit, Inv, TackyOK, AnyRoom
<1> DEFINE e == State(mine, "ended", FALSE)
           b == Banner(TRUE)
           more == IF busy THEN <<b>> ELSE <<>>
<1>2. e \in UiFrames /\ b \in UiFrames
      BY SaysTypes DEF Inv, TackyOK
<1>3. Emit(<<e>> \o more)
      BY DEF Exit
<1> HIDE DEF e, b
<1>4. <<e>> \in Seq(UiFrames) /\ more \in Seq(UiFrames)
      BY <1>2, OneFrame
<1> HIDE DEF more
<1>5. <<e>> \o more \in Seq(UiFrames)
      BY <1>4
<1> QED BY <1>1, <1>3, <1>5, EmitType DEF Inv

\* With the UI's side alone, its part of the invariant holds on.
LEMMA UiKept ==
    ASSUME Inv, UNCHANGED <<ui, scene, blind>>
    PROVE  CallOK' /\ AskOK'
BY DEF Inv, ui, call, CallOK, AskOK, OutIsQuiet, inCall

LEMMA OwnAccord ==
    ASSUME Inv, GoLive \/ Removed \/ OthersMove \/ Online
    PROVE  Inv'
<1>1. CallOK' /\ AskOK' /\ up' = up /\ toTacky' = toTacky
      BY UiKept DEF GoLive, Removed, OthersMove, Online, Spare, rest
<1>2. ASSUME GoLive  PROVE TackyOK' /\ toUi' \in Seq(UiFrames)
      <2>1. mine \in Rooms
            BY <1>2, InRoom DEF GoLive, Inv
      <2>2. InCall(mine, "live") \in UiFrames
            BY <2>1, SaysTypes
      <2>3. <<InCall(mine, "live")>> \in Seq(UiFrames)
            BY <2>2
      <2> QED BY <1>2, <2>3, EmitType DEF GoLive, Inv, TackyOK
<1>3. ASSUME Removed  PROVE TackyOK' /\ toUi' \in Seq(UiFrames)
      BY <1>3, ExitInv DEF Removed
<1>4. ASSUME OthersMove  PROVE TackyOK' /\ toUi' \in Seq(UiFrames)
      <2>1. Banner(~busy) \in UiFrames
            BY SaysTypes DEF Inv, TackyOK
      <2>2. (IF stage = "out" THEN <<Banner(~busy)>> ELSE <<>>) \in Seq(UiFrames)
            BY <2>1
      <2> QED BY <1>4, <2>2, EmitType DEF OthersMove, Inv, TackyOK
<1>5. ASSUME Online  PROVE TackyOK' /\ toUi' \in Seq(UiFrames)
      <2>1. [kind |-> "connected"] \in UiFrames
            BY DEF UiFrames, Notes
      <2>2. <<[kind |-> "connected"]>> \in Seq(UiFrames)
            BY <2>1
      <2> QED BY <1>5, <2>2, EmitType DEF Online, Inv, TackyOK
<1>6. TackyOK' /\ toUi' \in Seq(UiFrames)
      BY <1>2, <1>3, <1>4, <1>5
<1> QED BY <1>1, <1>6 DEF Inv, WireOK

\* What a request makes of tacky, and the answers to it.
LEMMA TakenInv ==
    ASSUME Inv, NEW f \in Sent, Takes(f)
    PROVE  TackyOK' /\ toUi' \in Seq(UiFrames)
<1>1. /\ f.kind \in {"start", "join", "leave", "get", "pull"} /\ f.room \in AnyRoom
      /\ f.token \in Nat /\ (f.kind = "join" => f.room \in Rooms)
      BY DEF Sent
<1>2. /\ [kind |-> "result", token |-> f.token] \in UiFrames
      /\ [kind |-> "error", token |-> f.token] \in UiFrames
      /\ [kind |-> "failed"] \in UiFrames /\ [kind |-> "connected"] \in UiFrames
      BY <1>1 DEF UiFrames, Replies, Notes
<1>3. UNCHANGED tacky => TackyOK'
      BY DEF Inv, TackyOK, tacky
<1>4. ASSUME NEW room \in IF f.kind = "join" THEN {f.room} ELSE Rooms \ {Own},
             f.kind \in {"start", "join"},
             mine' = room, stage' = "joining", UNCHANGED <<busy, online>>,
             Emit(<<InCall(room, "joining"), [kind |-> "result", token |-> f.token]>>)
      PROVE  TackyOK' /\ toUi' \in Seq(UiFrames)
      <2>1. room \in Rooms /\ NoRoom \notin Rooms
            BY <1>1, <1>4, GroupCallAssumption DEF GroupCallAssumption
      <2>2. InCall(room, "joining") \in UiFrames
            BY <2>1, SaysTypes
      <2>3. <<InCall(room, "joining"), [kind |-> "result", token |-> f.token]>> \in Seq(UiFrames)
            BY <1>2, <2>2
      <2> QED BY <1>4, <2>1, <2>3, EmitType DEF Inv, TackyOK, AnyRoom
<1>5. <<[kind |-> "result", token |-> f.token], [kind |-> "failed"]>> \in Seq(UiFrames)
      BY <1>2
<1>6. <<[kind |-> "error", token |-> f.token]>> \in Seq(UiFrames)
      BY <1>2
<1>7. <<[kind |-> "get",
         states |-> IF stage # "out" THEN <<InCall(mine, stage)>>
                    ELSE IF busy THEN <<Banner(TRUE)>> ELSE <<>>]>> \in Seq(UiFrames)
      <2> DEFINE c == InCall(mine, stage)
                 b == Banner(TRUE)
      <2>1. stage # "out" => c \in States
            BY SaysTypes, InRoom DEF Inv, TackyOK
      <2>2. b \in States
            BY SaysTypes
      <2> HIDE DEF c, b
      <2>3. (IF stage # "out" THEN <<c>> ELSE IF busy THEN <<b>> ELSE <<>>) \in Seq(States)
            BY <2>1, <2>2, OneFrame
      <2> USE DEF c, b
      <2>4. [kind |-> "get",
             states |-> IF stage # "out" THEN <<InCall(mine, stage)>>
                        ELSE IF busy THEN <<Banner(TRUE)>> ELSE <<>>] \in Gots
            BY <2>3 DEF Gots
      <2> QED BY <2>4, SaysTypes
<1>8. (IF online THEN <<[kind |-> "connected"]>> ELSE <<>>) \in Seq(UiFrames)
      BY <1>2
<1>9. UNCHANGED toUi => toUi' \in Seq(UiFrames)
      BY DEF Inv, WireOK
<1> QED BY <1>3, <1>4, <1>5, <1>6, <1>7, <1>8, <1>9, EmitType, ExitInv
        DEF Takes, Reply, Inv, tacky

LEMMA LinkInv ==
    ASSUME Inv, Offline \/ TackyTakes \/ Drop \/ Attach
    PROVE  Inv'
<1>1. ASSUME Offline  PROVE Inv'
      <2>1. CallOK' /\ AskOK'
            BY <1>1, UiKept DEF Offline
      <2> QED BY <1>1, <2>1 DEF Offline, Inv, TackyOK, WireOK
<1>2. ASSUME TackyTakes  PROVE Inv'
      <2>1. /\ toTacky # <<>> /\ toTacky' = Tail(toTacky) /\ Takes(Head(toTacky))
            /\ UNCHANGED <<ui, up, rest>>
            BY <1>2 DEF TackyTakes
      <2>2. CallOK' /\ AskOK'
            BY <2>1, UiKept DEF rest
      <2>3. Head(toTacky) \in Sent /\ toTacky' \in Seq(Sent)
            BY <2>1 DEF Inv, WireOK
      <2>4. TackyOK' /\ toUi' \in Seq(UiFrames)
            BY <2>1, <2>3, TakenInv
      <2> QED BY <2>1, <2>2, <2>3, <2>4 DEF Inv, WireOK
<1>3. ASSUME Drop  PROVE Inv'
      <2>1. CallOK' /\ TackyOK'
            BY <1>3 DEF Drop, call, tacky, Inv, CallOK, TackyOK, OutIsQuiet, inCall
      <2>2. AskOK'
            BY <1>3, AskKept DEF Drop, Inv
      <2>3. [kind |-> "error", token |-> joinToken] \in UiFrames
            BY SceneType DEF Inv, UiFrames, Replies
      <2>4. WireOK'
            <3> DEFINE e == [kind |-> "error", token |-> joinToken]
            <3>1. /\ up' = FALSE /\ toTacky' = <<>>
                  /\ toUi' = IF joinToken = 0 THEN <<>> ELSE <<e>>
                  BY <1>3 DEF Drop
            <3>2. e \in UiFrames
                  BY <2>3
            <3> HIDE DEF e
            <3>3. toUi' \in Seq(UiFrames)
                  BY <3>1, <3>2, OneFrame
            <3>4. <<>> \in Seq(Sent)
                  OBVIOUS
            <3> QED BY <3>1, <3>3, <3>4 DEF WireOK
      <2> QED BY <2>1, <2>2, <2>4 DEF Inv
<1>4. ASSUME Attach  PROVE Inv'
      <2>1. CallOK' /\ AskOK'
            BY <1>4, UiKept DEF Attach, rest
      <2>2. [kind |-> "pull", room |-> NoRoom, token |-> 0] \in Sent
            BY DEF Sent, AnyRoom
      <2>3. TackyOK' /\ WireOK'
            BY <1>4, <2>2 DEF Attach, tacky, Inv, TackyOK, WireOK
      <2> QED BY <2>1, <2>3 DEF Inv
<1> QED BY <1>1, <1>2, <1>3, <1>4

-----------------------------------------------------------------------------

LEMMA InitInv == Init => Inv
<1> SUFFICES ASSUME Init  PROVE Inv
    OBVIOUS
<1>1. CallOK /\ TackyOK
      BY DEF Init, CallOK, TackyOK, OutIsQuiet, inCall, AnyRoom
<1>2. AskOK
      <2>1. scene.joins \in Nat
            BY GroupCallAssumption DEF Init, GroupCallAssumption
      <2>2. prompt = <<>> /\ <<>> \in Seq(Asked) /\ Len(<<>>) <= 1
            BY DEF Init
      <2>3. tokens \in 0..scene.joins /\ joinToken \in 0..tokens
            BY <2>1 DEF Init
      <2>4. prompt \in Seq(Asked) /\ Len(prompt) <= 1
            BY <2>2
      <2> QED BY <2>2, <2>3, <2>4 DEF Init, AskOK
<1>3. WireOK
      <2>1. <<>> \in Seq(UiFrames) /\ <<>> \in Seq(Sent)
            OBVIOUS
      <2> QED BY <2>1 DEF Init, WireOK
<1> QED BY <1>1, <1>2, <1>3 DEF Inv

LEMMA NextInv == Inv /\ [Next]_vars => Inv'
<1> SUFFICES ASSUME Inv, [Next]_vars  PROVE Inv'
    OBVIOUS
<1>1. ASSUME join  PROVE Inv'
      <2> DEFINE ask == IF active THEN [kind |-> "join", room |-> Own] ELSE [kind |-> "start", room |-> NoRoom]
      <2>1. ask \in Asked
            BY GroupCallAssumption DEF Asked, AnyRoom, GroupCallAssumption
      <2>2. beginJoin(ask) /\ UNCHANGED <<callJid, active, joinToken, getting, tokens, tacky, link>>
            BY <1>1 DEF join
      <2> HIDE DEF ask
      <2> QED BY <2>1, <2>2, JoinInv DEF Inv, CallOK
<1>2. ASSUME NEW room \in Rooms, answerInvite(room)  PROVE Inv'
      <2> DEFINE ask == [kind |-> "join", room |-> room]
      <2>1. ask \in Asked
            BY DEF Asked, AnyRoom
      <2>2. /\ beginJoin(ask) /\ callJid' = room
            /\ UNCHANGED <<active, joinToken, getting, tokens, tacky, link>>
            BY <1>2 DEF answerInvite
      <2> HIDE DEF ask
      <2> QED BY <2>1, <2>2, JoinInv DEF AnyRoom
<1>3. CASE UNCHANGED vars
      <2>1. UNCHANGED <<ui, tacky, link>>
            BY <1>3 DEF vars
      <2> QED BY <2>1, UiKept DEF ui, tacky, link, rest, Inv, TackyOK, WireOK
<1> QED BY <1>1, <1>2, <1>3, GrantedInv, DeniedInv, LeaveInv, DismissInv, HandlesInv,
           OwnAccord, LinkInv DEF Next

\* Out of the call no camera preview runs and no one else's row is live, whatever
\* the rooms, the platform and the order of leaves, prompts, states and drops
\* (GroupCall::tearDown, GroupCallParticipants::endAll).
THEOREM OutStaysQuiet == Spec => []OutIsQuiet
<1>1. Inv => OutIsQuiet
      BY DEF Inv, CallOK
<1> QED BY <1>1, InitInv, NextInv, PTL DEF Spec

\* Every record keeps to its type, a join's token is one that was handed out, and
\* tacky is in a room exactly while it is in a call; and every frame under way is one
\* that its end sends (WireOK: GroupCall's requests towards tacky, tacky's states,
\* answers and events towards the UI).
THEOREM CallTyped == Spec => [](TypeOK /\ WireOK)
<1>1. Inv => TypeOK /\ WireOK
      BY DEF Inv, CallOK, AskOK, TackyOK, WireOK, AnyRoom, TypeOK
<1> QED BY <1>1, InitInv, NextInv, PTL DEF Spec
=============================================================================
