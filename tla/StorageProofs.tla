---------------------------- MODULE StorageProofs ----------------------------
(***************************************************************************)
(* That the gate stands where tacky serves nothing else and only there, and *)
(* that the status shown is tacky's: for any number of launches, lost links *)
(* and frames under way, and whatever the user presses in between.          *)
(***************************************************************************)
EXTENDS Storage, Queues

Statuses == {"plaintext", "pending-encrypt", "locked", "pending-decrypt", "unlocked"}
Methods == {"unlock", "encrypt", "decrypt", "requestEncrypt", "requestDecrypt", "cancelPending"}

\* The frames towards tacky ...
Asks == {Frame("storage", "status")}
Actions == {Frame("storage", m) : m \in Methods}
Migrations == {Frame("storage", m) : m \in {"encrypt", "decrypt"}}
Marks == {Frame("storage", m) : m \in {"requestEncrypt", "requestDecrypt"}}
Reports == {Frame("app", x) : x \in {"on", "off"}}
Others == {Frame("log", "prefs")} \cup Reports
TackyFrames == Asks \cup Actions \cup Others

\* ... and towards the UI: a status, what makes it ask for one, an action's end.
Results == {Frame("result", s) : s \in Statuses}
Answers == {Frame("result", "action"), Frame("error", "action")}
Stirs == {Frame("event", ""), Frame("result", "action")}
UiFrames == Results \cup Answers \cup Stirs

-----------------------------------------------------------------------------
(* The invariant.                                                           *)

UiTyped ==
    /\ status \in {""} \cup Statuses
    /\ armed \in BOOLEAN /\ busy \in BOOLEAN
    /\ focused \in {"on", "off"} /\ settling \in BOOLEAN /\ reported \in {"none", "on", "off"}

ProcessTyped ==
    /\ encrypted \in BOOLEAN /\ pending \in {"none", "encrypt", "decrypt"}
    /\ unlocked \in BOOLEAN /\ open \in BOOLEAN /\ told \in BOOLEAN
    /\ heard \in {"none", "on", "off"}

LinkTyped ==
    /\ toTacky \in Seq(TackyFrames) /\ toUi \in Seq(UiFrames)
    /\ up \in BOOLEAN /\ refused \in BOOLEAN /\ live \in BOOLEAN
    /\ spent \in [DOMAIN Bounds -> Nat]

Typed == UiTyped /\ ProcessTyped /\ LinkTyped

\* Every status that was asked for is under way, one way or the other; with no link
\* nothing is but the errors of what could not be sent.
Counted ==
    /\ asking = Count(toTacky, Asks) + Count(toUi, Results)
    /\ ~up => toTacky = <<>> /\ ~Some(toUi, Results \cup Stirs)

\* The last status under way is this one.
Last(s) == Ends(toUi, Results, Frame("result", s))

\* Whatever moved tacky's status, the UI is to hear of it: it asks, it is about to,
\* or the last answer under way is the right one.
Fresh ==
    up => \/ Some(toTacky, Asks) \/ Some(toUi, Stirs) \/ Last(Status)
          \/ asking = 0 /\ status = Status

\* One action is out at a time, and the buttons know.
OneAction ==
    /\ Once(toTacky, Actions) /\ Once(toUi, Answers)
    /\ Some(toTacky, Actions) => ~Some(toUi, Answers)
    /\ Some(toTacky, Actions) \/ Some(toUi, Answers) => busy

\* A status that gates nothing, where it is on its way or shown.
Free(s) == Frame("result", s)
Agrees(s) == CASE s = "plaintext" -> ~encrypted [] s = "unlocked" -> encrypted /\ unlocked

\* While tacky has not died under a UI: what the disk, the process and the gate have
\* to do with each other.
Disk ==
    /\ pending = "encrypt" => ~encrypted
    /\ pending = "decrypt" => encrypted
    /\ ~encrypted => ~unlocked
    /\ encrypted /\ ~unlocked => ~open
    /\ ~open => gating(Status)

\* A status that opens the app, shown or under way, is one of a tacky that is open
\* and stays so; until it arrives nothing is asked for that would change it.
Opening ==
    /\ \A s \in {"plaintext", "unlocked"} :
          Some(toUi, {Free(s)}) => open /\ Agrees(s) /\ (armed => pending = "none")
    /\ \A s \in {"plaintext", "unlocked"} : status = s => ~armed /\ Agrees(s)
    /\ ~armed => open
    /\ status = "" => armed

Sent ==
    /\ armed => ~Some(toTacky, Marks)
    /\ ~armed /\ Some(toTacky, Migrations) => pending = "none"
    /\ Some(toTacky, {Frame("storage", "requestEncrypt")}) => ~encrypted
    /\ Some(toTacky, {Frame("storage", "requestDecrypt")}) => encrypted /\ unlocked
    /\ Some(toTacky, Others) => open
    /\ ~refused

\* A store that is locked was never seen past its lock.
Locked ==
    encrypted /\ ~unlocked =>
        /\ status \in {"", "locked"} /\ ~Some(toUi, Results \ {Free("locked")})
        /\ ~Some(toTacky, {Frame("storage", "cancelPending")})

TackyLives == spent.tacky = 0 => Disk /\ Opening /\ Sent /\ Locked

\* With no UI gone either, a migration that is pending in an open app was asked for by
\* the UI that shows it, and is not gated there.
Pended == Together => (armed /\ open => pending = "none") /\ ~live

\* What tacky will have heard when it has taken what is under way.
Heard(x) ==
    (heard = x /\ ~Some(toTacky, Reports)) \/ Ends(toTacky, Reports, Frame("app", x))

\* A tacky in sight since it opened has been told, or is about to be.
TellsAll ==
    spent.drop = 0 /\ spent.tacky = 0 =>
        /\ status # "" => up
        /\ ready => /\ told \/ Some(toTacky, {Frame("log", "prefs")})
                    /\ Heard(reported)
                    /\ settling \/ reported = focused

Inv == Typed /\ Counted /\ Fresh /\ OneAction /\ TackyLives /\ Pended /\ TellsAll

-----------------------------------------------------------------------------
(* The frames, and the queues they travel in.                               *)

\* The kinds of frame towards tacky exclude each other.
LEMMA TackyKinds ==
    /\ Asks \subseteq TackyFrames /\ Actions \subseteq TackyFrames /\ Others \subseteq TackyFrames
    /\ Migrations \subseteq Actions /\ Marks \subseteq Actions /\ Reports \subseteq Others
    /\ Frame("log", "prefs") \in Others /\ Frame("log", "prefs") \notin Reports
    /\ \A f \in Asks : f \notin Actions /\ f \notin Others
    /\ \A f \in Actions : f \notin Others
    /\ \A f \in Marks : f \notin Migrations
    /\ Frame("storage", "cancelPending") \in Actions
    /\ Frame("storage", "cancelPending") \notin Marks \cup Migrations
<1>1. Migrations \subseteq Actions /\ Marks \subseteq Actions
      BY DEF Migrations, Marks, Actions, Methods
<1>2. /\ Asks \subseteq TackyFrames /\ Actions \subseteq TackyFrames /\ Others \subseteq TackyFrames
      /\ Reports \subseteq Others /\ Frame("log", "prefs") \in Others
      BY DEF TackyFrames, Others
<1>3. Frame("log", "prefs") \notin Reports
      BY DEF Reports, Frame
<1>4. \A f \in Asks : f \notin Actions /\ f \notin Others
      BY DEF Asks, Actions, Methods, Others, Reports, Frame
<1>5. \A f \in Actions : f \notin Others
      BY DEF Actions, Others, Reports, Frame
<1>6. \A f \in Marks : f \notin Migrations
      BY DEF Marks, Migrations, Frame
<1>7. /\ Frame("storage", "cancelPending") \in Actions
      /\ Frame("storage", "cancelPending") \notin Marks \cup Migrations
      BY DEF Actions, Methods, Marks, Migrations, Frame
<1> QED BY <1>1, <1>2, <1>3, <1>4, <1>5, <1>6, <1>7

\* And so do those towards the UI, but for the answer that also stirs it.
LEMMA UiKinds ==
    /\ \A s \in Statuses : Free(s) \in Results /\ s # "action"
    /\ \A f \in Results : f \notin Answers /\ f \notin Stirs /\ f = Free(f.what) /\ f.what \in Statuses
    /\ \A f \in Answers \cup Stirs : f \notin Results /\ \A s \in Statuses : f # Free(s)
    /\ Results \subseteq UiFrames
    /\ Done \in UiFrames /\ Done \in Answers /\ Done \in Stirs
    /\ Frame("error", "action") \in UiFrames /\ Frame("error", "action") \in Answers
    /\ Frame("error", "action") \notin Stirs
    /\ Frame("event", "") \in UiFrames /\ Frame("event", "") \in Stirs
    /\ Frame("event", "") \notin Answers
<1>1. \A s \in Statuses : Free(s) \in Results /\ s # "action"
      BY DEF Statuses, Results, Free
<1>2. \A f \in Results : f \notin Answers /\ f \notin Stirs /\ f = Free(f.what) /\ f.what \in Statuses
      <2> SUFFICES ASSUME NEW s \in Statuses
                   PROVE  LET f == Frame("result", s)
                          IN f \notin Answers /\ f \notin Stirs /\ f = Free(f.what) /\ f.what \in Statuses
          BY DEF Results
      <2>1. Frame("result", s).what = s /\ Frame("result", s).kind = "result" /\ s # "action"
            BY <1>1 DEF Frame
      <2> QED BY <2>1 DEF Answers, Stirs, Frame, Free
<1>3. \A f \in Answers \cup Stirs : f \notin Results /\ \A s \in Statuses : f # Free(s)
      BY <1>1, <1>2
<1>4. /\ Results \subseteq UiFrames
      /\ Done \in UiFrames /\ Done \in Answers /\ Done \in Stirs
      /\ Frame("error", "action") \in UiFrames /\ Frame("error", "action") \in Answers
      /\ Frame("event", "") \in UiFrames /\ Frame("event", "") \in Stirs
      BY DEF UiFrames, Answers, Stirs, Done
<1>5. Frame("error", "action") \notin Stirs /\ Frame("event", "") \notin Answers
      BY DEF Stirs, Answers, Frame
<1> QED BY <1>1, <1>2, <1>3, <1>4, <1>5

LEMMA StatusType ==
    Typed => /\ Status \in Statuses /\ Free(Status) \in Results
             /\ Told[1] = Frame("log", "prefs") /\ Told[2] = Frame("app", focused)
             /\ Frame("app", focused) \in Reports
             /\ focused \in {"on", "off"}
<1> SUFFICES ASSUME Typed PROVE Status \in Statuses /\ Free(Status) \in Results
             /\ Told[1] = Frame("log", "prefs") /\ Told[2] = Frame("app", focused)
             /\ Frame("app", focused) \in Reports /\ focused \in {"on", "off"}
    OBVIOUS
<1>1. Status \in Statuses
      BY DEF Typed, ProcessTyped, Status, Statuses
<1>2. focused \in {"on", "off"} /\ Frame("app", focused) \in Reports
      BY DEF Typed, UiTyped, Reports
<1> QED BY <1>1, <1>2, UiKinds DEF Told

\* Sending one frame.
LEMMA SendOne ==
    ASSUME Typed, NEW f \in TackyFrames, Sends(<<f>>)
    PROVE  /\ toTacky' \in Seq(TackyFrames)
           /\ \A P : Some(toTacky', P) <=> Some(toTacky, P) \/ (up /\ f \in P)
           /\ \A P : Once(toTacky, P) /\ (f \in P => ~Some(toTacky, P)) => Once(toTacky', P)
           /\ \A P : Count(toTacky, P) \in Nat
           /\ \A P : Count(toTacky', P) =
                        IF up /\ f \in P THEN Count(toTacky, P) + 1 ELSE Count(toTacky, P)
           /\ \A P : up => Ends(toTacky', P, f)
           /\ \A P, z : f \notin P /\ Ends(toTacky, P, z) => Ends(toTacky', P, z)
<1>1. toTacky \in Seq(TackyFrames) /\ \A P : Count(toTacky, P) \in Nat
      BY CountType DEF Typed, LinkTyped
<1>2. CASE up
      <2>1. toTacky' = toTacky \o <<f>>
            BY <1>2 DEF Sends
      <2> QED BY <1>1, <1>2, <2>1, OneMore
<1>3. CASE ~up
      <2>1. toTacky' = toTacky
            BY <1>3 DEF Sends
      <2> QED BY <1>1, <1>3, <2>1
<1> QED BY <1>2, <1>3

\* Telling a tacky that has been seen to be open.
LEMMA SendTold ==
    ASSUME Typed, Sends(Told)
    PROVE  /\ toTacky' \in Seq(TackyFrames)
           /\ \A P : (\A f \in Others : f \notin P) =>
                /\ Some(toTacky', P) <=> Some(toTacky, P)
                /\ Once(toTacky, P) => Once(toTacky', P)
                /\ Count(toTacky', P) = Count(toTacky, P)
           /\ Some(toTacky, Others) => Some(toTacky', Others)
           /\ ~up => toTacky' = toTacky
           /\ up => /\ Some(toTacky', {Frame("log", "prefs")})
                    /\ Ends(toTacky', Reports, Frame("app", focused))
<1> DEFINE x == Frame("log", "prefs")
           y == Frame("app", focused)
<1>1. /\ x \in Others /\ y \in Others /\ x \in TackyFrames /\ y \in TackyFrames
      /\ x \notin Reports /\ x \in {Frame("log", "prefs")}
      BY TackyKinds, StatusType
<1>2. toTacky \in Seq(TackyFrames) /\ \A P : Count(toTacky, P) \in Nat
      BY CountType DEF Typed, LinkTyped
<1>3. CASE up
      <2>1. toTacky' = toTacky \o <<x, y>>
            BY <1>3 DEF Sends, Told
      <2> HIDE DEF x, y
      <2>2. /\ toTacky' \in Seq(TackyFrames)
            /\ \A P : Some(toTacky', P) <=> Some(toTacky, P) \/ x \in P \/ y \in P
            /\ \A P : Ends(toTacky', P, y)
            BY <1>1, <1>2, <2>1, TwoMore
      <2>6. \A P : x \notin P /\ Once(toTacky, P) /\ (y \in P => ~Some(toTacky, P))
                     => Once(toTacky', P)
            BY <1>1, <1>2, <2>1, TwoMore
      <2>7. \A P : Count(toTacky', P) = Count(toTacky, P)
                     + (IF x \in P THEN 1 ELSE 0) + (IF y \in P THEN 1 ELSE 0)
            BY <1>1, <1>2, <2>1, TwoMore
      <2>3. ASSUME NEW P, \A f \in Others : f \notin P
            PROVE  /\ Some(toTacky', P) <=> Some(toTacky, P)
                   /\ Once(toTacky, P) => Once(toTacky', P)
                   /\ Count(toTacky', P) = Count(toTacky, P)
            BY <1>1, <1>2, <2>2, <2>6, <2>7, <2>3
      <2>4. Some(toTacky', {Frame("log", "prefs")}) /\ Some(toTacky', Others)
            BY <1>1, <2>2
      <2>5. Ends(toTacky', Reports, Frame("app", focused))
            BY <2>2 DEF y
      <2> QED BY <1>3, <2>2, <2>3, <2>4, <2>5
<1>4. CASE ~up
      <2>1. toTacky' = toTacky
            BY <1>4 DEF Sends
      <2> QED BY <1>2, <1>4, <2>1
<1> QED BY <1>3, <1>4

\* Queueing one frame for the UI, and two.
LEMMA ReplyOne ==
    ASSUME Typed, NEW f \in UiFrames, Replies(<<f>>)
    PROVE  /\ toUi' \in Seq(UiFrames)
           /\ \A P : Some(toUi', P) <=> Some(toUi, P) \/ f \in P
           /\ \A P : Once(toUi, P) /\ (f \in P => ~Some(toUi, P)) => Once(toUi', P)
           /\ \A P : Count(toUi, P) \in Nat
           /\ \A P : Count(toUi', P) = IF f \in P THEN Count(toUi, P) + 1 ELSE Count(toUi, P)
           /\ \A P : Ends(toUi', P, f)
           /\ \A P, z : f \notin P /\ Ends(toUi, P, z) => Ends(toUi', P, z)
<1>1. toUi \in Seq(UiFrames) /\ \A P : Count(toUi, P) \in Nat
      BY CountType DEF Typed, LinkTyped
<1> QED BY <1>1, OneMore DEF Replies

LEMMA ReplyTwo ==
    ASSUME Typed, NEW f \in UiFrames, NEW g \in UiFrames, Replies(<<f, g>>)
    PROVE  /\ toUi' \in Seq(UiFrames)
           /\ \A P : Some(toUi', P) <=> Some(toUi, P) \/ f \in P \/ g \in P
           /\ \A P : f \notin P /\ Once(toUi, P) /\ (g \in P => ~Some(toUi, P)) => Once(toUi', P)
           /\ \A P : f \notin P /\ g \notin P => Count(toUi', P) = Count(toUi, P)
           /\ \A P, z : f \notin P /\ g \notin P /\ Ends(toUi, P, z) => Ends(toUi', P, z)
<1>1. toUi \in Seq(UiFrames) /\ \A P : Count(toUi, P) \in Nat
      BY CountType DEF Typed, LinkTyped
<1>2. toUi' = toUi \o <<f, g>>
      BY DEF Replies
<1>3. /\ toUi' \in Seq(UiFrames)
      /\ \A P : Some(toUi', P) <=> Some(toUi, P) \/ f \in P \/ g \in P
      BY <1>1, <1>2, TwoMore
<1>4. \A P : f \notin P /\ Once(toUi, P) /\ (g \in P => ~Some(toUi, P)) => Once(toUi', P)
      BY <1>1, <1>2, TwoMore
<1>5. \A P : f \notin P /\ g \notin P => Count(toUi', P) = Count(toUi, P)
      BY <1>1, <1>2, TwoMore
<1>6. \A P, z : f \notin P /\ g \notin P /\ Ends(toUi, P, z) => Ends(toUi', P, z)
      BY <1>1, <1>2, TwoMore
<1> QED BY <1>3, <1>4, <1>5, <1>6

-----------------------------------------------------------------------------
(* What follows from the invariant wherever it is needed.                   *)

\* An app that is let in has a tacky that is open, and has disarmed its gate.
LEMMA ReadyOpen ==
    ASSUME Typed, TackyLives, spent.tacky = 0, ready
    PROVE  open /\ ~armed /\ status # ""
<1>1. status # "" /\ status \in Statuses /\ (armed => status \in {"plaintext", "unlocked"})
      BY DEF ready, Ready, Gate, gating, Typed, UiTyped, Statuses
<1>2. ~armed
      BY <1>1 DEF TackyLives, Opening
<1> QED BY <1>1, <1>2 DEF TackyLives, Opening

\* The action that is asked for, and what the screen it is on shows.
Offered(m) ==
    /\ m \in {"encrypt", "decrypt"} => armed
    /\ m = "requestEncrypt" => status = "plaintext"
    /\ m = "requestDecrypt" => status = "unlocked"
    /\ m = "cancelPending" => status \in {"pending-encrypt", "pending-decrypt"}

LEMMA WhatIsOffered ==
    unlock \/ encrypt \/ decrypt \/ requestEncrypt \/ requestDecrypt \/ cancelPending
        => \E m \in Methods : Act(m) /\ Offered(m)
<1>1. unlock => Act("unlock") /\ Offered("unlock") /\ "unlock" \in Methods
      BY DEF unlock, Offered, Methods
<1>2. encrypt => Act("encrypt") /\ Offered("encrypt") /\ "encrypt" \in Methods
      BY DEF encrypt, Offered, Methods, gateActive, Gate
<1>3. decrypt => Act("decrypt") /\ Offered("decrypt") /\ "decrypt" \in Methods
      BY DEF decrypt, Offered, Methods, gateActive, Gate
<1>4. requestEncrypt => Act("requestEncrypt") /\ Offered("requestEncrypt") /\ "requestEncrypt" \in Methods
      BY DEF requestEncrypt, Offered, Methods
<1>5. requestDecrypt => Act("requestDecrypt") /\ Offered("requestDecrypt") /\ "requestDecrypt" \in Methods
      BY DEF requestDecrypt, Offered, Methods
<1>6. cancelPending => Act("cancelPending") /\ Offered("cancelPending") /\ "cancelPending" \in Methods
      BY DEF cancelPending, Offered, Methods
<1> QED BY <1>1, <1>2, <1>3, <1>4, <1>5, <1>6

-----------------------------------------------------------------------------
(* The invariant is kept: the UI's own steps.                               *)

LEMMA ActKeeps ==
    ASSUME Inv, NEW m \in Methods, Act(m), Offered(m)
    PROVE  Inv'
<1> DEFINE f == Frame("storage", m)
           e == Frame("error", "action")
<1>1. /\ Typed /\ Counted /\ Fresh /\ OneAction /\ TackyLives /\ Pended /\ TellsAll
      /\ m \in {"unlock", "encrypt", "decrypt", "requestEncrypt", "requestDecrypt", "cancelPending"}
      BY DEF Inv, Methods
<1>2. /\ UNCHANGED <<status, armed, asking, focused, settling, reported>> /\ busy' = TRUE /\ ~busy
      /\ UNCHANGED <<encrypted, pending, unlocked, open, told, heard, up, refused, live, spent>>
      /\ Sends(<<f>>) /\ toUi' = IF up THEN toUi ELSE Append(toUi, e)
      BY DEF Act, Request, focus, disk, process, history
<1>3. /\ f \in Actions /\ f \in TackyFrames /\ f \notin Asks /\ f \notin Others /\ f \notin Reports
      /\ f \notin {Frame("log", "prefs")}
      /\ f \in Migrations => m \in {"encrypt", "decrypt"}
      /\ f \in Marks => m \in {"requestEncrypt", "requestDecrypt"}
      /\ f \in {Frame("storage", "requestEncrypt")} => m = "requestEncrypt"
      /\ f \in {Frame("storage", "requestDecrypt")} => m = "requestDecrypt"
      /\ f \in {Frame("storage", "cancelPending")} => m = "cancelPending"
      <2>1. f \in Actions
            BY DEF Actions
      <2>2. /\ f \in Migrations => m \in {"encrypt", "decrypt"}
            /\ f \in Marks => m \in {"requestEncrypt", "requestDecrypt"}
            /\ f \in {Frame("storage", "requestEncrypt")} => m = "requestEncrypt"
            /\ f \in {Frame("storage", "requestDecrypt")} => m = "requestDecrypt"
            /\ f \in {Frame("storage", "cancelPending")} => m = "cancelPending"
            BY DEF Frame, Migrations, Marks
      <2> QED BY <2>1, <2>2, TackyKinds
<1> HIDE DEF f, e
<1>4. /\ toTacky' \in Seq(TackyFrames)
      /\ \A P : Some(toTacky', P) <=> Some(toTacky, P) \/ (up /\ f \in P)
      /\ \A P : Once(toTacky, P) /\ (f \in P => ~Some(toTacky, P)) => Once(toTacky', P)
      /\ Count(toTacky', Asks) = Count(toTacky, Asks)
      /\ \A P, z : f \notin P /\ Ends(toTacky, P, z) => Ends(toTacky', P, z)
      /\ ~up => toTacky' = toTacky
      <2>1. ~up => toTacky' = toTacky
            BY <1>2 DEF Sends
      <2> QED BY <1>1, <1>2, <1>3, <2>1, SendOne
<1>5. /\ toUi' \in Seq(UiFrames)
      /\ \A P : Some(toUi', P) <=> Some(toUi, P) \/ (~up /\ e \in P)
      /\ \A P : Once(toUi, P) /\ (e \in P => ~Some(toUi, P)) => Once(toUi', P)
      /\ e \notin Results /\ e \notin Stirs /\ e \in Answers
      /\ \A s \in Statuses : e \notin {Free(s)}
      /\ Count(toUi', Results) = Count(toUi, Results)
      /\ up => toUi' = toUi
      <2>1. /\ e \in UiFrames /\ e \notin Results /\ e \notin Stirs /\ e \in Answers
            /\ \A s \in Statuses : e \notin {Free(s)}
            BY UiKinds DEF e
      <2>2. CASE up
            BY <1>1, <1>2, <2>1, <2>2 DEF Typed, LinkTyped
      <2>3. CASE ~up
            <3>1. Replies(<<e>>)
                  BY <1>1, <1>2, <2>1, <2>3, AppendIsConcat DEF Replies, Typed, LinkTyped
            <3> QED BY <1>1, <2>1, <2>3, <3>1, ReplyOne
      <2> QED BY <2>2, <2>3
<1>6. /\ \A P \in {Actions, Migrations, Marks} : ~Some(toTacky, P)
      /\ ~Some(toUi, Answers)
      <2>1. ~Some(toTacky, Actions) /\ ~Some(toUi, Answers)
            BY <1>1, <1>2 DEF OneAction
      <2> QED BY <2>1, TackyKinds DEF Some
<1>7. Typed'
      <2>1. toTacky' \in Seq(TackyFrames) /\ toUi' \in Seq(UiFrames)
            BY <1>4, <1>5
      <2>2. UiTyped'
            BY <1>1, <1>2 DEF Typed, UiTyped
      <2>3. ProcessTyped'
            BY <1>1, <1>2 DEF Typed, ProcessTyped
      <2>4. LinkTyped'
            BY <1>1, <1>2, <2>1 DEF Typed, LinkTyped
      <2> QED BY <2>2, <2>3, <2>4 DEF Typed
<1>8. Counted'
      BY <1>1, <1>2, <1>4, <1>5 DEF Counted
<1>9. Fresh'
      <2>1. Status' = Status
            BY <1>2 DEF Status
      <2> QED BY <1>1, <1>2, <1>4, <1>5, <2>1 DEF Fresh, Last
<1>10. OneAction'
      BY <1>1, <1>2, <1>3, <1>4, <1>5, <1>6 DEF OneAction
<1>11. TackyLives'
      <2> SUFFICES ASSUME spent.tacky = 0 PROVE (Disk /\ Opening /\ Sent /\ Locked)'
          BY <1>2 DEF TackyLives
      <2>1. Disk /\ Opening /\ Sent /\ Locked
            BY <1>1 DEF TackyLives
      <2>2. Disk'
            BY <1>2, <2>1 DEF Disk, Status, gating
      <2>3. Opening'
            BY <1>2, <1>5, <2>1 DEF Opening, Agrees, Statuses
      <2>4. Sent'
            BY <1>1, <1>2, <1>3, <1>4, <1>6, <2>1 DEF Sent, Opening, Agrees, Offered
      <2>5. Locked'
            <3>1. \A P : P \subseteq Results => e \notin P
                  BY <1>5
            <3> QED BY <1>1, <1>2, <1>3, <1>4, <1>5, <2>1, <3>1 DEF Locked, Offered
      <2> QED BY <2>2, <2>3, <2>4, <2>5
<1>12. Pended'
      BY <1>1, <1>2 DEF Pended, Together
<1>13. TellsAll'
      BY <1>1, <1>2, <1>3, <1>4 DEF TellsAll, Heard, ready
<1> QED BY <1>7, <1>8, <1>9, <1>10, <1>11, <1>12, <1>13 DEF Inv

\* Taking what has come for the UI.
LEMMA TakeOne ==
    ASSUME Typed, toUi # <<>>, toUi' = Tail(toUi)
    PROVE  /\ toUi' \in Seq(UiFrames) /\ Head(toUi) \in UiFrames
           /\ \A P : Some(toUi, P) <=> Head(toUi) \in P \/ Some(toUi', P)
           /\ \A P : Once(toUi, P) => Once(toUi', P) /\ (Head(toUi) \in P => ~Some(toUi', P))
           /\ \A P : Count(toUi, P) \in Nat /\ (Count(toUi, P) = 0 <=> ~Some(toUi, P))
           /\ \A P : Count(toUi', P) =
                        IF Head(toUi) \in P THEN Count(toUi, P) - 1 ELSE Count(toUi, P)
           /\ \A P, z : Ends(toUi, P, z)
                 => Ends(toUi', P, z) \/ (Head(toUi) = z /\ ~Some(toUi', P))
<1>1. toUi \in Seq(UiFrames)
      BY DEF Typed, LinkTyped
<1>2. \A P : Count(toUi, P) \in Nat /\ (Count(toUi, P) = 0 <=> ~Some(toUi, P))
      BY <1>1, CountType
<1> QED BY <1>1, <1>2, OneLess

\* What a frame is, by what it says.
LEMMA UiHeads ==
    ASSUME NEW f \in UiFrames
    PROVE  /\ f.kind = "result" /\ f.what # "action" => f \in Results
           /\ f.kind = "result" /\ f.what = "action" => f = Done
           /\ f.kind = "error" => f = Frame("error", "action")
           /\ f.kind = "event" => f = Frame("event", "")
<1>1. CASE f \in Results
      <2>1. PICK s \in Statuses : f = Frame("result", s)
            BY <1>1 DEF Results
      <2>2. s # "action"
            BY UiKinds
      <2> QED BY <1>1, <2>1, <2>2 DEF Frame
<1>2. CASE f = Frame("event", "")
      BY <1>2 DEF Frame
<1>3. CASE f = Frame("error", "action")
      BY <1>3 DEF Frame
<1>4. CASE f = Done
      BY <1>4 DEF Frame, Done
<1> QED BY <1>1, <1>2, <1>3, <1>4 DEF UiFrames, Answers, Stirs, Done

\* A status arrives, and counts if it is the newest.
LEMMA StatusAnsweredKeeps ==
    ASSUME Inv, StatusAnswered
    PROVE  Inv'
<1> DEFINE f == Head(toUi)
           s == Head(toUi).what
           now == armed /\ gating(s)
<1>1. Typed /\ Counted /\ Fresh /\ OneAction /\ TackyLives /\ Pended /\ TellsAll
      BY DEF Inv
<1>2. /\ toUi # <<>> /\ toUi' = Tail(toUi) /\ f.kind = "result" /\ s # "action"
      /\ UNCHANGED <<focused, settling, busy>> /\ asking' = asking - 1
      /\ UNCHANGED <<encrypted, pending, unlocked, open, told, heard, up, refused, live, spent>>
      /\ IF asking = 1 THEN setStatus(s) ELSE UNCHANGED <<status, armed, toTacky, reported>>
      BY DEF StatusAnswered, Receive, disk, process, history
<1>3. /\ f \in Results /\ f \notin Answers /\ f \notin Stirs /\ s \in Statuses /\ f = Free(s)
      /\ \A r \in Statuses : f = Free(r) => r = s
      <2>1. f \in UiFrames
            BY <1>1, <1>2, TakeOne
      <2>2. f \in Results
            BY <1>2, <2>1, UiHeads
      <2>3. \A r \in Statuses : f = Free(r) => r = s
            BY DEF Free, Frame
      <2> QED BY <2>2, <2>3, UiKinds
<1>4. /\ toUi' \in Seq(UiFrames)
      /\ \A P : Some(toUi, P) <=> f \in P \/ Some(toUi', P)
      /\ \A P : Once(toUi, P) => Once(toUi', P)
      /\ Count(toUi, Results) \in Nat /\ Count(toUi, Results) # 0
      /\ Count(toUi', Results) = Count(toUi, Results) - 1
      /\ \A P, z : Ends(toUi, P, z)
            => Ends(toUi', P, z) \/ (f = z /\ ~Some(toUi', P))
      BY <1>1, <1>2, <1>3, TakeOne
<1>5. Count(toTacky, Asks) \in Nat /\ (Count(toTacky, Asks) = 0 <=> ~Some(toTacky, Asks))
      BY <1>1, CountType DEF Typed, LinkTyped
<1> HIDE DEF f, s
\* The gate after the answer, and what is told to whoever stands behind it.
<1>6. /\ armed' = (armed /\ (asking = 1 /\ s # status => gating(s)))
      /\ status' = IF asking = 1 THEN s ELSE status
      /\ \/ UNCHANGED <<toTacky, reported>> /\ (ready' => ready)
         \/ Sends(Told) /\ reported' = focused /\ ready'
      <2>1. CASE asking = 1
            <3>1. status' = s /\ armed' = IF s = status THEN armed ELSE now
                  BY <1>2, <2>1 DEF setStatus
            <3>2. CASE s # status /\ Ready(s, now)
                  <4>1. ready'
                        BY <3>1, <3>2 DEF ready
                  <4>2. Sends(Told) /\ reported' = focused
                        BY <1>2, <2>1, <3>2 DEF setStatus
                  <4>3. armed' = (armed /\ (s # status => gating(s)))
                        BY <3>1, <3>2
                  <4> QED BY <2>1, <3>1, <4>1, <4>2, <4>3
            <3>3. CASE ~(s # status /\ Ready(s, now))
                  <4>1. UNCHANGED <<toTacky, reported>>
                        BY <1>2, <2>1, <3>3 DEF setStatus
                  <4>2. ready' => ready
                        BY <3>1, <3>3 DEF ready
                  <4>3. armed' = (armed /\ (s # status => gating(s)))
                        <5>1. armed \in BOOLEAN
                              BY <1>1 DEF Typed, UiTyped
                        <5> QED BY <3>1, <5>1
                  <4> QED BY <2>1, <3>1, <4>1, <4>2, <4>3
            <3> QED BY <3>2, <3>3
      <2>2. CASE asking # 1
            <3>1. UNCHANGED <<status, armed, toTacky, reported>>
                  BY <1>2, <2>2
            <3>2. ready' = ready
                  BY <3>1 DEF ready
            <3>3. armed \in BOOLEAN
                  BY <1>1 DEF Typed, UiTyped
            <3> QED BY <2>2, <3>1, <3>2, <3>3
      <2> QED BY <2>1, <2>2
<1>7. up
      BY <1>1, <1>3, <1>4 DEF Counted
<1>8. /\ toTacky' \in Seq(TackyFrames)
      /\ \A P : (\A o \in Others : o \notin P) =>
            /\ Some(toTacky', P) <=> Some(toTacky, P)
            /\ Once(toTacky, P) => Once(toTacky', P)
            /\ Count(toTacky', P) = Count(toTacky, P)
      <2>1. CASE UNCHANGED toTacky
            BY <1>1, <2>1 DEF Typed, LinkTyped
      <2>2. CASE Sends(Told)
            BY <1>1, <2>2, SendTold
      <2> QED BY <1>6, <2>1, <2>2
<1>9. \A o \in Others : o \notin Asks /\ o \notin Actions /\ o \notin Marks /\ o \notin Migrations
      BY TackyKinds
<1>10. Typed'
      <2>1. /\ status' \in {""} \cup Statuses /\ armed' \in BOOLEAN
            /\ reported' \in {"none", "on", "off"}
            BY <1>1, <1>3, <1>6 DEF Typed, UiTyped
      <2>2. UiTyped'
            BY <1>1, <1>2, <2>1 DEF Typed, UiTyped
      <2>3. ProcessTyped'
            BY <1>1, <1>2 DEF Typed, ProcessTyped
      <2>4. LinkTyped'
            BY <1>1, <1>2, <1>4, <1>8 DEF Typed, LinkTyped
      <2> QED BY <2>2, <2>3, <2>4 DEF Typed
<1>11. Counted'
      <2>1. Count(toTacky', Asks) = Count(toTacky, Asks)
            BY <1>8, <1>9
      <2>2. asking = Count(toTacky, Asks) + Count(toUi, Results)
            BY <1>1 DEF Counted
      <2>3. asking' = Count(toTacky', Asks) + Count(toUi', Results)
            BY <1>2, <1>4, <1>5, <2>1, <2>2
      <2> QED BY <1>2, <1>7, <2>3 DEF Counted
<1>12. Fresh'
      <2>1. Status' = Status
            BY <1>2 DEF Status
      <2>2. Some(toTacky, Asks) => Some(toTacky', Asks)
            BY <1>8, <1>9
      <2>3. Some(toUi, Stirs) => Some(toUi', Stirs)
            BY <1>3, <1>4
      <2>4. asking # 0
            BY <1>1, <1>4, <1>5 DEF Counted
      <2>5. Last(Status) => Last(Status)' \/ (s = Status /\ ~Some(toUi', Results))
            <3>1. Frame("result", Status) = f => s = Status
                  BY DEF Frame, f, s
            <3> QED BY <1>4, <2>1, <3>1 DEF Last
      <2>6. CASE s = Status /\ ~Some(toUi', Results)
            <3>1. Count(toUi', Results) = 0
                  BY <1>4, <2>6, CountType
            <3>2. asking' = Count(toTacky, Asks)
                  BY <1>1, <1>2, <1>4, <1>5, <3>1 DEF Counted
            <3>3. CASE asking = 1
                  BY <1>2, <1>6, <2>1, <2>6, <3>3 DEF Fresh
            <3>4. CASE asking # 1
                  BY <1>2, <1>5, <2>2, <3>2, <3>4, <1>1, <1>4 DEF Fresh, Counted
            <3> QED BY <3>3, <3>4
      <2> QED BY <1>1, <1>2, <2>2, <2>3, <2>4, <2>5, <2>6 DEF Fresh
<1>13. OneAction'
      BY <1>1, <1>2, <1>3, <1>4, <1>8, <1>9 DEF OneAction
<1>14. TackyLives'
      <2> SUFFICES ASSUME spent.tacky = 0 PROVE (Disk /\ Opening /\ Sent /\ Locked)'
          BY <1>2 DEF TackyLives
      <2>1. Disk /\ Opening /\ Sent /\ Locked
            BY <1>1 DEF TackyLives
      <2>2. Disk'
            BY <1>2, <2>1 DEF Disk, Status, gating
      \* What the gate is disarmed by is true of an open tacky with nothing pending.
      <2>3. s \in {"plaintext", "unlocked"} => open /\ Agrees(s) /\ (armed => pending = "none")
            BY <1>3, <1>4, <2>1 DEF Opening
      <2>4. gating(s) <=> s \notin {"plaintext", "unlocked"}
            BY <1>3 DEF gating, Statuses
      <2>5. armed' => armed
            BY <1>6
      <2>6. armed /\ ~armed' => s \in {"plaintext", "unlocked"}
            BY <1>6, <2>4
      <2>7. status' \in {"plaintext", "unlocked"} => ~armed' /\ Agrees(status')
            BY <1>6, <2>1, <2>3, <2>4 DEF Opening
      <2>9. ~armed' => open
            BY <2>1, <2>3, <2>6 DEF Opening
      <2>10. Opening'
            <3>1. \A r \in {"plaintext", "unlocked"} : Agrees(r)' = Agrees(r)
                  BY <1>2 DEF Agrees
            <3>2. \A r \in {"plaintext", "unlocked"} : Some(toUi', {Free(r)})
                     => open' /\ Agrees(r)' /\ (armed' => pending' = "none")
                  BY <1>2, <1>4, <2>1, <2>5, <3>1 DEF Opening
            <3>3. \A r \in {"plaintext", "unlocked"} : status' = r => ~armed' /\ Agrees(r)'
                  BY <2>7, <3>1
            <3>4. status' = "" => armed'
                  <4>1. s # ""
                        BY <1>3 DEF Statuses
                  <4> QED BY <1>6, <2>1, <4>1 DEF Opening
            <3> QED BY <1>2, <2>9, <3>2, <3>3, <3>4 DEF Opening
      <2>11. Sent'
            <3>1. armed' => ~Some(toTacky', Marks)
                  BY <1>8, <1>9, <2>1, <2>5 DEF Sent
            <3>2. ~armed' /\ Some(toTacky', Migrations) => pending' = "none"
                  BY <1>2, <1>8, <1>9, <2>1, <2>3, <2>6 DEF Sent
            <3>3. \A m \in {"requestEncrypt", "requestDecrypt"} :
                     Some(toTacky', {Frame("storage", m)}) <=> Some(toTacky, {Frame("storage", m)})
                  <4>1. \A m \in {"requestEncrypt", "requestDecrypt"} : Frame("storage", m) \in Marks
                        BY DEF Marks
                  <4> QED BY <1>8, <1>9, <4>1
            <3>4. Some(toTacky', Others) => open
                  <4>1. CASE UNCHANGED toTacky
                        BY <2>1, <4>1 DEF Sent
                  <4>2. CASE ready'
                        <5>1. status' # "" /\ (armed' => ~gating(status'))
                              BY <4>2 DEF ready, Ready, Gate
                        <5>2. status' \in Statuses
                              BY <1>10, <5>1 DEF Typed, UiTyped
                        <5>3. ~armed'
                              BY <2>7, <5>1, <5>2 DEF gating, Statuses
                        <5> QED BY <2>9, <5>3
                  <4> QED BY <1>6, <4>1, <4>2
            <3> QED BY <1>2, <2>1, <3>1, <3>2, <3>3, <3>4 DEF Sent
      <2>12. Locked'
            <3>1. Some(toTacky', {Frame("storage", "cancelPending")})
                     <=> Some(toTacky, {Frame("storage", "cancelPending")})
                  BY <1>8, TackyKinds
            <3>2. encrypted /\ ~unlocked => s = "locked"
                  <4>1. "locked" \in Statuses
                        BY DEF Statuses
                  <4>2. s # "locked" => f \in Results \ {Free("locked")}
                        BY <1>3, <4>1
                  <4> QED BY <1>4, <2>1, <4>2 DEF Locked
            <3> QED BY <1>2, <1>4, <1>6, <2>1, <3>1, <3>2 DEF Locked
      <2> QED BY <2>2, <2>10, <2>11, <2>12
<1>15. Pended'
      BY <1>1, <1>2, <1>6 DEF Pended, Together
<1>16. TellsAll'
      <2>1. CASE UNCHANGED <<toTacky, reported>> /\ (ready' => ready)
            BY <1>1, <1>2, <1>7, <2>1 DEF TellsAll, Heard
      <2>2. CASE Sends(Told) /\ reported' = focused /\ ready'
            <3>1. Some(toTacky', {Frame("log", "prefs")}) /\ Ends(toTacky', Reports, Frame("app", focused))
                  BY <1>1, <1>7, <2>2, SendTold
            <3> QED BY <1>2, <1>7, <2>2, <3>1 DEF TellsAll, Heard
      <2> QED BY <1>6, <2>1, <2>2
<1> QED BY <1>10, <1>11, <1>12, <1>13, <1>14, <1>15, <1>16 DEF Inv

\* Whatever is not a status: it gives the buttons back, it makes the UI ask, or both.
LEMMA OtherAnswersKeep ==
    ASSUME Inv, ActionAnswered \/ OnEvent \/ ActionFailed
    PROVE  Inv'
<1> DEFINE f == Head(toUi)
           a == Frame("storage", "status")
<1>1. Typed /\ Counted /\ Fresh /\ OneAction /\ TackyLives /\ Pended /\ TellsAll
      BY DEF Inv
<1>2. /\ toUi # <<>> /\ toUi' = Tail(toUi)
      /\ UNCHANGED <<status, armed, focused, settling, reported>>
      /\ UNCHANGED <<encrypted, pending, unlocked, open, told, heard, up, refused, live, spent>>
      BY DEF ActionAnswered, OnEvent, ActionFailed, Receive, disk, process, history
<1>3. f \in UiFrames
      BY <1>1, <1>2, TakeOne
<1>4. \/ Sends(<<a>>) /\ asking' = asking + 1 /\ f \in Stirs
      \/ UNCHANGED <<toTacky, asking>> /\ f \notin Stirs
      <2>1. ActionAnswered => f = Done /\ Sends(<<a>>) /\ asking' = asking + 1
            BY <1>3, UiHeads DEF ActionAnswered, Receive
      <2>2. OnEvent => f = Frame("event", "") /\ Sends(<<a>>) /\ asking' = asking + 1
            BY <1>3, UiHeads DEF OnEvent, Receive
      <2>3. ActionFailed => f = Frame("error", "action") /\ UNCHANGED <<toTacky, asking>>
            BY <1>3, UiHeads DEF ActionFailed, Receive
      <2> QED BY <2>1, <2>2, <2>3, UiKinds
<1>5. /\ busy' = (busy /\ f \notin Answers)
      /\ f \in Answers \cup Stirs
      <2>1. busy \in BOOLEAN
            BY <1>1 DEF Typed, UiTyped
      <2>2. ActionAnswered => f = Done /\ busy' = FALSE
            BY <1>3, UiHeads DEF ActionAnswered, Receive
      <2>3. OnEvent => f = Frame("event", "") /\ busy' = busy
            BY <1>3, UiHeads DEF OnEvent, Receive
      <2>4. ActionFailed => f = Frame("error", "action") /\ busy' = FALSE
            BY <1>3, UiHeads DEF ActionFailed, Receive
      <2> QED BY <2>1, <2>2, <2>3, <2>4, UiKinds
<1>6. f \notin Results
      BY <1>5, UiKinds
<1>7. /\ toUi' \in Seq(UiFrames)
      /\ \A P : Some(toUi, P) <=> f \in P \/ Some(toUi', P)
      /\ \A P : Once(toUi, P) => Once(toUi', P) /\ (f \in P => ~Some(toUi', P))
      /\ Count(toUi, Results) \in Nat
      /\ Count(toUi', Results) = Count(toUi, Results)
      /\ \A z : Ends(toUi, Results, z) /\ f # z => Ends(toUi', Results, z)
      BY <1>1, <1>2, <1>6, TakeOne
<1> HIDE DEF f
<1>8. a \in Asks /\ a \in TackyFrames /\ a \notin Actions /\ a \notin Others /\ a \notin Reports
      BY TackyKinds DEF Asks
<1> HIDE DEF a
<1>9. /\ toTacky' \in Seq(TackyFrames)
      /\ \A P : a \notin P => (Some(toTacky', P) <=> Some(toTacky, P))
      /\ Some(toTacky, Asks) => Some(toTacky', Asks)
      /\ \A P : a \notin P /\ Once(toTacky, P) => Once(toTacky', P)
      /\ Count(toTacky, Asks) \in Nat
      /\ \A P, z : a \notin P /\ Ends(toTacky, P, z) => Ends(toTacky', P, z)
      /\ up /\ f \in Stirs => Some(toTacky', Asks)
      <2>1. CASE UNCHANGED toTacky /\ f \notin Stirs
            BY <1>1, <2>1, CountType DEF Typed, LinkTyped
      <2>2. CASE Sends(<<a>>)
            BY <1>1, <1>8, <2>2, SendOne
      <2> QED BY <1>4, <2>1, <2>2
<1>10. f \in Stirs => up
      BY <1>1, <1>7 DEF Counted
<1>11. Typed'
      <2>1. busy' \in BOOLEAN
            BY <1>5
      <2>2. UiTyped'
            BY <1>1, <1>2, <2>1 DEF Typed, UiTyped
      <2>3. ProcessTyped'
            BY <1>1, <1>2 DEF Typed, ProcessTyped
      <2>4. LinkTyped'
            BY <1>1, <1>2, <1>7, <1>9 DEF Typed, LinkTyped
      <2> QED BY <2>2, <2>3, <2>4 DEF Typed
<1>12. Counted'
      <2>1. asking = Count(toTacky, Asks) + Count(toUi, Results)
            BY <1>1 DEF Counted
      <2>2. asking' = Count(toTacky', Asks) + Count(toUi', Results)
            <3>1. CASE Sends(<<a>>) /\ asking' = asking + 1 /\ f \in Stirs
                  <4>1. Count(toTacky', Asks) = Count(toTacky, Asks) + 1
                        BY <1>1, <1>8, <1>10, <3>1, SendOne
                  <4> QED BY <1>7, <1>9, <2>1, <3>1, <4>1
            <3>2. CASE UNCHANGED <<toTacky, asking>>
                  BY <1>7, <2>1, <3>2
            <3> QED BY <1>4, <3>1, <3>2
      <2>3. ~up' => toTacky' = <<>> /\ ~Some(toUi', Results \cup Stirs)
            <3> SUFFICES ASSUME ~up PROVE toTacky' = <<>> /\ ~Some(toUi', Results \cup Stirs)
                BY <1>2
            <3>1. UNCHANGED toTacky
                  BY <1>4, <1>10
            <3> QED BY <1>1, <1>7, <3>1 DEF Counted
      <2> QED BY <2>2, <2>3 DEF Counted
<1>13. Fresh'
      <2>1. Status' = Status
            BY <1>2 DEF Status
      <2>2. CASE f \in Stirs
            BY <1>2, <1>9, <1>10, <2>2 DEF Fresh
      <2>3. CASE f \notin Stirs
            <3>1. UNCHANGED <<asking, toTacky>> /\ (Some(toUi, Stirs) => Some(toUi', Stirs))
                  BY <1>4, <1>7, <2>3
            <3>2. Last(Status) => Last(Status)'
                  <4>1. f # Frame("result", Status)
                        BY <1>1, <1>6, StatusType DEF Free
                  <4> QED BY <1>7, <2>1, <4>1 DEF Last
            <3> QED BY <1>1, <1>2, <2>1, <3>1, <3>2 DEF Fresh
      <2> QED BY <2>2, <2>3
<1>14. OneAction'
      <2>1. Once(toTacky', Actions) /\ Once(toUi', Answers)
            BY <1>1, <1>7, <1>8, <1>9 DEF OneAction
      <2>2. Some(toTacky', Actions) => ~Some(toUi', Answers)
            BY <1>1, <1>7, <1>8, <1>9 DEF OneAction
      <2>3. Some(toTacky', Actions) \/ Some(toUi', Answers) => busy'
            BY <1>1, <1>5, <1>7, <1>8, <1>9 DEF OneAction
      <2> QED BY <2>1, <2>2, <2>3 DEF OneAction
<1>15. TackyLives'
      <2> SUFFICES ASSUME spent.tacky = 0 PROVE (Disk /\ Opening /\ Sent /\ Locked)'
          BY <1>2 DEF TackyLives
      <2>1. Disk /\ Opening /\ Sent /\ Locked
            BY <1>1 DEF TackyLives
      <2>2. Disk'
            BY <1>2, <2>1 DEF Disk, Status, gating
      <2>3. Opening'
            BY <1>2, <1>7, <2>1 DEF Opening, Agrees
      <2>4. \A P \in {Marks, Migrations, Others, {Frame("storage", "requestEncrypt")},
                      {Frame("storage", "requestDecrypt")}, {Frame("storage", "cancelPending")}} :
               Some(toTacky', P) <=> Some(toTacky, P)
            <3>1. \A m \in {"requestEncrypt", "requestDecrypt", "cancelPending"} :
                     Frame("storage", m) \in Actions
                  BY DEF Actions, Methods
            <3> QED BY <1>8, <1>9, <3>1, TackyKinds
      <2>5. Sent'
            BY <1>2, <2>1, <2>4 DEF Sent
      <2>6. Locked'
            BY <1>2, <1>7, <2>1, <2>4 DEF Locked
      <2> QED BY <2>2, <2>3, <2>5, <2>6
<1>16. Pended'
      BY <1>1, <1>2 DEF Pended, Together
<1>17. TellsAll'
      <2>1. ready' = ready
            BY <1>2 DEF ready
      <2>2. a \notin {Frame("log", "prefs")}
            BY <1>8, TackyKinds
      <2> QED BY <1>1, <1>2, <1>8, <1>9, <2>1, <2>2 DEF TellsAll, Heard
<1> QED BY <1>11, <1>12, <1>13, <1>14, <1>15, <1>16, <1>17 DEF Inv

\* The focus moves, and what is said of it settles.
LEMMA FocusKeeps ==
    ASSUME Inv, Focus
    PROVE  Inv'
<1>1. Typed /\ Counted /\ Fresh /\ OneAction /\ TackyLives /\ Pended /\ TellsAll
      BY DEF Inv
<1>2. /\ UNCHANGED <<status, armed, asking, busy, reported, toTacky, toUi>> /\ settling' = TRUE
      /\ UNCHANGED <<encrypted, pending, unlocked, open, told, heard, up, refused, live>>
      /\ focused' \in {"on", "off"}
      BY DEF Focus, controller, disk, process, history
<1>3. spent' \in [DOMAIN Bounds -> Nat] /\ \A k \in {"run", "drop", "ui", "tacky"} : spent'[k] = spent[k]
      BY <1>1 DEF Typed, LinkTyped, Focus, Spend, Bounds
<1>4. Typed'
      <2>1. UiTyped'
            BY <1>1, <1>2 DEF Typed, UiTyped
      <2>2. ProcessTyped'
            BY <1>1, <1>2 DEF Typed, ProcessTyped
      <2>3. LinkTyped'
            BY <1>1, <1>2, <1>3 DEF Typed, LinkTyped
      <2> QED BY <2>1, <2>2, <2>3 DEF Typed
<1>5. Status' = Status /\ ready' = ready
      BY <1>2 DEF Status, ready
<1>6. Counted' /\ Fresh' /\ OneAction'
      BY <1>1, <1>2, <1>5 DEF Counted, Fresh, Last, OneAction
<1>7. TackyLives'
      BY <1>1, <1>2, <1>3, <1>5 DEF TackyLives, Disk, Opening, Agrees, Sent, Locked
<1>8. Pended'
      BY <1>1, <1>2, <1>3 DEF Pended, Together
<1>9. TellsAll'
      BY <1>1, <1>2, <1>3, <1>5 DEF TellsAll, Heard
<1> QED BY <1>4, <1>6, <1>7, <1>8, <1>9 DEF Inv

LEMMA ReportKeeps ==
    ASSUME Inv, reportActive
    PROVE  Inv'
<1> DEFINE f == Frame("app", focused)
<1>1. Typed /\ Counted /\ Fresh /\ OneAction /\ TackyLives /\ Pended /\ TellsAll
      BY DEF Inv
<1>2. /\ UNCHANGED <<status, armed, asking, busy, focused, toUi>> /\ settling' = FALSE
      /\ UNCHANGED <<encrypted, pending, unlocked, open, told, heard, up, refused, live, spent>>
      /\ IF ready /\ reported # focused THEN Sends(<<f>>) /\ reported' = focused
         ELSE UNCHANGED <<toTacky, reported>>
      BY DEF reportActive, controller, disk, process, history
<1>3. /\ f \in Others /\ f \in Reports /\ f \in TackyFrames
      /\ f \notin {Frame("log", "prefs")} /\ focused \in {"on", "off"}
      BY <1>1, TackyKinds, StatusType
<1> HIDE DEF f
<1>4. /\ toTacky' \in Seq(TackyFrames)
      /\ \A P : f \notin P => (Some(toTacky', P) <=> Some(toTacky, P))
      /\ \A P : f \notin P /\ Once(toTacky, P) => Once(toTacky', P)
      /\ \A P : f \notin P => Count(toTacky', P) = Count(toTacky, P)
      /\ ~up => UNCHANGED toTacky
      <2>1. CASE UNCHANGED toTacky
            BY <1>1, <2>1 DEF Typed, LinkTyped
      <2>2. CASE Sends(<<f>>)
            <3>1. ~up => UNCHANGED toTacky
                  BY <2>2 DEF Sends
            <3> QED BY <1>1, <1>3, <2>2, <3>1, SendOne
      <2> QED BY <1>2, <2>1, <2>2
<1>5. Some(toTacky', Others) => Some(toTacky, Others) \/ ready
      BY <1>2
<1>6. f \notin Asks /\ f \notin Actions /\ f \notin Marks /\ f \notin Migrations
      BY <1>3, TackyKinds
<1>7. Status' = Status /\ ready' = ready
      BY <1>2 DEF Status, ready
<1>8. Typed'
      <2>1. UiTyped'
            BY <1>1, <1>2 DEF Typed, UiTyped
      <2>2. ProcessTyped'
            BY <1>1, <1>2 DEF Typed, ProcessTyped
      <2>3. LinkTyped'
            BY <1>1, <1>2, <1>4 DEF Typed, LinkTyped
      <2> QED BY <2>1, <2>2, <2>3 DEF Typed
<1>9. Counted' /\ Fresh' /\ OneAction'
      BY <1>1, <1>2, <1>4, <1>6, <1>7 DEF Counted, Fresh, Last, OneAction
<1>10. TackyLives'
      <2> SUFFICES ASSUME spent.tacky = 0 PROVE (Disk /\ Opening /\ Sent /\ Locked)'
          BY <1>2 DEF TackyLives
      <2>1. Disk /\ Opening /\ Sent /\ Locked
            BY <1>1 DEF TackyLives
      <2>2. ready => open
            BY <1>1, ReadyOpen
      <2>3. \A P \in {Marks, Migrations, {Frame("storage", "requestEncrypt")},
                      {Frame("storage", "requestDecrypt")}, {Frame("storage", "cancelPending")}} :
               Some(toTacky', P) <=> Some(toTacky, P)
            <3>1. \A m \in {"requestEncrypt", "requestDecrypt", "cancelPending"} :
                     Frame("storage", m) \in Actions
                  BY DEF Actions, Methods
            <3> QED BY <1>4, <1>6, <3>1
      <2>4. Disk' /\ Opening'
            BY <1>2, <1>7, <2>1 DEF Disk, Opening, Agrees
      <2>5. Sent'
            BY <1>2, <1>5, <2>1, <2>2, <2>3 DEF Sent
      <2>6. Locked'
            BY <1>2, <2>1, <2>3 DEF Locked
      <2> QED BY <2>4, <2>5, <2>6
<1>11. Pended'
      BY <1>1, <1>2 DEF Pended, Together
<1>12. TellsAll'
      <2> SUFFICES ASSUME spent.drop = 0, spent.tacky = 0
                   PROVE  /\ status # "" => up
                          /\ ready => /\ (told \/ Some(toTacky, {Frame("log", "prefs")}))'
                                      /\ Heard(reported)'
                                      /\ reported' = focused'
          BY <1>2, <1>7 DEF TellsAll
      <2>1. CASE ready /\ reported # focused
            <3>1. up
                  BY <1>1, <2>1 DEF TellsAll, ready, Ready
            <3>2. Ends(toTacky', Reports, Frame("app", focused))
                  BY <1>1, <1>2, <1>3, <2>1, <3>1, SendOne DEF f
            <3> QED BY <1>1, <1>2, <1>3, <1>4, <2>1, <3>1, <3>2 DEF TellsAll, Heard
      <2>2. CASE ~(ready /\ reported # focused)
            BY <1>1, <1>2, <2>2 DEF TellsAll, Heard
      <2> QED BY <2>1, <2>2
<1> QED BY <1>8, <1>9, <1>10, <1>11, <1>12 DEF Inv

-----------------------------------------------------------------------------
(* The invariant is kept: tacky's steps.                                    *)

\* Taking what has come for tacky.
LEMMA TakeNext ==
    ASSUME Typed, toTacky # <<>>, toTacky' = Tail(toTacky)
    PROVE  /\ toTacky' \in Seq(TackyFrames) /\ Head(toTacky) \in TackyFrames
           /\ \A P : Some(toTacky, P) <=> Head(toTacky) \in P \/ Some(toTacky', P)
           /\ \A P : Once(toTacky, P) => Once(toTacky', P) /\ (Head(toTacky) \in P => ~Some(toTacky', P))
           /\ \A P : Count(toTacky, P) \in Nat
           /\ \A P : Count(toTacky', P) =
                        IF Head(toTacky) \in P THEN Count(toTacky, P) - 1 ELSE Count(toTacky, P)
           /\ \A P, z : Ends(toTacky, P, z)
                 => Ends(toTacky', P, z) \/ (Head(toTacky) = z /\ ~Some(toTacky', P))
<1>1. toTacky \in Seq(TackyFrames) /\ \A P : Count(toTacky, P) \in Nat
      BY CountType DEF Typed, LinkTyped
<1> QED BY <1>1, OneLess

\* The step, whatever the frame was.
Takes ==
    /\ toTacky # <<>> /\ toTacky' = Tail(toTacky)
    /\ UNCHANGED <<status, armed, asking, busy, focused, settling, reported, up, spent>>

Same == UNCHANGED <<encrypted, pending, unlocked, open, told, heard, live, refused>>

\* One frame, and one of seven things done about it.
LEMMA WhatTackyDoes ==
    ASSUME Typed, TackyTakes
    PROVE  LET f == Head(toTacky)
           IN /\ Takes
              /\ \/ f \in Asks /\ Replies(<<Free(Status)>>) /\ Same
                 \/ f \in Actions /\ Replies(<<Frame("error", "action")>>) /\ Same
                 \/ /\ f \in Actions /\ Status = "locked" /\ unlocked' = TRUE /\ open' = (pending = "none")
                    /\ Replies(<<Frame("event", ""), Done>>)
                    /\ UNCHANGED <<encrypted, pending, told, heard, live, refused>>
                 \/ \E to \in BOOLEAN :
                       /\ f \in Migrations
                       /\ Status = IF to THEN "pending-encrypt" ELSE "pending-decrypt"
                       /\ encrypted' = to /\ unlocked' = to /\ pending' = "none" /\ open' = TRUE
                       /\ live' = (live \/ open)
                       /\ Replies(<<Frame("event", ""), Done>>) /\ UNCHANGED <<told, heard, refused>>
                 \/ \E mark \in {"encrypt", "decrypt"} :
                       /\ f = Frame("storage", IF mark = "encrypt" THEN "requestEncrypt" ELSE "requestDecrypt")
                       /\ pending' = mark /\ Replies(<<Done>>)
                       /\ UNCHANGED <<encrypted, unlocked, open, told, heard, live, refused>>
                 \/ /\ f = Frame("storage", "cancelPending")
                    /\ pending' = "none" /\ open' = TRUE /\ Replies(<<Done>>)
                    /\ UNCHANGED <<encrypted, unlocked, told, heard, live, refused>>
                 \/ /\ f \in Others /\ TakesOther(f) /\ UNCHANGED pending
<1> DEFINE f == Head(toTacky)
<1>1. Takes /\ f \in TackyFrames
      BY TakeNext DEF TackyTakes, Takes, ui, controller, focus
<1>2. CASE f \in Asks
      <2>1. f = Frame("storage", "status")
            BY <1>2 DEF Asks
      <2>2. f.kind = "storage" /\ f.what = "status"
            BY <2>1 DEF Frame
      <2>3. TakesStorage("status") /\ UNCHANGED refused
            BY <2>2 DEF TackyTakes
      <2>4. Replies(<<Free(Status)>>) /\ Same
            BY <2>3 DEF TakesStorage, Same, Free, Frame, disk, process
      <2> QED BY <1>1, <1>2, <2>4
<1>3. CASE f \in Actions
      <2>1. PICK m \in Methods : f = Frame("storage", m)
            BY <1>3 DEF Actions
      <2>2. f.kind = "storage" /\ f.what = m
            BY <2>1 DEF Frame
      <2>3. TakesStorage(m) /\ UNCHANGED refused
            BY <2>2 DEF TackyTakes
      <2>4. CASE Fails
            <3>1. Replies(<<Frame("error", "action")>>) /\ Same
                  BY <2>3, <2>4 DEF Fails, Same, disk, process
            <3> QED BY <1>1, <1>3, <3>1
      <2>5. CASE m = "unlock" /\ ~Fails
            <3>1. /\ Status = "locked" /\ unlocked' = TRUE /\ open' = (pending = "none")
                  /\ Replies(<<Frame("event", ""), Done>>)
                  /\ UNCHANGED <<encrypted, pending, told, heard, live, refused>>
                  BY <2>3, <2>5 DEF TakesStorage, TakesUnlock, disk
            <3> QED BY <1>1, <1>3, <3>1
      <2>6. CASE m \in {"encrypt", "decrypt"} /\ ~Fails
            <3>1. f \in Migrations
                  BY <2>1, <2>6 DEF Migrations
            <3>2. PICK to \in BOOLEAN : TakesMigration(to)
                  BY <2>3, <2>6 DEF TakesStorage
            <3>3. /\ Status = IF to THEN "pending-encrypt" ELSE "pending-decrypt"
                  /\ encrypted' = to /\ unlocked' = to /\ pending' = "none" /\ open' = TRUE
                  /\ live' = (live \/ open)
                  /\ Replies(<<Frame("event", ""), Done>>) /\ UNCHANGED <<told, heard, refused>>
                  BY <2>3, <2>6, <3>2 DEF TakesMigration
            <3> QED BY <1>1, <3>1, <3>3
      <2>7. CASE m \in {"requestEncrypt", "requestDecrypt"}
            <3>1. PICK mark \in {"encrypt", "decrypt"} :
                     /\ TakesMark(mark)
                     /\ m = IF mark = "encrypt" THEN "requestEncrypt" ELSE "requestDecrypt"
                  BY <2>3, <2>7 DEF TakesStorage
            <3>2. /\ pending' = mark /\ Replies(<<Done>>)
                  /\ UNCHANGED <<encrypted, unlocked, open, told, heard, live, refused>>
                  BY <2>3, <3>1 DEF TakesMark, process
            <3> QED BY <1>1, <2>1, <3>1, <3>2
      <2>8. CASE m = "cancelPending"
            <3>1. /\ pending' = "none" /\ open' = TRUE /\ Replies(<<Done>>)
                  /\ UNCHANGED <<encrypted, unlocked, told, heard, live, refused>>
                  BY <2>3, <2>8 DEF TakesStorage, TakesCancel
            <3> QED BY <1>1, <2>1, <2>8, <3>1
      <2> QED BY <2>4, <2>5, <2>6, <2>7, <2>8 DEF Methods
<1>4. CASE f \in Others
      <2>1. f.kind # "storage"
            BY <1>4 DEF Others, Reports, Frame
      <2>2. TakesOther(f)
            BY <2>1 DEF TackyTakes
      <2>3. UNCHANGED pending
            BY <2>2 DEF TakesOther, disk
      <2> QED BY <1>1, <1>4, <2>2, <2>3
<1> QED BY <1>1, <1>2, <1>3, <1>4 DEF TackyFrames

LEMMA NotReports == \A f \in Asks \cup Actions : \A x : f # Frame("app", x)
<1> SUFFICES ASSUME NEW f \in Asks \cup Actions, NEW x PROVE f # Frame("app", x)
    OBVIOUS
<1>1. PICK m : f = Frame("storage", m)
      BY DEF Asks, Actions
<1> QED BY <1>1 DEF Frame

\* An action is answered once, and what it moved is heard of.
LEMMA ActionTaken ==
    ASSUME Inv, Takes, Head(toTacky) \in Actions,
           \/ Replies(<<Frame("error", "action")>>) /\ Same
           \/ Replies(<<Done>>) \/ Replies(<<Frame("event", ""), Done>>)
    PROVE  /\ toUi' \in Seq(UiFrames) /\ toTacky' \in Seq(TackyFrames)
           /\ \A P : Some(toTacky', P) => Some(toTacky, P)
           /\ \A P : P \subseteq Actions => ~Some(toTacky', P)
           /\ \A P : P \subseteq Results => (Some(toUi', P) <=> Some(toUi, P))
           /\ \A P : P \subseteq Others => (Some(toTacky', P) <=> Some(toTacky, P))
           /\ \A x : Ends(toTacky, Reports, Frame("app", x))
                        => Ends(toTacky', Reports, Frame("app", x))
           /\ up /\ Counted' /\ Fresh' /\ OneAction'
<1> DEFINE f == Head(toTacky)
           e == Frame("error", "action")
           v == Frame("event", "")
<1>1. Typed /\ Counted /\ Fresh /\ OneAction
      BY DEF Inv
<1>2. /\ toTacky # <<>> /\ toTacky' = Tail(toTacky)
      /\ UNCHANGED <<status, armed, asking, busy, up, spent>>
      BY DEF Takes
<1>3. f \in Actions /\ f \notin Asks /\ f \notin Others /\ \A x : f # Frame("app", x)
      BY TackyKinds, NotReports
<1>4. /\ toTacky' \in Seq(TackyFrames)
      /\ \A P : Some(toTacky, P) <=> f \in P \/ Some(toTacky', P)
      /\ Once(toTacky', Actions) /\ ~Some(toTacky', Actions) /\ Some(toTacky, Actions)
      /\ Count(toTacky', Asks) = Count(toTacky, Asks)
      /\ \A x : Ends(toTacky, Reports, Frame("app", x)) => Ends(toTacky', Reports, Frame("app", x))
      <2>1. /\ toTacky' \in Seq(TackyFrames)
            /\ \A P : Some(toTacky, P) <=> f \in P \/ Some(toTacky', P)
            /\ Count(toTacky', Asks) = Count(toTacky, Asks)
            BY <1>1, <1>2, <1>3, TakeNext
      <2>2. Once(toTacky', Actions) /\ ~Some(toTacky', Actions)
            BY <1>1, <1>2, <1>3, TakeNext DEF OneAction
      <2>3. \A x : Ends(toTacky, Reports, Frame("app", x)) => Ends(toTacky', Reports, Frame("app", x))
            <3>1. \A P, z : Ends(toTacky, P, z) => Ends(toTacky', P, z) \/ f = z
                  BY <1>1, <1>2, TakeNext
            <3> QED BY <1>3, <3>1
      <2> QED BY <1>3, <2>1, <2>2, <2>3
<1>5. \A P : P \subseteq Actions => ~Some(toTacky', P)
      BY <1>4 DEF Some
<1>6. up
      BY <1>1, <1>2 DEF Counted
<1>7. ~Some(toUi, Answers) /\ busy
      BY <1>1, <1>4 DEF OneAction
<1>8. /\ e \in UiFrames /\ e \in Answers /\ e \notin Results /\ e \notin Stirs
      /\ v \in UiFrames /\ v \notin Answers /\ v \notin Results /\ v \in Stirs
      /\ Done \in UiFrames /\ Done \in Answers /\ Done \notin Results /\ Done \in Stirs
      BY UiKinds
<1> HIDE DEF f, e, v
<1>9. /\ toUi' \in Seq(UiFrames)
      /\ \A P : P \subseteq Results => (Some(toUi', P) <=> Some(toUi, P))
      /\ Once(toUi', Answers)
      /\ Count(toUi', Results) = Count(toUi, Results)
      /\ Some(toUi, Stirs) => Some(toUi', Stirs)
      /\ \A z : Ends(toUi, Results, z) => Ends(toUi', Results, z)
      /\ Some(toUi', Stirs) \/ Same
      <2>1. Once(toUi, Answers)
            BY <1>1 DEF OneAction
      <2>2. CASE Replies(<<e>>) /\ Same
            <3>1. \A P : P \subseteq Results => e \notin P
                  BY <1>8
            <3> QED BY <1>1, <1>7, <1>8, <2>1, <2>2, <3>1, ReplyOne
      <2>3. CASE Replies(<<Done>>)
            <3>1. \A P : P \subseteq Results => Done \notin P
                  BY <1>8
            <3> QED BY <1>1, <1>7, <1>8, <2>1, <2>3, <3>1, ReplyOne
      <2>4. CASE Replies(<<v, Done>>)
            <3>1. \A P : P \subseteq Results => Done \notin P /\ v \notin P
                  BY <1>8
            <3> QED BY <1>1, <1>7, <1>8, <2>1, <2>4, <3>1, ReplyTwo
      <2> QED BY <2>2, <2>3, <2>4 DEF e, v
<1>10. \A P : P \subseteq Others => (Some(toTacky', P) <=> Some(toTacky, P))
      BY <1>3, <1>4
<1>11. Counted'
      <2>1. asking' = Count(toTacky', Asks) + Count(toUi', Results)
            BY <1>1, <1>2, <1>4, <1>9 DEF Counted
      <2> QED BY <1>2, <1>6, <2>1 DEF Counted
<1>12. Fresh'
      <2>1. CASE Some(toUi', Stirs)
            BY <2>1 DEF Fresh
      <2>2. CASE Same
            <3>1. Status' = Status
                  BY <2>2 DEF Status, Same
            <3>2. Some(toTacky, Asks) => Some(toTacky', Asks)
                  BY <1>3, <1>4
            <3>3. Last(Status) => Last(Status)'
                  BY <1>9, <3>1 DEF Last
            <3> QED BY <1>1, <1>2, <1>9, <3>1, <3>2, <3>3 DEF Fresh
      <2> QED BY <1>9, <2>1, <2>2
<1>13. OneAction'
      BY <1>2, <1>4, <1>7, <1>9 DEF OneAction
<1> QED BY <1>4, <1>5, <1>6, <1>9, <1>10, <1>11, <1>12, <1>13

\* What tacky does keeps every variable in its type.
LEMMA TackyTyped ==
    ASSUME Typed, Takes, toTacky' \in Seq(TackyFrames), toUi' \in Seq(UiFrames),
           ProcessTyped', live' \in BOOLEAN, refused' \in BOOLEAN
    PROVE  Typed'
<1>1. UiTyped'
      BY DEF Typed, UiTyped, Takes
<1>2. LinkTyped'
      BY DEF Typed, LinkTyped, Takes
<1> QED BY <1>1, <1>2 DEF Typed

\* What it has heard is what it had, and what is under way to it still is.
LEMMA TellsStays ==
    ASSUME TellsAll, Takes, UNCHANGED <<told, heard>>,
           \A P : P \subseteq Others => (Some(toTacky', P) <=> Some(toTacky, P)),
           \A x : Ends(toTacky, Reports, Frame("app", x)) => Ends(toTacky', Reports, Frame("app", x))
    PROVE  TellsAll'
<1>1. /\ UNCHANGED <<status, armed, focused, settling, reported, up, spent>>
      /\ UNCHANGED <<told, heard>>
      BY DEF Takes
<1>2. ready' = ready
      BY <1>1 DEF ready
<1>3. /\ Some(toTacky', Reports) <=> Some(toTacky, Reports)
      /\ Some(toTacky', {Frame("log", "prefs")}) <=> Some(toTacky, {Frame("log", "prefs")})
      BY TackyKinds
<1>4. Heard(reported) => Heard(reported)'
      BY <1>1, <1>3 DEF Heard
<1>5. told \/ Some(toTacky, {Frame("log", "prefs")})
         => (told \/ Some(toTacky, {Frame("log", "prefs")}))'
      BY <1>1, <1>3
<1>6. ready => status # ""
      BY DEF ready, Ready
<1> QED BY <1>1, <1>2, <1>4, <1>5 DEF TellsAll

LEMMA FailKeeps ==
    ASSUME Inv, Takes, Head(toTacky) \in Actions, Replies(<<Frame("error", "action")>>), Same
    PROVE  Inv'
<1>1. Typed /\ TackyLives /\ Pended /\ TellsAll
      BY DEF Inv
<1>2. /\ UNCHANGED <<status, armed, busy, focused, settling, reported, up, spent>>
      /\ UNCHANGED <<encrypted, pending, unlocked, open, told, heard, live, refused>>
      BY DEF Takes, Same
<1>3. /\ toUi' \in Seq(UiFrames) /\ toTacky' \in Seq(TackyFrames)
      /\ \A P : Some(toTacky', P) => Some(toTacky, P)
      /\ \A P : P \subseteq Results => (Some(toUi', P) <=> Some(toUi, P))
      /\ \A P : P \subseteq Others => (Some(toTacky', P) <=> Some(toTacky, P))
      /\ \A x : Ends(toTacky, Reports, Frame("app", x)) => Ends(toTacky', Reports, Frame("app", x))
      /\ Counted' /\ Fresh' /\ OneAction'
      BY ActionTaken
<1>4. Typed'
      <2>1. ProcessTyped' /\ live' \in BOOLEAN /\ refused' \in BOOLEAN
            BY <1>1, <1>2 DEF Typed, ProcessTyped, LinkTyped
      <2> QED BY <1>1, <1>3, <2>1, TackyTyped
<1>5. TackyLives'
      <2> SUFFICES ASSUME spent.tacky = 0 PROVE (Disk /\ Opening /\ Sent /\ Locked)'
          BY <1>2 DEF TackyLives
      <2>1. Disk /\ Opening /\ Sent /\ Locked
            BY <1>1 DEF TackyLives
      <2>2. Disk'
            BY <1>2, <2>1 DEF Disk, Status, gating
      <2>3. \A s \in Statuses : Some(toUi', {Free(s)}) => Some(toUi, {Free(s)})
            BY <1>3, UiKinds
      <2>4. Opening'
            BY <1>2, <2>1, <2>3 DEF Opening, Agrees, Statuses
      <2>5. Sent'
            BY <1>2, <1>3, <2>1 DEF Sent
      <2>6. Locked'
            BY <1>2, <1>3, <2>1 DEF Locked
      <2> QED BY <2>2, <2>4, <2>5, <2>6
<1>6. Pended'
      BY <1>1, <1>2 DEF Pended, Together
<1>7. TellsAll'
      BY <1>1, <1>2, <1>3, TellsStays
<1> QED BY <1>3, <1>4, <1>5, <1>6, <1>7 DEF Inv

\* The right passphrase opens a store that nothing is waiting for, and no more.
LEMMA UnlockKeeps ==
    ASSUME Inv, Takes, Head(toTacky) \in Actions,
           Status = "locked", unlocked' = TRUE, open' = (pending = "none"),
           Replies(<<Frame("event", ""), Done>>),
           UNCHANGED <<encrypted, pending, told, heard, live, refused>>
    PROVE  Inv'
<1>1. Typed /\ TackyLives /\ Pended /\ TellsAll
      BY DEF Inv
<1>2. UNCHANGED <<status, armed, busy, focused, settling, reported, up, spent>>
      BY DEF Takes
<1>3. /\ toUi' \in Seq(UiFrames) /\ toTacky' \in Seq(TackyFrames)
      /\ \A P : Some(toTacky', P) => Some(toTacky, P)
      /\ \A P : P \subseteq Results => (Some(toUi', P) <=> Some(toUi, P))
      /\ \A P : P \subseteq Others => (Some(toTacky', P) <=> Some(toTacky, P))
      /\ \A x : Ends(toTacky, Reports, Frame("app", x)) => Ends(toTacky', Reports, Frame("app", x))
      /\ Counted' /\ Fresh' /\ OneAction'
      BY ActionTaken
<1>4. Typed'
      <2>1. ProcessTyped' /\ live' \in BOOLEAN /\ refused' \in BOOLEAN
            BY <1>1 DEF Typed, ProcessTyped, LinkTyped
      <2> QED BY <1>1, <1>3, <2>1, TackyTyped
<1>5. encrypted /\ ~unlocked
      BY <1>1 DEF Status, Typed, ProcessTyped
<1>6. TackyLives'
      <2> SUFFICES ASSUME spent.tacky = 0 PROVE (Disk /\ Opening /\ Sent /\ Locked)'
          BY <1>2 DEF TackyLives
      <2>1. Disk /\ Opening /\ Sent /\ Locked
            BY <1>1 DEF TackyLives
      <2>2. ~open /\ armed
            BY <1>5, <2>1 DEF Disk, Opening
      <2>3. pending \in {"none", "decrypt"}
            BY <1>1, <1>5, <2>1 DEF Disk, Typed, ProcessTyped
      <2>4. Disk'
            BY <1>5, <2>3 DEF Disk, Status, gating
      <2>5. \A s \in {"plaintext", "unlocked"} : ~Some(toUi', {Free(s)})
            <3>1. \A s \in {"plaintext", "unlocked"} : s \in Statuses
                  BY DEF Statuses
            <3> QED BY <1>3, <2>1, <2>2, <3>1, UiKinds DEF Opening
      <2>6. Opening'
            BY <1>2, <2>1, <2>2, <2>5 DEF Opening
      <2>7. Sent'
            <3>1. \A m \in {"requestEncrypt", "requestDecrypt"} : ~Some(toTacky', {Frame("storage", m)})
                  <4>1. \A m \in {"requestEncrypt", "requestDecrypt"} : Frame("storage", m) \in Marks
                        BY DEF Marks
                  <4> QED BY <1>3, <2>1, <2>2, <4>1 DEF Sent, Some
            <3> QED BY <1>2, <1>3, <2>1, <2>2, <3>1 DEF Sent
      <2>8. Locked'
            BY DEF Locked
      <2> QED BY <2>4, <2>6, <2>7, <2>8
<1>7. Pended'
      BY <1>1, <1>2 DEF Pended, Together
<1>8. TellsAll'
      BY <1>1, <1>3, TellsStays
<1> QED BY <1>3, <1>4, <1>6, <1>7, <1>8 DEF Inv

\* A migration runs behind a gate that stands, with nothing let past it.
LEMMA MigrationKeeps ==
    ASSUME Inv, Takes, Head(toTacky) \in Migrations, NEW to \in BOOLEAN,
           Status = IF to THEN "pending-encrypt" ELSE "pending-decrypt",
           encrypted' = to, unlocked' = to, pending' = "none", open' = TRUE,
           live' = (live \/ open), Replies(<<Frame("event", ""), Done>>),
           UNCHANGED <<told, heard, refused>>
    PROVE  Inv'
<1>1. Typed /\ TackyLives /\ Pended /\ TellsAll
      BY DEF Inv
<1>2. UNCHANGED <<status, armed, busy, focused, settling, reported, up, spent>>
      BY DEF Takes
<1>3. /\ toUi' \in Seq(UiFrames) /\ toTacky' \in Seq(TackyFrames)
      /\ \A P : Some(toTacky', P) => Some(toTacky, P)
      /\ \A P : P \subseteq Results => (Some(toUi', P) <=> Some(toUi, P))
      /\ \A P : P \subseteq Others => (Some(toTacky', P) <=> Some(toTacky, P))
      /\ \A x : Ends(toTacky, Reports, Frame("app", x)) => Ends(toTacky', Reports, Frame("app", x))
      /\ Counted' /\ Fresh' /\ OneAction'
      BY ActionTaken, TackyKinds
<1>4. Typed'
      <2>1. ProcessTyped' /\ live' \in BOOLEAN /\ refused' \in BOOLEAN
            BY <1>1 DEF Typed, ProcessTyped, LinkTyped
      <2> QED BY <1>1, <1>3, <2>1, TackyTyped
<1>5. pending # "none"
      BY <1>1 DEF Status, Typed, ProcessTyped
<1>6. Some(toTacky, Migrations)
      BY <1>1, TakeNext DEF Takes
\* Nobody was let past the gate: such an app sends a migration only of the kind it
\* marked, and nothing was marked when the gate was opened.
<1>7. spent.tacky = 0 => armed
      BY <1>1, <1>5, <1>6 DEF TackyLives, Sent
<1>8. TackyLives'
      <2> SUFFICES ASSUME spent.tacky = 0 PROVE (Disk /\ Opening /\ Sent /\ Locked)'
          BY <1>2 DEF TackyLives
      <2>1. Disk /\ Opening /\ Sent /\ Locked /\ armed
            BY <1>1, <1>7 DEF TackyLives
      <2>2. Disk'
            BY DEF Disk, Status, gating
      <2>3. \A s \in {"plaintext", "unlocked"} : ~Some(toUi', {Free(s)})
            <3>1. \A s \in {"plaintext", "unlocked"} : s \in Statuses
                  BY DEF Statuses
            <3> QED BY <1>3, <1>5, <2>1, <3>1, UiKinds DEF Opening
      <2>4. Opening'
            BY <1>2, <2>1, <2>3 DEF Opening
      <2>5. Sent'
            <3>1. \A m \in {"requestEncrypt", "requestDecrypt"} : ~Some(toTacky', {Frame("storage", m)})
                  <4>1. \A m \in {"requestEncrypt", "requestDecrypt"} : Frame("storage", m) \in Marks
                        BY DEF Marks
                  <4> QED BY <1>3, <2>1, <4>1 DEF Sent, Some
            <3> QED BY <1>2, <1>3, <2>1, <3>1 DEF Sent
      <2>6. Locked'
            BY DEF Locked
      <2> QED BY <2>2, <2>4, <2>5, <2>6
\* Nor was it asked for in an app that was open.
<1>9. Pended'
      <2> SUFFICES ASSUME Together PROVE pending' = "none" /\ ~live'
          BY <1>2 DEF Pended, Together
      <2>1. armed /\ ~live /\ (armed /\ open => pending = "none")
            BY <1>1, <1>7 DEF Pended, Together
      <2> QED BY <1>5, <2>1
<1>10. TellsAll'
      BY <1>1, <1>3, TellsStays
<1> QED BY <1>3, <1>4, <1>8, <1>9, <1>10 DEF Inv

\* A mark is left by an app that has been let in, of a store it can read.
LEMMA MarkKeeps ==
    ASSUME Inv, Takes, NEW mark \in {"encrypt", "decrypt"},
           Head(toTacky) = Frame("storage", IF mark = "encrypt" THEN "requestEncrypt" ELSE "requestDecrypt"),
           pending' = mark, Replies(<<Done>>),
           UNCHANGED <<encrypted, unlocked, open, told, heard, live, refused>>
    PROVE  Inv'
<1> DEFINE f == Head(toTacky)
           m == IF mark = "encrypt" THEN "requestEncrypt" ELSE "requestDecrypt"
<1>1. Typed /\ TackyLives /\ Pended /\ TellsAll
      BY DEF Inv
<1>2. UNCHANGED <<status, armed, busy, focused, settling, reported, up, spent>>
      BY DEF Takes
<1>3. f \in Marks /\ f \in Actions /\ f = Frame("storage", m)
      BY TackyKinds DEF Marks
<1>4. /\ toUi' \in Seq(UiFrames) /\ toTacky' \in Seq(TackyFrames)
      /\ \A P : Some(toTacky', P) => Some(toTacky, P)
      /\ \A P : P \subseteq Actions => ~Some(toTacky', P)
      /\ \A P : P \subseteq Results => (Some(toUi', P) <=> Some(toUi, P))
      /\ \A P : P \subseteq Others => (Some(toTacky', P) <=> Some(toTacky, P))
      /\ \A x : Ends(toTacky, Reports, Frame("app", x)) => Ends(toTacky', Reports, Frame("app", x))
      /\ Counted' /\ Fresh' /\ OneAction'
      BY <1>3, ActionTaken
<1>5. Typed'
      <2>1. ProcessTyped' /\ live' \in BOOLEAN /\ refused' \in BOOLEAN
            BY <1>1 DEF Typed, ProcessTyped, LinkTyped
      <2> QED BY <1>1, <1>4, <2>1, TackyTyped
<1>6. Some(toTacky, Marks) /\ Some(toTacky, {f})
      BY <1>1, <1>3, TakeNext DEF Takes
<1>7. spent.tacky = 0 => /\ ~armed /\ open
                         /\ mark = "encrypt" => ~encrypted
                         /\ mark = "decrypt" => encrypted /\ unlocked
      BY <1>1, <1>3, <1>6 DEF TackyLives, Sent, Opening
<1>8. TackyLives'
      <2> SUFFICES ASSUME spent.tacky = 0 PROVE (Disk /\ Opening /\ Sent /\ Locked)'
          BY <1>2 DEF TackyLives
      <2>1. Disk /\ Opening /\ Sent /\ Locked
            BY <1>1 DEF TackyLives
      <2>2. Disk'
            BY <1>7, <2>1 DEF Disk
      <2>3. \A s \in Statuses : Some(toUi', {Free(s)}) => Some(toUi, {Free(s)})
            BY <1>4, UiKinds
      <2>4. Opening'
            BY <1>2, <1>7, <2>1, <2>3 DEF Opening, Agrees, Statuses
      <2>5. Sent'
            <3>1. ~Some(toTacky', Migrations)
                  BY <1>4, TackyKinds
            <3> QED BY <1>2, <1>4, <1>7, <2>1, <3>1 DEF Sent
      <2>6. Locked'
            BY <1>2, <1>4, <2>1 DEF Locked
      <2> QED BY <2>2, <2>4, <2>5, <2>6
<1>9. Pended'
      <2>1. Together => ~armed
            BY <1>7 DEF Together
      <2> QED BY <1>1, <1>2, <2>1 DEF Pended, Together
<1>10. TellsAll'
      BY <1>1, <1>4, TellsStays
<1> QED BY <1>4, <1>5, <1>8, <1>9, <1>10 DEF Inv

\* Whoever takes a mark back has seen past the lock, so what opens was readable.
LEMMA CancelKeeps ==
    ASSUME Inv, Takes, Head(toTacky) = Frame("storage", "cancelPending"),
           pending' = "none", open' = TRUE, Replies(<<Done>>),
           UNCHANGED <<encrypted, unlocked, told, heard, live, refused>>
    PROVE  Inv'
<1> DEFINE f == Head(toTacky)
<1>1. Typed /\ TackyLives /\ Pended /\ TellsAll
      BY DEF Inv
<1>2. UNCHANGED <<status, armed, busy, focused, settling, reported, up, spent>>
      BY DEF Takes
<1>3. f \in Actions /\ f \in {Frame("storage", "cancelPending")}
      BY TackyKinds
<1>4. /\ toUi' \in Seq(UiFrames) /\ toTacky' \in Seq(TackyFrames)
      /\ \A P : Some(toTacky', P) => Some(toTacky, P)
      /\ \A P : P \subseteq Results => (Some(toUi', P) <=> Some(toUi, P))
      /\ \A P : P \subseteq Others => (Some(toTacky', P) <=> Some(toTacky, P))
      /\ \A x : Ends(toTacky, Reports, Frame("app", x)) => Ends(toTacky', Reports, Frame("app", x))
      /\ Counted' /\ Fresh' /\ OneAction'
      BY <1>3, ActionTaken
<1>5. Typed'
      <2>1. ProcessTyped' /\ live' \in BOOLEAN /\ refused' \in BOOLEAN
            BY <1>1 DEF Typed, ProcessTyped, LinkTyped
      <2> QED BY <1>1, <1>4, <2>1, TackyTyped
<1>6. Some(toTacky, {Frame("storage", "cancelPending")})
      BY <1>1, <1>3, TakeNext DEF Takes
<1>7. spent.tacky = 0 => ~(encrypted /\ ~unlocked)
      BY <1>1, <1>6 DEF TackyLives, Locked
<1>8. TackyLives'
      <2> SUFFICES ASSUME spent.tacky = 0 PROVE (Disk /\ Opening /\ Sent /\ Locked)'
          BY <1>2 DEF TackyLives
      <2>1. Disk /\ Opening /\ Sent /\ Locked
            BY <1>1 DEF TackyLives
      <2>2. Disk'
            BY <1>7, <2>1 DEF Disk
      <2>3. \A s \in Statuses : Some(toUi', {Free(s)}) => Some(toUi, {Free(s)})
            BY <1>4, UiKinds
      <2>4. Opening'
            BY <1>2, <2>1, <2>3 DEF Opening, Agrees, Statuses
      <2>5. Sent'
            BY <1>2, <1>4, <2>1 DEF Sent
      <2>6. Locked'
            BY <1>7 DEF Locked
      <2> QED BY <2>2, <2>4, <2>5, <2>6
<1>9. Pended'
      BY <1>1, <1>2 DEF Pended, Together
<1>10. TellsAll'
      BY <1>1, <1>4, TellsStays
<1> QED BY <1>4, <1>5, <1>8, <1>9, <1>10 DEF Inv

\* The status as it is when it is asked for.
LEMMA AskKeeps ==
    ASSUME Inv, Takes, Head(toTacky) \in Asks, Replies(<<Free(Status)>>), Same
    PROVE  Inv'
<1> DEFINE f == Head(toTacky)
           g == Free(Status)
<1>1. Typed /\ Counted /\ OneAction /\ TackyLives /\ Pended /\ TellsAll
      BY DEF Inv
<1>2. /\ UNCHANGED <<status, armed, asking, busy, focused, settling, reported, up, spent>>
      /\ UNCHANGED <<encrypted, pending, unlocked, open, told, heard, live, refused>>
      /\ toTacky # <<>> /\ toTacky' = Tail(toTacky)
      BY DEF Takes, Same
<1>3. f \in Asks /\ f \notin Actions /\ f \notin Others
      BY TackyKinds
<1>4. g \in Results /\ g \in UiFrames /\ g \notin Answers /\ g \notin Stirs /\ Status \in Statuses
      BY <1>1, StatusType, UiKinds
<1>5. Status' = Status
      BY <1>2 DEF Status
<1> HIDE DEF f, g
<1>6. /\ toTacky' \in Seq(TackyFrames)
      /\ \A P : Some(toTacky, P) <=> f \in P \/ Some(toTacky', P)
      /\ Count(toTacky, Asks) \in Nat /\ Count(toTacky', Asks) = Count(toTacky, Asks) - 1
      /\ Once(toTacky, Actions) => Once(toTacky', Actions)
      BY <1>1, <1>2, <1>3, TakeNext DEF f
<1>7. \A x : Ends(toTacky, Reports, Frame("app", x)) => Ends(toTacky', Reports, Frame("app", x))
      <2>1. \A P, z : Ends(toTacky, P, z) => Ends(toTacky', P, z) \/ f = z
            BY <1>1, <1>2, TakeNext DEF f
      <2> QED BY <1>3, <2>1, NotReports
<1>8. /\ toUi' \in Seq(UiFrames)
      /\ \A P : Some(toUi', P) <=> Some(toUi, P) \/ g \in P
      /\ Count(toUi, Results) \in Nat /\ Count(toUi', Results) = Count(toUi, Results) + 1
      /\ Once(toUi, Answers) => Once(toUi', Answers)
      /\ Ends(toUi', Results, g)
      BY <1>1, <1>4, ReplyOne DEF g
<1>9. Typed'
      <2>1. ProcessTyped' /\ live' \in BOOLEAN /\ refused' \in BOOLEAN
            BY <1>1, <1>2 DEF Typed, ProcessTyped, LinkTyped
      <2> QED BY <1>1, <1>6, <1>8, <2>1, TackyTyped
<1>10. Counted'
      <2>1. up
            BY <1>1, <1>2 DEF Counted
      <2>2. asking' = Count(toTacky', Asks) + Count(toUi', Results)
            BY <1>1, <1>2, <1>6, <1>8 DEF Counted
      <2> QED BY <1>2, <2>1, <2>2 DEF Counted
<1>11. Fresh'
      BY <1>5, <1>8 DEF Fresh, Last, g, Free
<1>12. OneAction'
      BY <1>1, <1>2, <1>3, <1>4, <1>6, <1>8 DEF OneAction
<1>13. TackyLives'
      <2> SUFFICES ASSUME spent.tacky = 0 PROVE (Disk /\ Opening /\ Sent /\ Locked)'
          BY <1>2 DEF TackyLives
      <2>1. Disk /\ Opening /\ Sent /\ Locked
            BY <1>1 DEF TackyLives
      <2>2. Disk'
            BY <1>2, <1>5, <2>1 DEF Disk
      <2>3. \A r \in {"plaintext", "unlocked"} : Status = r
               => open /\ Agrees(r) /\ pending = "none"
            BY <1>1, <2>1 DEF Status, Disk, gating, Agrees, Typed, ProcessTyped
      <2>4. \A r \in Statuses : g = Free(r) => r = Status
            BY DEF g, Free, Frame
      <2>5. \A r \in {"plaintext", "unlocked"} : Agrees(r)' = Agrees(r)
            BY <1>2 DEF Agrees
      <2>6. \A r \in {"plaintext", "unlocked"} : Some(toUi', {Free(r)})
               => open' /\ Agrees(r)' /\ (armed' => pending' = "none")
            <3>1. \A r \in {"plaintext", "unlocked"} : r \in Statuses
                  BY DEF Statuses
            <3> QED BY <1>2, <1>8, <2>1, <2>3, <2>4, <2>5, <3>1 DEF Opening
      <2>7. Opening'
            BY <1>2, <2>1, <2>5, <2>6 DEF Opening
      <2>8. Sent'
            BY <1>2, <1>6, <2>1 DEF Sent
      <2>9. Locked'
            <3>1. encrypted /\ ~unlocked => g = Free("locked")
                  BY DEF Status, g
            <3> QED BY <1>2, <1>6, <1>8, <2>1, <3>1 DEF Locked
      <2> QED BY <2>2, <2>7, <2>8, <2>9
<1>14. Pended'
      BY <1>1, <1>2 DEF Pended, Together
<1>15. TellsAll'
      <2>1. \A P : P \subseteq Others => (Some(toTacky', P) <=> Some(toTacky, P))
            BY <1>3, <1>6
      <2> QED BY <1>1, <1>2, <1>7, <2>1, TellsStays
<1> QED BY <1>9, <1>10, <1>11, <1>12, <1>13, <1>14, <1>15 DEF Inv

\* Another module's method, which an open tacky takes.
LEMMA OtherKeeps ==
    ASSUME Inv, Takes, Head(toTacky) \in Others, TakesOther(Head(toTacky)), UNCHANGED pending
    PROVE  Inv'
<1> DEFINE f == Head(toTacky)
<1>1. Typed /\ Counted /\ Fresh /\ OneAction /\ TackyLives /\ Pended /\ TellsAll
      BY DEF Inv
<1>2. /\ UNCHANGED <<status, armed, asking, busy, focused, settling, reported, up, spent>>
      /\ UNCHANGED <<encrypted, pending, unlocked, open, toUi, live>>
      /\ toTacky # <<>> /\ toTacky' = Tail(toTacky)
      BY DEF Takes, TakesOther, disk
<1>3. /\ refused' = (refused \/ ~open)
      /\ told' = (told \/ (open /\ f.kind = "log"))
      /\ heard' = IF open /\ f.kind = "app" THEN f.what ELSE heard
      BY DEF TakesOther
<1>4. /\ f \in Others /\ f \notin Asks /\ f \notin Actions /\ f \notin Marks /\ f \notin Migrations
      /\ \/ f = Frame("log", "prefs") /\ f.kind = "log" /\ f \notin Reports
         \/ f \in Reports /\ f.kind = "app" /\ f.what \in {"on", "off"} /\ f # Frame("log", "prefs")
      <2>1. f \notin Asks /\ f \notin Actions /\ f \notin Marks /\ f \notin Migrations
            BY TackyKinds
      <2>2. CASE f = Frame("log", "prefs")
            <3>1. f.kind = "log"
                  BY <2>2 DEF Frame
            <3> QED BY <2>1, <2>2, <3>1, TackyKinds
      <2>3. CASE f \in Reports
            <3>1. f.kind = "app" /\ f.what \in {"on", "off"}
                  BY <2>3 DEF Reports, Frame
            <3> QED BY <2>1, <2>3, <3>1, TackyKinds
      <2> QED BY <2>2, <2>3 DEF Others
<1>5. Status' = Status /\ ready' = ready
      BY <1>2 DEF Status, ready
<1> HIDE DEF f
<1>6. /\ toTacky' \in Seq(TackyFrames)
      /\ \A P : Some(toTacky, P) <=> f \in P \/ Some(toTacky', P)
      /\ Count(toTacky', Asks) = Count(toTacky, Asks)
      /\ Once(toTacky, Actions) => Once(toTacky', Actions)
      BY <1>1, <1>2, <1>4, TakeNext DEF f
<1>7. \A P, z : Ends(toTacky, P, z)
         => Ends(toTacky', P, z) \/ (f = z /\ ~Some(toTacky', P))
      BY <1>1, <1>2, TakeNext DEF f
<1>8. Typed'
      <2>1. ProcessTyped' /\ live' \in BOOLEAN /\ refused' \in BOOLEAN
            <3>1. told' \in BOOLEAN /\ refused' \in BOOLEAN
                  BY <1>1, <1>3 DEF Typed, ProcessTyped, LinkTyped
            <3>2. heard' \in {"none", "on", "off"}
                  BY <1>1, <1>3, <1>4 DEF Typed, ProcessTyped
            <3> QED BY <1>1, <1>2, <3>1, <3>2 DEF Typed, ProcessTyped, LinkTyped
      <2>2. toUi' \in Seq(UiFrames)
            BY <1>1, <1>2 DEF Typed, LinkTyped
      <2> QED BY <1>1, <1>6, <2>1, <2>2, TackyTyped
<1>9. Counted'
      BY <1>1, <1>2, <1>6 DEF Counted
<1>10. Fresh'
      BY <1>1, <1>2, <1>4, <1>5, <1>6 DEF Fresh, Last
<1>11. OneAction'
      BY <1>1, <1>2, <1>4, <1>6 DEF OneAction
<1>12. spent.tacky = 0 => open
      BY <1>1, <1>4, <1>6 DEF TackyLives, Sent
<1>13. TackyLives'
      <2> SUFFICES ASSUME spent.tacky = 0 PROVE (Disk /\ Opening /\ Sent /\ Locked)'
          BY <1>2 DEF TackyLives
      <2>1. Disk /\ Opening /\ Sent /\ Locked
            BY <1>1 DEF TackyLives
      <2>2. Disk' /\ Opening'
            BY <1>2, <1>5, <2>1 DEF Disk, Opening, Agrees
      <2>3. Sent'
            BY <1>2, <1>3, <1>6, <1>12, <2>1 DEF Sent
      <2>4. Locked'
            BY <1>2, <1>6, <2>1 DEF Locked
      <2> QED BY <2>2, <2>3, <2>4
<1>14. Pended'
      BY <1>1, <1>2 DEF Pended, Together
<1>15. TellsAll'
      <2> SUFFICES ASSUME spent.drop = 0, spent.tacky = 0, ready
                   PROVE  /\ (told \/ Some(toTacky, {Frame("log", "prefs")}))'
                          /\ Heard(reported)'
          BY <1>1, <1>2, <1>5 DEF TellsAll
      <2>1. /\ told \/ Some(toTacky, {Frame("log", "prefs")})
            /\ Heard(reported)
            BY <1>1 DEF TellsAll
      <2>2. (told \/ Some(toTacky, {Frame("log", "prefs")}))'
            BY <1>3, <1>4, <1>6, <1>12, <2>1
      <2>3. Heard(reported)'
            <3>1. CASE Ends(toTacky, Reports, Frame("app", reported))
                  <4>1. CASE f = Frame("app", reported) /\ ~Some(toTacky', Reports)
                        <5>1. f.kind = "app" /\ f.what = reported
                              BY <4>1 DEF Frame
                        <5> QED BY <1>2, <1>3, <1>12, <4>1, <5>1 DEF Heard
                  <4>2. CASE Ends(toTacky', Reports, Frame("app", reported))
                        BY <1>2, <4>2 DEF Heard
                  <4> QED BY <1>7, <3>1, <4>1, <4>2
            <3>2. CASE heard = reported /\ ~Some(toTacky, Reports)
                  <4>1. f.kind # "app"
                        BY <1>4, <1>6, <3>2
                  <4> QED BY <1>2, <1>3, <1>6, <3>2, <4>1 DEF Heard
            <3> QED BY <2>1, <3>1, <3>2 DEF Heard
      <2> QED BY <2>2, <2>3
<1> QED BY <1>8, <1>9, <1>10, <1>11, <1>13, <1>14, <1>15 DEF Inv

LEMMA TackyKeeps == Inv /\ TackyTakes => Inv'
<1> SUFFICES ASSUME Inv, TackyTakes PROVE Inv'
    OBVIOUS
<1>1. Typed
      BY DEF Inv
<1> QED BY <1>1, WhatTackyDoes, AskKeeps, FailKeeps, UnlockKeeps, MigrationKeeps, MarkKeeps,
           CancelKeeps, OtherKeeps, TackyKinds

-----------------------------------------------------------------------------
(* The invariant is kept: launches, deaths and the link.                    *)

\* A queue that was emptied holds nothing.
LEMMA Emptied ==
    /\ <<>> \in Seq(TackyFrames) /\ <<>> \in Seq(UiFrames)
    /\ \A P : ~Some(<<>>, P) /\ Once(<<>>, P) /\ Count(<<>>, P) = 0
BY NoItem

\* A UI that has just been made knows nothing and holds nothing.
LEMMA NewUiKeeps ==
    ASSUME NewUi, LinkLost, toUi' = <<>>
    PROVE  /\ Counted' /\ Fresh' /\ OneAction' /\ TellsAll'
           /\ UiTyped' /\ toTacky' \in Seq(TackyFrames) /\ toUi' \in Seq(UiFrames) /\ up' = FALSE
           /\ Disk' => Opening' /\ (~refused' => Sent') /\ Locked'
<1>1. /\ status' = "" /\ armed' = TRUE /\ asking' = 0 /\ busy' = FALSE
      /\ settling' = FALSE /\ reported' = "none" /\ focused' = "on"
      /\ up' = FALSE /\ toTacky' = <<>> /\ toUi' = <<>>
      BY DEF NewUi, LinkLost
<1>2. Counted' /\ Fresh' /\ OneAction'
      <2>1. /\ \A P : ~Some(toTacky', P) /\ Once(toTacky', P) /\ Count(toTacky', P) = 0
            /\ \A P : ~Some(toUi', P) /\ Once(toUi', P) /\ Count(toUi', P) = 0
            BY <1>1, Emptied
      <2>2. asking' = Count(toTacky', Asks) + Count(toUi', Results)
            <3>1. asking' = 0 /\ Count(toTacky', Asks) = 0 /\ Count(toUi', Results) = 0
                  BY <1>1, <2>1
            <3> QED BY <3>1
      <2>3. Counted'
            BY <1>1, <2>1, <2>2 DEF Counted
      <2>4. Fresh'
            BY <1>1 DEF Fresh
      <2>5. OneAction'
            BY <2>1 DEF OneAction
      <2> QED BY <2>3, <2>4, <2>5
<1>3. TellsAll'
      BY <1>1 DEF TellsAll, ready, Ready
<1>4. UiTyped'
      BY <1>1 DEF UiTyped
<1>5. Opening' /\ (~refused' => Sent') /\ Locked'
      BY <1>1, Emptied DEF Opening, Sent, Locked
<1> QED BY <1>1, <1>2, <1>3, <1>4, <1>5, Emptied

\* What is spent of a bound is counted.
LEMMA SpendType ==
    ASSUME Typed, NEW what \in {"run", "drop", "ui", "tacky", "focus"}, Spend(what)
    PROVE  /\ spent' \in [DOMAIN Bounds -> Nat] /\ spent'[what] # 0
           /\ \A k \in {"run", "drop", "ui", "tacky", "focus"} \ {what} : spent'[k] = spent[k]
BY DEF Typed, LinkTyped, Spend, Bounds

LEMMA LaunchKeeps == Inv /\ Launch => Inv'
<1> SUFFICES ASSUME Inv, Launch PROVE Inv'
    OBVIOUS
<1>1. Typed /\ TackyLives /\ Pended
      BY DEF Inv
<1>2. /\ NewUi /\ LinkLost /\ toUi' = <<>> /\ UNCHANGED <<encrypted, pending, refused, live>>
      /\ unlocked' = FALSE /\ told' = FALSE /\ heard' = "none"
      /\ open' = (~encrypted /\ pending # "encrypt")
      BY DEF Launch, NewTacky, disk, history
<1>3. /\ spent' \in [DOMAIN Bounds -> Nat]
      /\ spent'["tacky"] = spent["tacky"] /\ spent'["ui"] = spent["ui"]
      BY <1>1, SpendType DEF Launch
<1>4. /\ Counted' /\ Fresh' /\ OneAction' /\ TellsAll'
      /\ UiTyped' /\ toTacky' \in Seq(TackyFrames) /\ toUi' \in Seq(UiFrames) /\ up' = FALSE
      /\ Disk' => Opening' /\ (~refused' => Sent') /\ Locked'
      BY <1>2, NewUiKeeps
<1>5. Typed'
      <2>1. ProcessTyped'
            BY <1>1, <1>2 DEF Typed, ProcessTyped
      <2>2. LinkTyped'
            BY <1>1, <1>2, <1>3, <1>4 DEF Typed, LinkTyped
      <2> QED BY <1>4, <2>1, <2>2 DEF Typed
<1>6. TackyLives'
      <2> SUFFICES ASSUME spent.tacky = 0 PROVE (Disk /\ Opening /\ Sent /\ Locked)'
          BY <1>3 DEF TackyLives
      <2>1. Disk /\ ~refused
            BY <1>1 DEF TackyLives, Sent
      <2>2. Disk'
            BY <1>1, <1>2, <2>1 DEF Disk, Status, gating, Typed, ProcessTyped
      <2> QED BY <1>2, <1>4, <2>1, <2>2
<1>7. Pended'
      <2> SUFFICES ASSUME Together PROVE (open' => pending' = "none") /\ ~live'
          BY <1>3 DEF Pended, Together
      <2>1. Disk
            BY <1>1 DEF TackyLives, Together
      <2> QED BY <1>1, <1>2, <2>1 DEF Pended, Disk, Typed, ProcessTyped
<1> QED BY <1>4, <1>5, <1>6, <1>7 DEF Inv

LEMMA UiDiesKeeps == Inv /\ UiDies => Inv'
<1> SUFFICES ASSUME Inv, UiDies PROVE Inv'
    OBVIOUS
<1>1. Typed /\ TackyLives
      BY DEF Inv
<1>2. /\ NewUi /\ LinkLost /\ toUi' = <<>>
      /\ UNCHANGED <<encrypted, pending, unlocked, open, told, heard, refused, live>>
      BY DEF UiDies, disk, process, history
<1>3. /\ spent' \in [DOMAIN Bounds -> Nat] /\ spent'["ui"] # 0
      /\ spent'["tacky"] = spent["tacky"]
      BY <1>1, SpendType DEF UiDies
<1>4. /\ Counted' /\ Fresh' /\ OneAction' /\ TellsAll'
      /\ UiTyped' /\ toTacky' \in Seq(TackyFrames) /\ toUi' \in Seq(UiFrames) /\ up' = FALSE
      /\ Disk' => Opening' /\ (~refused' => Sent') /\ Locked'
      BY <1>2, NewUiKeeps
<1>5. Typed'
      <2>1. ProcessTyped'
            BY <1>1, <1>2 DEF Typed, ProcessTyped
      <2>2. LinkTyped'
            BY <1>1, <1>2, <1>3, <1>4 DEF Typed, LinkTyped
      <2> QED BY <1>4, <2>1, <2>2 DEF Typed
<1>6. TackyLives'
      <2> SUFFICES ASSUME spent.tacky = 0 PROVE (Disk /\ Opening /\ Sent /\ Locked)'
          BY <1>3 DEF TackyLives
      <2>1. Disk /\ ~refused
            BY <1>1 DEF TackyLives, Sent
      <2>2. Disk'
            BY <1>2, <2>1 DEF Disk, Status, gating
      <2> QED BY <1>2, <1>4, <2>1, <2>2
<1>7. Pended'
      BY <1>3 DEF Pended, Together
<1> QED BY <1>4, <1>5, <1>6, <1>7 DEF Inv

\* A link that drops takes with it what was under way.
LEMMA DroppedKeeps ==
    ASSUME Typed, Dropped
    PROVE  /\ Counted' /\ Fresh' /\ OneAction'
           /\ UiTyped' /\ toTacky' \in Seq(TackyFrames) /\ toUi' \in Seq(UiFrames) /\ up' = FALSE
           /\ UNCHANGED <<status, armed>> /\ \A P : ~Some(toTacky', P) /\ ~Some(toUi', P)
<1>1. /\ up' = FALSE /\ toTacky' = <<>> /\ toUi' = <<>> /\ asking' = 0 /\ busy' = FALSE
      /\ UNCHANGED <<status, armed, focused, settling, reported>>
      BY DEF Dropped, LinkLost, focus
<1>2. Counted' /\ Fresh' /\ OneAction'
      BY <1>1, Emptied DEF Counted, Fresh, OneAction
<1>3. UiTyped'
      BY <1>1 DEF Typed, UiTyped
<1> QED BY <1>1, <1>2, <1>3, Emptied

LEMMA DropKeeps == Inv /\ Drop => Inv'
<1> SUFFICES ASSUME Inv, Drop PROVE Inv'
    OBVIOUS
<1>1. Typed /\ TackyLives /\ Pended
      BY DEF Inv
<1>2. /\ Dropped
      /\ UNCHANGED <<encrypted, pending, unlocked, open, told, heard, refused, live>>
      BY DEF Drop, disk, process, history
<1>3. /\ spent' \in [DOMAIN Bounds -> Nat] /\ spent'["drop"] # 0
      /\ spent'["tacky"] = spent["tacky"] /\ spent'["ui"] = spent["ui"]
      BY <1>1, SpendType DEF Drop
<1>4. /\ Counted' /\ Fresh' /\ OneAction'
      /\ UiTyped' /\ toTacky' \in Seq(TackyFrames) /\ toUi' \in Seq(UiFrames) /\ up' = FALSE
      /\ UNCHANGED <<status, armed>> /\ \A P : ~Some(toTacky', P) /\ ~Some(toUi', P)
      BY <1>1, <1>2, DroppedKeeps
<1>5. Typed'
      <2>1. ProcessTyped'
            BY <1>1, <1>2 DEF Typed, ProcessTyped
      <2>2. LinkTyped'
            BY <1>1, <1>2, <1>3, <1>4 DEF Typed, LinkTyped
      <2> QED BY <1>4, <2>1, <2>2 DEF Typed
<1>6. TackyLives'
      <2> SUFFICES ASSUME spent.tacky = 0 PROVE (Disk /\ Opening /\ Sent /\ Locked)'
          BY <1>3 DEF TackyLives
      <2>1. Disk /\ Opening /\ Sent /\ Locked
            BY <1>1 DEF TackyLives
      <2>2. Disk'
            BY <1>2, <2>1 DEF Disk, Status, gating
      <2>3. Opening' /\ Sent' /\ Locked'
            BY <1>2, <1>4, <2>1 DEF Opening, Agrees, Sent, Locked
      <2> QED BY <2>2, <2>3
<1>7. Pended'
      BY <1>1, <1>2, <1>3, <1>4 DEF Pended, Together
<1>8. TellsAll'
      BY <1>3 DEF TellsAll
<1> QED BY <1>4, <1>5, <1>6, <1>7, <1>8 DEF Inv

\* What is promised of a tacky that lives ends with it.
LEMMA TackyDiesKeeps == Inv /\ TackyDies => Inv'
<1> SUFFICES ASSUME Inv, TackyDies PROVE Inv'
    OBVIOUS
<1>1. Typed /\ Counted /\ OneAction
      BY DEF Inv
<1>2. /\ UNCHANGED <<encrypted, pending, refused, live>>
      /\ unlocked' = FALSE /\ told' = FALSE /\ heard' = "none"
      /\ open' = (~encrypted /\ pending # "encrypt")
      BY DEF TackyDies, NewTacky, disk, history
<1>3. spent' \in [DOMAIN Bounds -> Nat] /\ spent'["tacky"] # 0
      BY <1>1, SpendType DEF TackyDies
<1>4. /\ Counted' /\ Fresh' /\ OneAction'
      /\ UiTyped' /\ toTacky' \in Seq(TackyFrames) /\ toUi' \in Seq(UiFrames) /\ up' \in BOOLEAN
      <2>1. CASE up
            BY <1>1, <2>1, DroppedKeeps DEF TackyDies
      <2>2. CASE ~up
            <3>1. UNCHANGED <<status, armed, asking, busy, focused, settling, reported, up, toTacky, toUi>>
                  BY <2>2 DEF TackyDies, ui, controller, focus
            <3>2. UiTyped'
                  BY <1>1, <3>1 DEF Typed, UiTyped
            <3>3. toTacky' \in Seq(TackyFrames) /\ toUi' \in Seq(UiFrames) /\ up' \in BOOLEAN
                  BY <1>1, <3>1 DEF Typed, LinkTyped
            <3>4. Counted' /\ OneAction'
                  BY <1>1, <3>1 DEF Counted, OneAction
            <3>5. Fresh'
                  BY <2>2, <3>1 DEF Fresh
            <3> QED BY <3>2, <3>3, <3>4, <3>5
      <2> QED BY <2>1, <2>2
<1>5. Typed'
      <2>1. ProcessTyped'
            BY <1>1, <1>2 DEF Typed, ProcessTyped
      <2>2. LinkTyped'
            BY <1>1, <1>2, <1>3, <1>4 DEF Typed, LinkTyped
      <2> QED BY <1>4, <2>1, <2>2 DEF Typed
<1>6. TackyLives' /\ Pended' /\ TellsAll'
      BY <1>3 DEF TackyLives, Pended, Together, TellsAll
<1> QED BY <1>4, <1>5, <1>6 DEF Inv

\* The link is back, and the status is asked for over it.
LEMMA AttachKeeps == Inv /\ Attach => Inv'
<1> SUFFICES ASSUME Inv, Attach PROVE Inv'
    OBVIOUS
<1> DEFINE a == Frame("storage", "status")
<1>1. Typed /\ Counted /\ OneAction /\ TackyLives /\ Pended /\ TellsAll
      BY DEF Inv
<1>2. /\ ~up /\ up' = TRUE /\ toTacky' = <<a>> /\ asking' = asking + 1
      /\ UNCHANGED <<status, armed, busy, focused, settling, reported, toUi>>
      /\ UNCHANGED <<encrypted, pending, unlocked, open, told, heard, refused, live, spent>>
      BY DEF Attach, focus, disk, process, history
<1>3. a \in Asks /\ a \in TackyFrames /\ a \notin Actions /\ a \notin Others
      BY TackyKinds DEF Asks
<1> HIDE DEF a
<1>4. /\ toTacky = <<>> /\ toTacky' \in Seq(TackyFrames)
      /\ \A P : Some(toTacky', P) <=> a \in P
      /\ Once(toTacky', Actions)
      /\ Count(toTacky, Asks) = 0 /\ Count(toTacky', Asks) = 1
      <2>1. toTacky = <<>> /\ Count(toTacky, Asks) = 0
            BY <1>1, <1>2, Emptied DEF Counted
      <2> QED BY <1>2, <1>3, <2>1, OneItem
<1>5. Typed'
      <2>1. UiTyped'
            BY <1>1, <1>2 DEF Typed, UiTyped
      <2>2. ProcessTyped'
            BY <1>1, <1>2 DEF Typed, ProcessTyped
      <2>3. LinkTyped'
            BY <1>1, <1>2, <1>4 DEF Typed, LinkTyped
      <2> QED BY <2>1, <2>2, <2>3 DEF Typed
<1>6. Counted'
      <2>1. Count(toUi, Results) \in Nat
            BY <1>1, CountType DEF Typed, LinkTyped
      <2> QED BY <1>1, <1>2, <1>4, <2>1 DEF Counted
<1>7. Fresh'
      BY <1>3, <1>4 DEF Fresh
<1>8. OneAction'
      BY <1>1, <1>2, <1>3, <1>4 DEF OneAction
<1>9. TackyLives'
      <2> SUFFICES ASSUME spent.tacky = 0 PROVE (Disk /\ Opening /\ Sent /\ Locked)'
          BY <1>2 DEF TackyLives
      <2>1. Disk /\ Opening /\ Sent /\ Locked
            BY <1>1 DEF TackyLives
      <2>2. Disk'
            BY <1>2, <2>1 DEF Disk, Status, gating
      <2>3. \A P : P \subseteq Actions => ~Some(toTacky', P)
            BY <1>3, <1>4
      <2>4. \A m \in Methods : ~Some(toTacky', {Frame("storage", m)})
            BY <2>3 DEF Actions
      <2>5. ~Some(toTacky', Marks) /\ ~Some(toTacky', Migrations) /\ ~Some(toTacky', Others)
            BY <1>3, <1>4, <2>3, TackyKinds
      <2>6. Opening'
            BY <1>2, <2>1 DEF Opening, Agrees
      <2>7. Sent' /\ Locked'
            BY <1>2, <2>1, <2>4, <2>5 DEF Sent, Locked, Methods
      <2> QED BY <2>2, <2>6, <2>7
<1>10. Pended'
      BY <1>1, <1>2 DEF Pended, Together
<1>11. TellsAll'
      BY <1>1, <1>2 DEF TellsAll, ready, Ready
<1> QED BY <1>5, <1>6, <1>7, <1>8, <1>9, <1>10, <1>11 DEF Inv

-----------------------------------------------------------------------------
(* The theorems.                                                            *)

LEMMA InitInv == Init => Inv
<1> SUFFICES ASSUME Init PROVE Inv
    OBVIOUS
<1>1. /\ status = "" /\ armed = TRUE /\ asking = 0 /\ busy = FALSE
      /\ focused = "on" /\ settling = FALSE /\ reported = "none"
      /\ encrypted = FALSE /\ pending = "none"
      /\ unlocked = FALSE /\ open = TRUE /\ told = FALSE /\ heard = "none"
      /\ up = FALSE /\ toTacky = <<>> /\ toUi = <<>>
      /\ refused = FALSE /\ live = FALSE
      BY DEF Init
<1>2. spent \in [DOMAIN Bounds -> Nat]
      BY DEF Init
<1>3. /\ \A P : ~Some(toTacky, P) /\ Once(toTacky, P) /\ Count(toTacky, P) = 0
      /\ \A P : ~Some(toUi, P) /\ Once(toUi, P) /\ Count(toUi, P) = 0
      /\ toTacky \in Seq(TackyFrames) /\ toUi \in Seq(UiFrames)
      BY <1>1, Emptied
<1>4. Typed
      <2>1. UiTyped
            BY <1>1 DEF UiTyped
      <2>2. ProcessTyped
            BY <1>1 DEF ProcessTyped
      <2>3. LinkTyped
            BY <1>1, <1>2, <1>3 DEF LinkTyped
      <2> QED BY <2>1, <2>2, <2>3 DEF Typed
<1>5. Counted
      <2>1. asking = 0 /\ Count(toTacky, Asks) = 0 /\ Count(toUi, Results) = 0
            BY <1>1, <1>3
      <2>2. asking = Count(toTacky, Asks) + Count(toUi, Results)
            BY <2>1
      <2> QED BY <1>1, <1>3, <2>2 DEF Counted
<1>6. Fresh /\ OneAction
      BY <1>1, <1>3 DEF Fresh, OneAction
<1>7. TackyLives
      <2>1. Disk
            BY <1>1 DEF Disk
      <2>2. Opening /\ Sent /\ Locked
            BY <1>1, <1>3 DEF Opening, Sent, Locked
      <2> QED BY <2>1, <2>2 DEF TackyLives
<1>8. Pended /\ TellsAll
      BY <1>1 DEF Pended, TellsAll, ready, Ready
<1> QED BY <1>4, <1>5, <1>6, <1>7, <1>8 DEF Inv

LEMMA InvKept == Inv /\ [Next]_vars => Inv'
<1> SUFFICES ASSUME Inv, [Next]_vars PROVE Inv'
    OBVIOUS
<1>1. CASE unlock \/ encrypt \/ decrypt \/ requestEncrypt \/ requestDecrypt \/ cancelPending
      BY <1>1, WhatIsOffered, ActKeeps
<1>2. CASE StatusAnswered
      BY <1>2, StatusAnsweredKeeps
<1>3. CASE ActionAnswered \/ OnEvent \/ ActionFailed
      BY <1>3, OtherAnswersKeep
<1>4. CASE Focus
      BY <1>4, FocusKeeps
<1>5. CASE reportActive
      BY <1>5, ReportKeeps
<1>6. CASE TackyTakes
      BY <1>6, TackyKeeps
<1>7. CASE Launch
      BY <1>7, LaunchKeeps
<1>8. CASE UiDies
      BY <1>8, UiDiesKeeps
<1>9. CASE Drop
      BY <1>9, DropKeeps
<1>10. CASE TackyDies
       BY <1>10, TackyDiesKeeps
<1>11. CASE Attach
       BY <1>11, AttachKeeps
<1>12. CASE UNCHANGED vars
      <2>1. /\ UNCHANGED <<status, armed, asking, busy, focused, settling, reported>>
            /\ UNCHANGED <<encrypted, pending, unlocked, open, told, heard>>
            /\ UNCHANGED <<up, toTacky, toUi, refused, live, spent>>
            BY <1>12 DEF vars, ui, controller, focus, disk, process, history
      <2>2. Status' = Status /\ ready' = ready
            BY <2>1 DEF Status, ready
      <2>3. UiTyped' /\ ProcessTyped' /\ LinkTyped'
            <3>1. UiTyped'
                  BY <2>1 DEF Inv, Typed, UiTyped
            <3>2. ProcessTyped'
                  BY <2>1 DEF Inv, Typed, ProcessTyped
            <3>3. LinkTyped'
                  BY <2>1 DEF Inv, Typed, LinkTyped
            <3> QED BY <3>1, <3>2, <3>3
      <2>4. Counted' /\ Fresh' /\ OneAction'
            BY <2>1, <2>2 DEF Inv, Counted, Fresh, Last, OneAction
      <2>5. TackyLives'
            BY <2>1, <2>2 DEF Inv, TackyLives, Disk, Opening, Agrees, Sent, Locked
      <2>6. Pended' /\ TellsAll'
            BY <2>1, <2>2 DEF Inv, Pended, Together, TellsAll, Heard
      <2> QED BY <2>3, <2>4, <2>5, <2>6 DEF Inv, Typed
<1> QED BY <1>1, <1>2, <1>3, <1>4, <1>5, <1>6, <1>7, <1>8, <1>9, <1>10, <1>11, <1>12 DEF Next

LEMMA AlwaysInv == Spec => []Inv
BY InitInv, InvKept, PTL DEF Spec

\* With nothing under way, the last thing that was asked has been answered.
LEMMA QuietAgrees == Inv /\ Quiet => asking = 0 /\ status = Status
<1> SUFFICES ASSUME Inv, Quiet PROVE asking = 0 /\ status = Status
    OBVIOUS
<1>1. up /\ \A P : ~Some(toTacky, P) /\ ~Some(toUi, P)
      BY Emptied DEF Quiet
<1>2. ~Last(Status)
      BY DEF Quiet, Last, Ends
<1> QED BY <1>1, <1>2 DEF Inv, Fresh

\* The status requests counted are the ones under way, and with nothing under way the
\* status shown is tacky's, whatever was lost, failed, or answered to a UI that is gone
\* (StorageController: "re-asked after every method that can move it").
THEOREM StatusStaysTrue == Spec => []StatusTrue
<1>1. ASSUME Inv PROVE StatusTrue
      <2>1. Typed /\ Counted
            BY <1>1 DEF Inv
      <2>2. Where(toTacky, Asks) = {i \in DOMAIN toTacky : toTacky[i] = Frame("storage", "status")}
            BY <2>1 DEF Where, Asks, Typed, LinkTyped
      <2>3. Where(toUi, Results)
               = {i \in DOMAIN toUi : toUi[i].kind # "event" /\ toUi[i].what # "action"}
            <3>1. \A f \in UiFrames : f \in Results <=> f.kind # "event" /\ f.what # "action"
                  <4> SUFFICES ASSUME NEW f \in UiFrames
                               PROVE  f \in Results <=> f.kind # "event" /\ f.what # "action"
                      OBVIOUS
                  <4>1. CASE f \in Results
                        <5>1. PICK s \in Statuses : f = Frame("result", s)
                              BY <4>1 DEF Results
                        <5> QED BY <4>1, <5>1, UiKinds DEF Frame
                  <4>2. CASE f \notin Results
                        <5>1. f \in {Frame("event", ""), Frame("result", "action"), Frame("error", "action")}
                              BY <4>2 DEF UiFrames, Answers, Stirs
                        <5>2. CASE f = Frame("event", "")
                              BY <4>2, <5>2 DEF Frame
                        <5>3. CASE f = Frame("result", "action")
                              BY <4>2, <5>3 DEF Frame
                        <5>4. CASE f = Frame("error", "action")
                              BY <4>2, <5>4 DEF Frame
                        <5> QED BY <5>1, <5>2, <5>3, <5>4
                  <4> QED BY <4>1, <4>2
            <3>2. \A i \in 1..Len(toUi) : toUi[i] \in UiFrames
                  BY <2>1 DEF Typed, LinkTyped
            <3>3. DOMAIN toUi = 1..Len(toUi)
                  BY <2>1 DEF Typed, LinkTyped
            <3> QED BY <3>1, <3>2, <3>3 DEF Where
      <2>4. asking = Cardinality({i \in DOMAIN toTacky : toTacky[i] = Frame("storage", "status")})
               + Cardinality({i \in DOMAIN toUi : toUi[i].kind # "event" /\ toUi[i].what # "action"})
            BY <2>1, <2>2, <2>3 DEF Counted, Count
      <2>5. TypeOK
            BY <2>1, <2>4 DEF TypeOK, Typed, UiTyped, ProcessTyped, LinkTyped, Statuses
      <2> QED BY <1>1, <2>5, QuietAgrees DEF StatusTrue
<1> QED BY <1>1, AlwaysInv, PTL

\* While tacky has not died under a UI that lived on, what the gate lets through once
\* quiet is installed and no other module is asked early; while UI and tacky have
\* lived and died together, what is installed is let through too, and no migration
\* runs behind the gate (StorageController::isReady, AppController's boot).
THEOREM GateStaysTrue == Spec => []GateIsTrue
<1>1. ASSUME Inv PROVE GateIsTrue
      <2>1. Typed /\ TackyLives /\ Pended
            BY <1>1 DEF Inv
      <2>2. ASSUME Quiet, spent.tacky = 0 PROVE ready => open
            <3>1. status = Status
                  BY <1>1, <2>2, QuietAgrees
            <3> QED BY <2>1, <2>2, <3>1, ReadyOpen
      <2>3. ASSUME Together, Quiet PROVE open => ready
            <3>1. status = Status /\ spent.tacky = 0
                  BY <1>1, <2>3, QuietAgrees DEF Together
            <3> SUFFICES ASSUME open, armed PROVE ~gating(Status)
                BY <2>1, <3>1, StatusType DEF ready, Ready, Gate, Statuses
            <3>2. pending = "none"
                  BY <2>1, <2>3 DEF Pended
            <3>3. ~(encrypted /\ ~unlocked)
                  BY <2>1, <3>1 DEF TackyLives, Disk
            <3> QED BY <3>2, <3>3 DEF Status, gating
      <2>4. GateIsOpen
            BY <2>2, <2>3 DEF GateIsOpen
      <2>5. NothingRefused
            BY <2>1 DEF NothingRefused, TackyLives, Sent
      <2>6. MigratesBeforeBoot
            BY <2>1 DEF MigratesBeforeBoot, Pended
      <2> QED BY <2>4, <2>5, <2>6 DEF GateIsTrue
<1> QED BY <1>1, AlwaysInv, PTL

\* An open tacky that was never lost sight of has been told the preferences, and knows
\* whether the app is in use, as soon as that settles (applyStoredPreferences).
THEOREM OpenStaysTold == Spec => []OpenIsTold
<1>1. ASSUME Inv PROVE OpenIsTold
      <2> SUFFICES ASSUME Quiet, ready, spent.drop = 0, spent.tacky = 0
                   PROVE  told /\ (settling \/ heard = focused)
          BY DEF OpenIsTold
      <2>1. \A P : ~Some(toTacky, P)
            BY Emptied DEF Quiet
      <2>2. ~Ends(toTacky, Reports, Frame("app", reported))
            BY DEF Quiet, Ends
      <2> QED BY <1>1, <2>1, <2>2 DEF Inv, TellsAll, Heard
<1> QED BY <1>1, AlwaysInv, PTL
=============================================================================
