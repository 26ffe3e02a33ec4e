----------------------------- MODULE RoomFinder -----------------------------
(***************************************************************************)
(* Joining a room: the rooms a service lists (MucRoomsModel) and the sheet  *)
(* that asks for them and for a nick.  One model serves every account and   *)
(* every opening of the sheet, and asks nothing again by itself.            *)
(***************************************************************************)
EXTENDS Wire

CONSTANTS
    Accts, Services,
    NoOne,          \* the empty nick
    Typed           \* one of the user's own

VARIABLES
    acct, sheet,
    asked,          \* what was last discovered, <<>> once cleared (history)
    listed,         \* m_items: whose rooms they are, <<>> for none
    loaded, error,
    nick,           \* m_defaultNick: whose
    nickField,
    openedFor       \* the account the sheet was opened under (history)

finderVars == <<acct, sheet, asked, listed, loaded, error, nick, nickField, openedFor>>

loading == Waits("rooms")

FinderInit ==
    /\ WireInit /\ acct \in Accts /\ sheet = FALSE
    /\ asked = <<>> /\ listed = <<>> /\ loaded = FALSE /\ error = FALSE
    /\ nick = NoOne /\ nickField = NoOne /\ openedFor = acct

\* No answer under way counts any more, and nothing is left to show.
clear == asked' = <<>> /\ listed' = <<>> /\ loaded' = FALSE /\ error' = FALSE

\* The nick lands after the sheet is up: only where nobody has typed one.
setDefaultNick(n) ==
    /\ nick' = n
    /\ nickField' = IF n # nick /\ nickField = NoOne THEN n ELSE nickField

setAccount(a) ==
    /\ a # acct /\ acct' = a /\ clear /\ setDefaultNick(NoOne)
    /\ send(toUi, {"rooms", "nick"}, <<>>) /\ UNCHANGED <<sheet, openedFor>>

open ==
    /\ ~sheet /\ Fits(1) /\ sheet' = TRUE /\ openedFor' = acct /\ clear
    /\ nickField' = nick /\ UNCHANGED <<acct, nick>>
    /\ send(toUi, {"rooms", "nick"}, <<Call("nick", acct)>>)

close ==
    /\ sheet /\ sheet' = FALSE
    /\ UNCHANGED <<wire, acct, asked, listed, loaded, error, nick, nickField, openedFor>>

typeNick ==
    /\ sheet /\ nickField' \in {Typed, NoOne} /\ nickField' # nickField
    /\ UNCHANGED <<wire, acct, sheet, asked, listed, loaded, error, nick, openedFor>>

\* Enter in the field asks again under an answer that is out; the button does not.
discover(s) ==
    /\ sheet /\ Fits(1) /\ asked' = <<acct, s>>
    /\ listed' = <<>> /\ loaded' = FALSE /\ error' = FALSE
    /\ send(toUi, {"rooms"}, <<Call("rooms", <<acct, s>>)>>)
    /\ UNCHANGED <<acct, sheet, nick, nickField, openedFor>>

RoomsAnswered ==
    /\ Arrives("rooms") /\ Took /\ UNCHANGED <<acct, sheet, asked, nick, nickField, openedFor>>
    /\ IF ~Given.live THEN UNCHANGED <<listed, loaded, error>>
       ELSE IF Fails THEN error' = TRUE /\ UNCHANGED <<listed, loaded>>
       ELSE listed' = Given.body /\ loaded' = TRUE /\ UNCHANGED error

\* A refusal is a gap the user fills.
NickAnswered ==
    /\ Arrives("nick") /\ Took /\ UNCHANGED <<acct, sheet, asked, listed, loaded, error, openedFor>>
    /\ IF Given.live /\ ~Fails THEN setDefaultNick(Given.body) ELSE UNCHANGED <<nick, nickField>>

FinderAttach == Comes({}, <<>>) /\ UNCHANGED finderVars

\* What was out fails with the link.
FinderDrop ==
    /\ Lost /\ error' = (error \/ loading)
    /\ UNCHANGED <<acct, sheet, asked, listed, loaded, nick, nickField, openedFor>>

\* tacky: the service answers, or does not; an account may have no nick of its own.
TackyFinds ==
    /\ Takes("rooms") \/ Takes("nick")
    /\ UNCHANGED finderVars
    /\ \/ Says(<<Result(Asked.body)>>) \/ Says(<<Refusal>>)
       \/ Takes("nick") /\ Says(<<Result(NoOne)>>)

FinderNext ==
    \/ \E a \in Accts : setAccount(a)
    \/ \E s \in Services : discover(s)
    \/ open \/ close \/ typeNick
    \/ RoomsAnswered \/ NickAnswered \/ FinderAttach \/ FinderDrop \/ TackyFinds

----------------------------------------------------------------------------

Questions == {<<>>} \cup (Accts \X Services)

FinderTypeOK ==
    /\ WireTypeOK /\ acct \in Accts /\ openedFor \in Accts /\ sheet \in BOOLEAN
    /\ asked \in Questions /\ listed \in Questions
    /\ loaded \in BOOLEAN /\ error \in BOOLEAN
    /\ nick \in Accts \cup {NoOne} /\ nickField \in Accts \cup {NoOne, Typed}

\* The rooms listed are those of the service asked last, by this account, and what
\* was asked is out, answered, or failed: one of them, whatever link or account went.
\* The nick offered is of the account the sheet is for, the user's own, or none.
OneService ==
    /\ listed # <<>> => loaded /\ listed = asked /\ asked[1] = acct
    /\ Cardinality({f \in {"out", "answered", "failed"} :
                      CASE f = "out" -> loading [] f = "answered" -> loaded [] OTHER -> error})
         = IF asked = <<>> THEN 0 ELSE 1
    /\ nick \in {acct, NoOne}
    /\ sheet /\ openedFor = acct => nickField \in {acct, NoOne, Typed}
=============================================================================
