----------------------------- MODULE ChatSession ----------------------------
(***************************************************************************)
(* What a UI keeps of one chat besides its messages: whether a page shows   *)
(* it, which tacky is told, and where its feed was left, which tacky keeps. *)
(***************************************************************************)
EXTENDS Wire

CONSTANTS
    Views,      \* places a feed may be left at, `Newest` among them
    Newest,
    MaxHolds    \* pages that show the chat (bound)

VARIABLES
    alive,      \* the session exists
    holds,
    view,       \* m_viewTs, m_viewOffset and the view in m_clientData
    keys,       \* m_clientData's keys that are not ours
    dirty, viewLoaded,
    \* tacky
    row,        \* what is stored of the chat
    opened,     \* the chat counts as shown
    \* history
    unsaved,    \* the newest view, or what tacky stored, did not get across
    rash,       \* a view was sent by a session that had not been told what is stored
    unclosed,   \* a `close` was not sent
    scrolled    \* where the feed was last scrolled to

session == <<holds, view, keys, dirty, viewLoaded>>
history == <<unsaved, rash, unclosed, scrolled>>
sessionVars == <<alive, session, row, opened, history>>

Fresh == session = <<0, Newest, FALSE, FALSE, FALSE>>

SessionInit ==
    /\ WireInit /\ alive = FALSE
    /\ holds = 0 /\ view = Newest /\ keys = FALSE
    /\ dirty = FALSE /\ viewLoaded = FALSE
    /\ row = [view |-> Newest, keys |-> TRUE] /\ opened = FALSE
    /\ unsaved = FALSE /\ rash = FALSE /\ unclosed = FALSE /\ scrolled = Newest

\* As a bug would have it: what the chat is told of depends on the link being new
sendOpenLate(open) == IF open /\ drops = 0 THEN <<>> ELSE <<Bare(IF open THEN "open" ELSE "close")>>

sendOpen(open) == <<Bare(IF open THEN "open" ELSE "close")>>

\* The whole object, or nothing.
flush == IF dirty THEN <<Frame("set", [view |-> view, keys |-> keys])>> ELSE <<>>
Flushed ==
    /\ unsaved' = IF dirty THEN ~up \/ Waits("load") ELSE unsaved
    /\ rash' = (rash \/ (dirty /\ up /\ (Waits("load") \/ ~keys)))

loadClientData == Call("load", Nil)

\* AppController::chatFor
Create ==
    /\ ~alive /\ Fits(1) /\ alive' = TRUE
    /\ send(toUi, {}, <<loadClientData>>)
    /\ UNCHANGED <<holds, view, keys, dirty, viewLoaded, row, opened, history>>

Destroy ==
    /\ alive /\ Fits(2) /\ alive' = FALSE
    /\ send(toUi, {"load"}, flush \o IF holds > 0 THEN sendOpen(FALSE) ELSE <<>>)
    /\ unclosed' = (IF holds > 0 THEN ~up ELSE unclosed)
    /\ Flushed
    /\ holds' = 0 /\ view' = Newest /\ keys' = FALSE /\ dirty' = FALSE /\ viewLoaded' = FALSE
    /\ UNCHANGED <<row, opened, scrolled>>

hold ==
    /\ alive /\ Fits(1) /\ holds < MaxHolds /\ holds' = holds + 1
    /\ notify(IF holds = 0 THEN sendOpen(TRUE) ELSE <<>>)
    /\ unclosed' = (unclosed /\ ~(holds = 0 /\ up))
    /\ UNCHANGED <<alive, view, keys, dirty, viewLoaded, row, opened, unsaved, rash, scrolled>>

release ==
    /\ alive /\ Fits(2) /\ holds > 0 /\ holds' = holds - 1
    /\ IF holds = 1
       THEN /\ notify(flush \o sendOpen(FALSE)) /\ Flushed /\ dirty' = FALSE /\ unclosed' = ~up
            /\ UNCHANGED scrolled
       ELSE UNCHANGED <<wire, dirty, history>>
    /\ UNCHANGED <<alive, view, keys, viewLoaded, row, opened>>

setView(v) ==
    /\ alive /\ v # view /\ view' = v /\ dirty' = TRUE /\ scrolled' = v
    /\ UNCHANGED <<wire, alive, holds, keys, viewLoaded, row, opened, unsaved, rash, unclosed>>

\* The app leaves the foreground.
Background ==
    /\ alive /\ Fits(1) /\ notify(flush) /\ Flushed /\ dirty' = FALSE
    /\ UNCHANGED <<alive, holds, view, keys, viewLoaded, row, opened, unclosed, scrolled>>

\* As a bug would have it: the answer wins over a scroll made before it
handleResultStored ==
    /\ Arrives("load") /\ ~Fails /\ Took
    /\ IF Given.live
       THEN keys' = Given.body.keys /\ view' = Given.body.view /\ viewLoaded' = TRUE
       ELSE UNCHANGED <<keys, view, viewLoaded>>
    /\ UNCHANGED <<alive, holds, dirty, row, opened, history>>

handleResult ==
    /\ Arrives("load") /\ ~Fails /\ Took
    /\ IF Given.live
       THEN /\ keys' = Given.body.keys
            /\ view' = IF dirty THEN view ELSE Given.body.view
            /\ viewLoaded' = TRUE
       ELSE UNCHANGED <<keys, view, viewLoaded>>
    /\ UNCHANGED <<alive, holds, dirty, row, opened, history>>

\* As a bug would have it: a refused read is waited for
handleErrorAsked ==
    /\ Arrives("load") /\ Fails /\ Took
    /\ UNCHANGED <<sessionVars>>

handleError ==
    /\ Arrives("load") /\ Fails /\ Took
    /\ viewLoaded' = (viewLoaded \/ (Given.live /\ Given.is = "error"))
    /\ unsaved' = (unsaved \/ (Given.live /\ Given.is = "error"))
    /\ UNCHANGED <<alive, holds, view, keys, dirty, row, opened, rash, unclosed, scrolled>>

\* The link drops: the request that was out fails, unsent as far as we can tell.
SessionDrop ==
    /\ Lost
    \* a tacky that restarts with the link knows of no open chat
    /\ opened' \in {opened, FALSE}
    /\ unsaved' = (unsaved \/ \E i \in DOMAIN toTacky : toTacky[i].kind = "set")
    /\ unclosed' = (unclosed \/ \E i \in DOMAIN toTacky : toTacky[i].kind = "close")
    /\ UNCHANGED <<alive, holds, view, keys, dirty, viewLoaded, row, rash, scrolled>>

\* TackyBackend::connected
SessionAttach ==
    /\ Comes(IF alive /\ ~viewLoaded THEN {"load"} ELSE {},
             (IF holds > 0 THEN sendOpen(TRUE) ELSE <<>>)
             \o IF alive /\ ~viewLoaded THEN <<loadClientData>> ELSE <<>>)
    /\ UNCHANGED <<sessionVars>>

----------------------------------------------------------------------------
(* tacky                                                                    *)

TackySets == Takes("set") /\ Says(<<>>) /\ row' = Asked.body /\ UNCHANGED opened
TackyLoads ==
    /\ Takes("load") /\ UNCHANGED <<row, opened>>
    /\ Says(<<Result(row)>>) \/ Says(<<Refusal>>)
TackyOpens == Takes("open") /\ Says(<<>>) /\ opened' = TRUE /\ UNCHANGED row
TackyCloses == Takes("close") /\ Says(<<>>) /\ opened' = FALSE /\ UNCHANGED row

SessionTacky ==
    /\ TackySets \/ TackyLoads \/ TackyOpens \/ TackyCloses
    /\ UNCHANGED <<alive, session, history>>

SessionUser ==
    \/ Create \/ Destroy \/ hold \/ release \/ Background
    \/ \E v \in Views : setView(v)
SessionUi == handleResult \/ handleError \/ SessionAttach

SessionNext == SessionUser \/ SessionUi \/ SessionTacky \/ SessionDrop

----------------------------------------------------------------------------

SessionTypeOK ==
    /\ WireTypeOK
    /\ alive \in BOOLEAN /\ holds \in 0..MaxHolds /\ view \in Views /\ keys \in BOOLEAN
    /\ dirty \in BOOLEAN /\ viewLoaded \in BOOLEAN
    /\ row \in [view : Views, keys : BOOLEAN] /\ opened \in BOOLEAN
    /\ unsaved \in BOOLEAN /\ rash \in BOOLEAN /\ unclosed \in BOOLEAN /\ scrolled \in Views
    /\ ~alive => Fresh

\* tacky counts the chat as shown exactly while a page shows it: across a drop,
\* a new session, and a tacky that forgot.  A `close` nobody sent is left out.
OpenTold == QuietWire => (holds > 0 => opened) /\ (opened => holds > 0 \/ unclosed)

\* Coming back to a chat finds where it was left, and what else is stored there
\* stays: what the user scrolled to wins over an older answer until it is sent, and
\* what tacky stores is then what the session shows.
ViewKept ==
    /\ dirty => view = scrolled
    /\ ~rash => row.keys
    /\ QuietWire /\ viewLoaded /\ ~dirty /\ ~unsaved => row.view = view

\* The feed is told where it was left, or that nothing is known.
ViewComes == alive ~> viewLoaded \/ ~alive
=============================================================================
