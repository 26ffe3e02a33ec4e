------------------------------ MODULE MCChats -------------------------------
(***************************************************************************)
(* What a UI keeps beside a chat's messages.  The parts share no state but  *)
(* the link, so each is run by itself: `part` says which.                   *)
(***************************************************************************)
EXTENDS Wire, Composer

CONSTANTS
    Views, Newest, MaxHolds,                             \* ChatSession
    Chats, Everywhere, Archives, Queries, NoQuery, Pages, \* SearchModel
    Accts, Services, NoOne, Typed                         \* RoomFinder

ASSUME ChatsAssumption ==
    /\ MaxDrop \in Nat /\ Newest \in Views /\ MaxHolds \in Nat
    /\ Queries # {} /\ NoQuery \notin Queries /\ Pages \in Nat \ {0}

VARIABLES
    part,
    alive, holds, view, keys, dirty, viewLoaded, row, opened,
    unsaved, rash, unclosed, scrolled,
    groupchat, known, enabled, offered, prepared, session, on, fit,
    chat, query, matched, hits, cursor, complete, searched, failed, remoteAvailable,
    acct, sheet, asked, listed, loaded, error, nick, nickField, openedFor

S == INSTANCE ChatSession
O == INSTANCE OmemoChat WITH Depth <- 2
Q == INSTANCE SearchModel
F == INSTANCE RoomFinder WITH Depth <- 2

sessionVars ==
    <<alive, holds, view, keys, dirty, viewLoaded, row, opened, unsaved, rash, unclosed, scrolled>>
omemoVars == <<groupchat, known, enabled, offered, prepared, session, on, fit>>
searchVars ==
    <<chat, query, matched, hits, cursor, complete, searched, failed, remoteAvailable>>
finderVars == <<acct, sheet, asked, listed, loaded, error, nick, nickField, openedFor>>
vars == <<part, wire, sessionVars, composerVars, omemoVars, searchVars, finderVars>>

\* A part that is not run stays in one initial state of its own.
Init ==
    /\ part \in {"session", "composer", "omemo", "search", "finder"}
    /\ S!SessionInit /\ ComposerInit /\ O!OmemoInit /\ Q!SearchInit /\ F!FinderInit
    /\ part # "omemo" => ~groupchat /\ ~on /\ ~fit
    /\ part # "search" => chat = Everywhere
    /\ part # "finder" => acct = CHOOSE a \in Accts : TRUE

OnlySession == part = "session" /\ UNCHANGED <<part, composerVars, omemoVars, searchVars, finderVars>>
OnlyComposer == part = "composer" /\ UNCHANGED <<part, wire, sessionVars, omemoVars, searchVars, finderVars>>
OnlyOmemo == part = "omemo" /\ UNCHANGED <<part, sessionVars, composerVars, searchVars, finderVars>>
OnlySearch == part = "search" /\ UNCHANGED <<part, sessionVars, composerVars, omemoVars, finderVars>>
OnlyFinder == part = "finder" /\ UNCHANGED <<part, sessionVars, composerVars, omemoVars, searchVars>>

Next ==
    \/ OnlySession /\ S!SessionNext
    \/ OnlyComposer /\ ComposerNext
    \/ OnlyOmemo /\ O!OmemoNext
    \/ OnlySearch /\ Q!SearchNext
    \/ OnlyFinder /\ F!FinderNext

Spec ==
    /\ Init /\ [][Next]_vars
    /\ WF_vars(OnlySession /\ S!SessionTacky) /\ WF_vars(OnlySession /\ S!SessionUi)

\* ChatSession: tacky counts a chat as shown exactly while a page shows it.
OpenTold == part = "session" => S!SessionTypeOK /\ S!OpenTold
\* ChatSession: coming back to a chat finds where it was left.
ViewKept == S!ViewKept
\* OmemoChat: with nothing under way the padlock is what tacky has.
PadlockTrue == part = "omemo" => O!OmemoTypeOK /\ O!PadlockTrue
\* SearchModel, RoomFinder: what is shown answers one question, the one asked last.
OneQuestion ==
    /\ part = "search" => Q!SearchTypeOK /\ Q!OneQuestion
    /\ part = "finder" => F!FinderTypeOK /\ F!OneService
\* ChatSession: a feed is told where it was left, or that nothing is known.
ViewComes == S!ViewComes
=============================================================================
