----------------------------- MODULE SearchModel ----------------------------
(***************************************************************************)
(* A search of messages: a first page that replaces the results, and pages  *)
(* behind it, of a question and a chat that may change while one is out.    *)
(***************************************************************************)
EXTENDS Wire

CONSTANTS
    Chats,      \* what can be searched: chats
    Everywhere, \* of Chats: the whole account
    Archives,   \* chats whose server searches too
    Queries,
    NoQuery,
    Pages       \* pages of results a question has (bound)

VARIABLES
    chat, query,
    matched,    \* what the last search went out with
    hits,       \* the pages shown, each with the question it answers
    cursor,     \* the page behind them, 0 for none known
    complete, searched, failed, remoteAvailable

searchVars == <<chat, query, matched, hits, cursor, complete, searched, failed, remoteAvailable>>

searching == Waits("search")

SearchInit ==
    /\ WireInit /\ chat \in Chats /\ query = NoQuery /\ matched = NoQuery
    /\ hits = <<>> /\ cursor = 0 /\ complete = FALSE /\ searched = FALSE /\ failed = FALSE
    /\ remoteAvailable = FALSE

\* As a bug would have it: tacky is told, and its answer still waited for
cancelTold == {}

\* A late answer is ignored.
cancel == {"search"}

forgetPage == cursor' = 0 /\ complete' = FALSE /\ failed' = FALSE

askRemoteSupport(c) == IF c = Everywhere THEN <<>> ELSE <<Call("caps", c)>>

\* The chat that is searched changes: nothing of the old one stays.
setChat(c) ==
    /\ Fits(2) /\ c # chat /\ chat' = c
    /\ send(toUi, cancel \cup {"caps"}, <<Bare("cancel")>> \o askRemoteSupport(c))
    /\ remoteAvailable' = FALSE
    /\ hits' = <<>> /\ matched' = NoQuery /\ forgetPage /\ searched' = FALSE
    /\ UNCHANGED query

setQuery(q) ==
    /\ q # query /\ query' = q
    /\ UNCHANGED <<wire, chat, matched, hits, cursor, complete, searched, failed, remoteAvailable>>

\* Only the first page may come from the server as well.
issue(q, page) ==
    Call("search", [chat |-> chat, query |-> q, page |-> page, both |-> page = 1 /\ remoteAvailable])

\* The rows stay until the answer replaces them.
search ==
    /\ Fits(2) /\ query # NoQuery
    /\ send(toUi, cancel, <<Bare("cancel"), issue(query, 1)>>)
    /\ matched' = query /\ searched' = TRUE /\ forgetPage
    /\ UNCHANGED <<chat, query, hits, remoteAvailable>>

loadMore ==
    /\ Fits(1) /\ ~searching /\ ~complete /\ cursor # 0 /\ matched # NoQuery
    /\ send(toUi, cancel, <<issue(matched, cursor)>>)
    /\ UNCHANGED searchVars

clear ==
    /\ Fits(1) /\ send(toUi, cancel, <<Bare("cancel")>>)
    /\ hits' = <<>> /\ matched' = NoQuery /\ forgetPage /\ searched' = FALSE
    /\ UNCHANGED <<chat, query, remoteAvailable>>

\* Nothing replaced the rows a first page was holding on to; a page behind them
\* leaves what it was extending.
applyFailure(append) ==
    /\ hits' = IF append THEN hits ELSE <<>>
    /\ failed' = TRUE /\ complete' = TRUE /\ UNCHANGED cursor

applyResult(r) ==
    /\ failed' = FALSE
    /\ hits' = (IF r.page = 1 THEN <<>> ELSE hits)
               \o IF r.found THEN <<[chat |-> r.chat, query |-> r.query, page |-> r.page]>> ELSE <<>>
    /\ cursor' = r.next /\ complete' = (r.next = 0)

SearchAnswered ==
    /\ Arrives("search") /\ Took
    /\ IF ~Given.live THEN UNCHANGED <<hits, cursor, complete, failed>>
       ELSE IF Fails THEN applyFailure(Given.body.page > 1)
       ELSE applyResult(Given.body)
    /\ UNCHANGED <<chat, query, matched, searched, remoteAvailable>>

CapsAnswered ==
    /\ Arrives("caps") /\ Took
    /\ remoteAvailable' = IF Given.live /\ ~Fails THEN Given.body ELSE remoteAvailable
    /\ UNCHANGED <<chat, query, matched, hits, cursor, complete, searched, failed>>

\* The page that was out fails; the link's return asks nothing again.
SearchDrop ==
    /\ Lost
    /\ IF searching
       THEN LET q == IF HasLive(toUi, "search") THEN toUi ELSE toTacky
                f == q[CHOOSE i \in DOMAIN q : q[i].kind = "search" /\ q[i].live]
            IN  applyFailure(f.body.page > 1)
       ELSE UNCHANGED <<hits, cursor, complete, failed>>
    /\ UNCHANGED <<chat, query, matched, searched, remoteAvailable>>

SearchAttach == Comes({}, <<>>) /\ UNCHANGED searchVars

----------------------------------------------------------------------------
(* tacky                                                                    *)

\* The next page, if there is one; the last may be full all the same.
TackySearches ==
    /\ Takes("search") /\ UNCHANGED searchVars
    /\ \/ \E found \in BOOLEAN, next \in {0, Asked.body.page + 1} :
            /\ next <= Pages /\ (next # 0 => found)
            /\ Says(<<Result([chat |-> Asked.body.chat, query |-> Asked.body.query,
                              page |-> Asked.body.page, found |-> found, next |-> next])>>)
       \/ Says(<<Refusal>>)

TackyForgets == Takes("cancel") /\ Says(<<>>) /\ UNCHANGED searchVars

TackyTellsCaps ==
    /\ Takes("caps") /\ UNCHANGED searchVars
    /\ Says(<<Result(Asked.body \in Archives)>>) \/ Says(<<Refusal>>)

SearchTacky == TackySearches \/ TackyForgets \/ TackyTellsCaps
SearchUi == SearchAnswered \/ CapsAnswered \/ SearchAttach
SearchUser ==
    \/ \E c \in Chats : setChat(c)
    \/ \E q \in Queries : setQuery(q)
    \/ search \/ loadMore \/ clear

SearchNext == SearchUser \/ SearchUi \/ SearchTacky \/ SearchDrop

----------------------------------------------------------------------------

SearchTypeOK ==
    /\ WireTypeOK /\ chat \in Chats /\ query \in Queries \cup {NoQuery}
    /\ matched \in Queries \cup {NoQuery} /\ Len(hits) <= Pages /\ cursor \in 0..Pages
    /\ complete \in BOOLEAN /\ searched \in BOOLEAN /\ failed \in BOOLEAN
    /\ remoteAvailable \in BOOLEAN

Answers(q) == \A i \in DOMAIN hits : hits[i] = [chat |-> chat, query |-> q, page |-> i]

\* What is shown answers one question of this chat, page by page from the first;
\* once no page is out it is the one last asked.  The server is only offered where
\* this chat's searches.
OneQuestion ==
    /\ \E q \in Queries : Answers(q)
    /\ matched # NoQuery /\ ~searching => Answers(matched)
    /\ cursor # 0 => cursor = Len(hits) + 1
    /\ remoteAvailable => chat \in Archives
=============================================================================
