--------------------------- MODULE ChatListModel ---------------------------
(***************************************************************************)
(* The list of chats of an account: read whole, then kept by the events of  *)
(* single rows, each at the place its order gives it.                       *)
(***************************************************************************)
EXTENDS Wire, SequencesExt

CONSTANTS
    MaxJid,     \* chats, numbered in the order of their JIDs (bound)
    MaxOrder    \* a chat's `order` (bound)

VARIABLES
    account,    \* m_account is set
    items,      \* m_items
    loadError,
    \* tacky
    entries     \* the chats listed, each with its order

listVars == <<account, items, loadError, entries>>

Listable == 1..MaxJid
Lists == UNION {[J -> 0..MaxOrder] : J \in SUBSET Listable}
Entry(j, o) == [jid |-> j, order |-> o]

ListInit ==
    /\ WireInit /\ account = FALSE /\ items = <<>> /\ loadError = FALSE
    /\ entries \in [{1} -> 0..MaxOrder]

get == Call("get", Nil)

\* The account is chosen.
ListChosen ==
    /\ ~account /\ account' = TRUE /\ send(toUi, {"get"}, <<get>>)
    /\ UNCHANGED <<items, loadError, entries>>

\* The list pulled down, for the server to be asked too.
reload ==
    /\ account /\ Fits(1) /\ send(toUi, {"get"}, <<Bare("request"), get>>)
    /\ UNCHANGED listVars

lessThan(a, b) == a.order > b.order \/ (a.order = b.order /\ a.jid < b.jid)

\* The place of an entry among rows: before the first it is less than.
Place(e, s) ==
    LET i == SelectInSeq(s, LAMBDA r : lessThan(e, r)) IN IF i = 0 THEN Len(s) + 1 ELSE i

\* As a bug would have it: the moving row counted among the rows it passes
applyItemCounted(e) ==
    LET rest == SelectSeq(items, LAMBDA r : r.jid # e.jid)
    IN  items' = InsertAt(rest, IF Place(e, items) > Len(rest) THEN Len(rest) + 1 ELSE Place(e, items), e)

\* A row that is there is moved among the others, so a view's current row stays on it.
applyItem(e) ==
    LET rest == SelectSeq(items, LAMBDA r : r.jid # e.jid)
    IN  items' = InsertAt(rest, Place(e, rest), e)

OnItem ==
    /\ Arrives("Item") /\ Took
    /\ IF account THEN applyItem(Given.body) ELSE UNCHANGED items
    /\ UNCHANGED <<account, loadError, entries>>

applyRemove(j) == items' = SelectSeq(items, LAMBDA r : r.jid # j)

OnRemove ==
    /\ Arrives("Remove") /\ Took /\ applyRemove(Given.body)
    /\ UNCHANGED <<account, loadError, entries>>

OnChanged ==
    /\ Arrives("Changed") /\ Room
    /\ IF account THEN send(Rest, {"get"}, <<get>>) ELSE Took
    /\ UNCHANGED listVars

applyList(es) == items' = SetToSortSeq(es, lessThan)

ListAnswered ==
    /\ Arrives("get") /\ ~Fails /\ Took
    /\ IF Given.live THEN loadError' = FALSE /\ applyList(Given.body)
                     ELSE UNCHANGED <<items, loadError>>
    /\ UNCHANGED <<account, entries>>

ListRefused ==
    /\ Arrives("get") /\ Fails /\ Took
    /\ loadError' = (loadError \/ Given.live)
    /\ UNCHANGED <<account, items, entries>>

ListDrop ==
    /\ Lost /\ loadError' = (loadError \/ Waits("get"))
    /\ UNCHANGED <<account, items, entries>>

ListAttach == Comes({"get"}, IF account THEN <<get>> ELSE <<>>) /\ UNCHANGED listVars
----------------------------------------------------------------------------
(* tacky                                                                    *)

TackyLists ==
    /\ Takes("get") /\ UNCHANGED listVars
    /\ Says(<<Result({Entry(j, entries[j]) : j \in DOMAIN entries})>>) \/ Says(<<Refusal>>)

\* A chat comes, goes, moves up, or more of them change at once.
TackyItem ==
    /\ \E j \in Listable, o \in 0..MaxOrder :
        entries' = (j :> o) @@ entries /\ Tells(<<Frame("Item", Entry(j, o))>>)
    /\ UNCHANGED <<account, items, loadError>>
TackyRemoves ==
    /\ \E j \in DOMAIN entries :
        entries' = Restrict(entries, DOMAIN entries \ {j}) /\ Tells(<<Frame("Remove", j)>>)
    /\ UNCHANGED <<account, items, loadError>>
TackyChanged == entries' \in Lists /\ Tells(<<Bare("Changed")>>) /\ UNCHANGED <<account, items, loadError>>

\* The request to the server: what it brings comes as changes.
TackyAsks == Takes("request") /\ Says(<<>>) /\ UNCHANGED listVars

ListTacky == TackyLists \/ TackyAsks
ListUi == OnItem \/ OnRemove \/ OnChanged \/ ListAnswered \/ ListRefused \/ ListAttach
ListNext ==
    \/ ListChosen \/ reload \/ ListUi \/ ListTacky \/ ListDrop
    \/ TackyItem \/ TackyRemoves \/ TackyChanged

----------------------------------------------------------------------------

ListTypeOK ==
    /\ WireTypeOK /\ account \in BOOLEAN /\ loadError \in BOOLEAN /\ entries \in Lists
    /\ \A i \in DOMAIN items : items[i] \in [jid : Listable, order : 0..MaxOrder]

\* The rows keep their order through every move, a chat has one row, and with
\* nothing under way they are tacky's list, unless the last read of it failed,
\* which shows.
ListTrue ==
    /\ \A i, k \in DOMAIN items : i < k => lessThan(items[i], items[k]) /\ items[i].jid # items[k].jid
    /\ QuietWire /\ account /\ ~loadError =>
        items = SetToSortSeq({Entry(j, entries[j]) : j \in DOMAIN entries}, lessThan)
=============================================================================
