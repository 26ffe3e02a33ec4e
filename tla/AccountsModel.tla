--------------------------- MODULE AccountsModel ---------------------------
(***************************************************************************)
(* The accounts and how each is doing: one list of all, one of those that   *)
(* are enabled, and events that may beat either to a row.                   *)
(***************************************************************************)
EXTENDS Wire, SequencesExt

CONSTANTS Jids

VARIABLES
    rows,           \* m_accounts, by JID
    enabledJids, enabledKnown,
    unread,         \* the lists that were refused when last asked for (history)
    \* tacky
    accounts        \* those it has: enabled or not, and the connection

accountsVars == <<rows, enabledJids, enabledKnown, unread, accounts>>

\* A connection is not up - off, or on its way -, up, or has failed; unknown until told.
States == {"off", "connected", "failed"}
Unknown == "unknown"

AccountsInit ==
    /\ WireInit /\ rows = <<>> /\ enabledJids = {} /\ enabledKnown = FALSE
    /\ unread = {} /\ accounts = <<>>

Reads == <<Call("list", Nil), Call("enabled", Nil)>>

\* Rows built while the second is out count as unknown.
AccountsRefresh ==
    /\ Fits(1) /\ enabledKnown' = FALSE /\ unread' = {}
    /\ send(toUi, {"list", "enabled"}, Reads)
    /\ UNCHANGED <<rows, enabledJids, accounts>>

Asks(k, j) ==
    /\ Fits(1) /\ notify(IF k = "add" THEN <<Frame("add", j), Frame("enable", j)>> ELSE <<Frame(k, j)>>)
    /\ UNCHANGED accountsVars
add(j) == Asks("add", j)
enable(j) == Asks("enable", j)
disable(j) == Asks("disable", j)
remove(j) == Asks("remove", j)

NewRow(j, en, known) ==
    [enabled |-> j \in en, enabledKnown |-> known, state |-> Unknown, error |-> FALSE]

\* The list is of every account: who is not on it is disabled.
applyEnabledList(js) ==
    /\ enabledJids' = js /\ enabledKnown' = TRUE
    /\ rows' = [j \in DOMAIN rows |->
                    [rows[j] EXCEPT !.enabled = j \in js, !.enabledKnown = TRUE]]

\* Rows are brought to these JIDs; the connection is only ever told by events.
applyList(js) ==
    rows' = [j \in js |-> IF j \in DOMAIN rows THEN rows[j]
                          ELSE NewRow(j, enabledJids, enabledKnown)]
pullConnState(j) == Frame("pull", j)

ListAnswered ==
    /\ Arrives("list") /\ Room
    /\ IF Given.live /\ ~Fails
       THEN applyList(Given.body) /\ send(Rest, {}, SetToSeq({pullConnState(j) : j \in Given.body}))
       ELSE Took /\ UNCHANGED rows
    /\ unread' = IF Given.live /\ Fails THEN unread \cup {"list"} ELSE unread
    /\ UNCHANGED <<enabledJids, enabledKnown, accounts>>

EnabledListAnswered ==
    /\ Arrives("enabled") /\ Took
    /\ IF Given.live /\ ~Fails THEN applyEnabledList(Given.body)
       ELSE UNCHANGED <<rows, enabledJids, enabledKnown>>
    /\ unread' = IF Given.live /\ Fails THEN unread \cup {"enabled"} ELSE unread
    /\ UNCHANGED accounts

\* The row of a JID, or a new one.
RowOf(j, en) == IF j \in DOMAIN rows THEN rows[j] ELSE NewRow(j, en, enabledKnown)
PutRow(j, r) == rows' = (j :> r) @@ rows

OnAdded ==
    /\ Arrives("Added") /\ Took /\ PutRow(Given.body, RowOf(Given.body, enabledJids))
    /\ UNCHANGED <<enabledJids, enabledKnown, unread, accounts>>

OnRemoved ==
    /\ Arrives("Removed") /\ Took
    /\ rows' = Restrict(rows, DOMAIN rows \ {Given.body})
    /\ enabledJids' = IF Given.body \in DOMAIN rows THEN enabledJids \ {Given.body} ELSE enabledJids
    /\ UNCHANGED <<enabledKnown, unread, accounts>>

\* It may beat the list to the row.
OnEnabled ==
    /\ Arrives("Enabled") /\ Took /\ enabledJids' = enabledJids \cup {Given.body}
    /\ PutRow(Given.body, [RowOf(Given.body, enabledJids') EXCEPT !.enabled = TRUE, !.enabledKnown = TRUE])
    /\ UNCHANGED <<enabledKnown, unread, accounts>>

\* Off on purpose: nothing failed.
OnDisabled ==
    /\ Arrives("Disabled") /\ Took /\ enabledJids' = enabledJids \ {Given.body}
    /\ IF Given.body \in DOMAIN rows
       THEN PutRow(Given.body, [rows[Given.body] EXCEPT !.enabled = FALSE, !.enabledKnown = TRUE,
                                                         !.error = FALSE])
       ELSE UNCHANGED rows
    /\ UNCHANGED <<enabledKnown, unread, accounts>>

\* The errors of the past go when it is up again; news of an unlisted account says it exists.
OnConn ==
    /\ (Arrives("State") \/ Arrives("Error")) /\ Took
    /\ LET j == Given.body.acc
           r == RowOf(j, enabledJids)
       IN  PutRow(j, IF Given.kind = "Error" THEN [r EXCEPT !.state = "failed", !.error = TRUE]
                     ELSE [r EXCEPT !.state = Given.body.state,
                                    !.error = (@ /\ Given.body.state # "connected")])
    /\ UNCHANGED <<enabledJids, enabledKnown, unread, accounts>>

AccountsAttach ==
    /\ Comes({"list", "enabled"}, Reads) /\ enabledKnown' = FALSE /\ unread' = {}
    /\ UNCHANGED <<rows, enabledJids, accounts>>

AccountsDrop == Lost /\ UNCHANGED accountsVars

----------------------------------------------------------------------------
(* tacky                                                                    *)

Ours == UNCHANGED <<rows, enabledJids, enabledKnown, unread>>

Enabled(as) == {j \in DOMAIN as : as[j].enabled}

TackyTellsLists ==
    /\ (Takes("list") \/ Takes("enabled"))
    /\ Ours /\ UNCHANGED accounts
    /\ \/ Says(<<Refusal>>)
       \/ Says(<<Result(IF Asked.kind = "list" THEN DOMAIN accounts ELSE Enabled(accounts))>>)

Conn(j, st) == Frame("State", [acc |-> j, state |-> st])
ConnError(j) == Frame("Error", [acc |-> j])

\* A pull repeats the state, and the error if one stands.
TackyPulled ==
    /\ Takes("pull") /\ Ours /\ UNCHANGED accounts
    /\ LET j == Asked.body
       IN  Says(IF j \notin DOMAIN accounts THEN <<>>
                ELSE <<Conn(j, accounts[j].state)>>
                     \o IF accounts[j].state = "failed" THEN <<ConnError(j)>> ELSE <<>>)

Off == [enabled |-> FALSE, state |-> "off"]

TackyAdds ==
    /\ Takes("add") /\ Ours
    /\ LET j == Asked.body
       IN  IF j \in DOMAIN accounts THEN Says(<<>>) /\ UNCHANGED accounts
           ELSE accounts' = (j :> Off) @@ accounts /\ Says(<<Frame("Added", j)>>)

TackyEnables ==
    /\ Takes("enable") /\ Ours
    /\ LET j == Asked.body
       IN  IF j \in Enabled(accounts) \/ j \notin DOMAIN accounts THEN Says(<<>>) /\ UNCHANGED accounts
           ELSE /\ accounts' = [accounts EXCEPT ![j].enabled = TRUE]
                /\ Says(<<Frame("Enabled", j), Conn(j, "off")>>)

TackyDisables ==
    /\ Takes("disable") /\ Ours
    /\ LET j == Asked.body
       IN  IF j \notin Enabled(accounts) THEN Says(<<>>) /\ UNCHANGED accounts
           ELSE /\ accounts' = [accounts EXCEPT ![j] = Off]
                /\ Says(<<Conn(j, "off"), Frame("Disabled", j)>>)

TackyRemoves ==
    /\ Takes("remove") /\ Ours
    /\ LET j == Asked.body
       IN  /\ accounts' = Restrict(accounts, DOMAIN accounts \ {j})
           /\ Says(IF j \in DOMAIN accounts THEN <<Frame("Removed", j)>> ELSE <<>>)

\* An enabled account comes up, goes down, or fails.
TackyConn ==
    \E j \in Enabled(accounts), st \in States :
        /\ st # accounts[j].state
        /\ accounts' = [accounts EXCEPT ![j].state = st]
        /\ Tells(<<IF st = "failed" THEN ConnError(j) ELSE Conn(j, st)>>) /\ Ours

AccountsUi ==
    \/ ListAnswered \/ EnabledListAnswered \/ OnAdded \/ OnRemoved \/ OnEnabled \/ OnDisabled
    \/ OnConn \/ AccountsAttach
AccountsTacky ==
    \/ TackyTellsLists \/ TackyPulled \/ TackyAdds \/ TackyEnables \/ TackyDisables \/ TackyRemoves

AccountsNext ==
    \/ \E j \in Jids : add(j) \/ enable(j) \/ disable(j) \/ remove(j)
    \/ AccountsRefresh \/ AccountsUi \/ AccountsTacky \/ AccountsDrop \/ TackyConn

----------------------------------------------------------------------------

AccountsTypeOK ==
    /\ WireTypeOK /\ DOMAIN rows \subseteq Jids /\ DOMAIN accounts \subseteq Jids
    /\ \A j \in DOMAIN rows :
        rows[j] \in [enabled : BOOLEAN, enabledKnown : BOOLEAN,
                     state : States \cup {Unknown}, error : BOOLEAN]
    /\ enabledJids \subseteq Jids /\ enabledKnown \in BOOLEAN /\ unread \subseteq {"list", "enabled"}

\* With nothing under way the rows are tacky's accounts, each enabled as it is and
\* connected as it is - whichever of the lists and the events came first, unless a
\* list was refused; and no failure is shown of an account that is up.
AccountsTrue ==
    /\ \A j \in DOMAIN rows : rows[j].state = "connected" => ~rows[j].error
    /\ QuietWire =>
        /\ "list" \notin unread => DOMAIN rows = DOMAIN accounts
        /\ \A j \in DOMAIN rows :
            /\ "list" \notin unread =>
                rows[j].state \in {accounts[j].state} \cup IF accounts[j].enabled THEN {} ELSE {Unknown}
            /\ unread = {} => rows[j].enabledKnown /\ rows[j].enabled = accounts[j].enabled
=============================================================================
