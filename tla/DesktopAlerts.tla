--------------------------- MODULE DesktopAlerts ---------------------------
(***************************************************************************)
(* The alerts of NotificationController on a Linux desktop: FdoNotifier     *)
(* keeps one popup per key - a chat, or a chat's missed calls -, over a bus  *)
(* whose answers come later than the next alert, a read or a dismissal.     *)
(***************************************************************************)
EXTENDS Naturals, Sequences, FiniteSets, Functions

CONSTANTS
    Keys, None,
    MaxAlerts,      \* alerts raised (bound)
    MaxIds,         \* popups the daemon makes (bound)
    Bus             \* messages under way in a direction (bound)

VARIABLES
    resolved, available, held,
    entries,        \* of the keys that have one
    byId,           \* live ids to their keys
    \* the desktop
    toDaemon, toApp,
    screen,         \* popups, by id
    ids,            \* ids given out
    \* history
    raised,         \* alerts so far
    due,         \* the newest alert of a key, None once read or dismissed
    failed          \* keys the daemon refused an alert of

alertVars ==
    <<resolved, available, held, entries, byId, toDaemon, toApp, screen, ids, raised, due,
      failed>>

Drop(f, k) == Restrict(f, DOMAIN f \ {k})
With(f, k, v) == [i \in DOMAIN f \cup {k} |-> IF i = k THEN v ELSE f[i]]
Empty == [x \in {} |-> None]

NewEntry == [id |-> 0, inFlight |-> FALSE, queued |-> None, retractQueued |-> FALSE]
Notify(k, a, r) == [do |-> "Notify", key |-> k, alert |-> a, id |-> r]
Close(i) == [do |-> "Close", key |-> None, alert |-> None, id |-> i]
Says(w, k, i) == [is |-> w, key |-> k, id |-> i]

\* The session bus is there.
AlertsInit ==
    /\ resolved = FALSE /\ available = FALSE /\ held = Empty /\ entries = Empty
    /\ byId = Empty /\ toDaemon = <<>> /\ toApp = <<>> /\ screen = Empty /\ ids = 0
    /\ raised = 0 /\ due = [k \in Keys |-> None] /\ failed = {}

Desktop == UNCHANGED <<toApp, screen, ids>>

Sent(e) == [e EXCEPT !.inFlight = TRUE]

\* While one is, the newest alert waits for its id.
show(k, a) ==
    LET e == IF k \in DOMAIN entries THEN entries[k] ELSE NewEntry
    IN  IF e.inFlight
        THEN /\ entries' = With(entries, k, [e EXCEPT !.queued = a, !.retractQueued = FALSE])
             /\ UNCHANGED toDaemon
        ELSE /\ entries' = With(entries, k, Sent(e))
             /\ toDaemon' = Append(toDaemon, Notify(k, a, e.id))

\* An event of tacky's: a message, or a missed call.
OnNotify(k) ==
    /\ raised < MaxAlerts /\ Len(toDaemon) < Bus
    /\ raised' = raised + 1 /\ due' = [due EXCEPT ![k] = raised']
    /\ IF ~resolved THEN held' = With(held, k, raised') /\ UNCHANGED <<entries, toDaemon>>
       ELSE /\ UNCHANGED held
            /\ IF available THEN show(k, raised') ELSE UNCHANGED <<entries, toDaemon>>
    /\ UNCHANGED <<resolved, available, byId, failed>> /\ Desktop

\* What withdrawing a set of keys leaves: entries, live ids and closes to send.
Parked(K) == {k \in K \cap DOMAIN entries : entries[k].inFlight}
Gone(K) == (K \cap DOMAIN entries) \ Parked(K)
Ids(K) == {entries[k].id : k \in Gone(K)} \ {0}

\* As a bug would have it: an alert that is on its way is not withdrawn
retractShown(K) ==
    /\ entries' = Restrict(entries, DOMAIN entries \ Gone(K))
    /\ byId' = Restrict(byId, DOMAIN byId \ Ids(K))
    /\ \E q \in [1..Cardinality(Ids(K)) -> Ids(K)] :
         Range(q) = Ids(K) /\ toDaemon' = toDaemon \o [i \in DOMAIN q |-> Close(q[i])]

\* One whose id is not back is closed when it is.
retract(K) ==
    /\ entries' = [k \in DOMAIN entries \ Gone(K) |->
                     IF k \in K THEN [entries[k] EXCEPT !.queued = None, !.retractQueued = TRUE]
                     ELSE entries[k]]
    /\ byId' = Restrict(byId, DOMAIN byId \ Ids(K))
    /\ \E q \in [1..Cardinality(Ids(K)) -> Ids(K)] :
         Range(q) = Ids(K) /\ toDaemon' = toDaemon \o [i \in DOMAIN q |-> Close(q[i])]

\* A chat is read - here, or elsewhere -, or tacky stops, which withdraws every alert.
OnOwnRead(K) ==
    /\ Len(toDaemon) + Cardinality(Ids(K)) <= Bus
    /\ held' = Restrict(held, DOMAIN held \ K) /\ retract(K)
    /\ due' = [k \in Keys |-> IF k \in K THEN None ELSE due[k]]
    /\ UNCHANGED <<resolved, available, raised, failed>> /\ Desktop

\* The daemon says what it can do; without one the alerts are moot.
queryCapabilities(ok) ==
    /\ ~resolved /\ resolved' = TRUE /\ available' = ok /\ held' = Empty
    /\ entries' = IF ok THEN [k \in DOMAIN held |-> Sent(NewEntry)] ELSE entries
    /\ \E q \in [1..Cardinality(DOMAIN held) -> DOMAIN held] :
         /\ Range(q) = DOMAIN held
         /\ toDaemon' = IF ok THEN [i \in DOMAIN q |-> Notify(q[i], held[q[i]], 0)] ELSE toDaemon
    /\ UNCHANGED <<byId, raised, due, failed>> /\ Desktop

Hears(w) == toApp # <<>> /\ Head(toApp).is = w /\ toApp' = Tail(toApp)
Heard == Head(toApp)
Unheard == UNCHANGED <<resolved, available, held, screen, ids, raised, due, failed>>

\* The entry with a Notify's answer: an id of 0 is an error.
Answered(e, i) == [e EXCEPT !.inFlight = FALSE, !.id = IF i = 0 THEN @ ELSE i]

\* What piled up behind the Notify is done: the entry is closed, or sent again, or
\* dropped if the daemon refused it and nothing is up.
onNotifyReply ==
    /\ Hears("reply") /\ Unheard
    /\ LET k == Heard.key
           old == IF k \in DOMAIN entries THEN entries[k] ELSE NewEntry
           e == Answered(old, Heard.id)
           b == IF Heard.id = 0 THEN byId
                ELSE With(IF old.id # Heard.id THEN Drop(byId, old.id) ELSE byId, Heard.id, k)
       IN  IF k \notin DOMAIN entries THEN UNCHANGED <<entries, byId, toDaemon>>
           ELSE IF e.retractQueued
           THEN /\ entries' = Drop(entries, k) /\ byId' = Drop(b, e.id)
                /\ toDaemon' = IF e.id = 0 THEN toDaemon ELSE Append(toDaemon, Close(e.id))
           ELSE IF e.queued # None
           THEN /\ entries' = [entries EXCEPT ![k] = Sent([e EXCEPT !.queued = None])]
                /\ byId' = b /\ toDaemon' = Append(toDaemon, Notify(k, e.queued, e.id))
           ELSE /\ entries' = IF e.id = 0 THEN Drop(entries, k) ELSE [entries EXCEPT ![k] = e]
                /\ byId' = b /\ UNCHANGED toDaemon

\* Dismissed, expired or closed by us.
onNotificationClosed ==
    /\ Hears("closed") /\ byId' = Drop(byId, Heard.id)
    /\ IF Heard.id \notin DOMAIN byId THEN UNCHANGED entries
       ELSE LET k == byId[Heard.id]
            IN  entries' = IF k \notin DOMAIN entries \/ entries[k].id # Heard.id THEN entries
                           ELSE IF entries[k].inFlight
                           THEN [entries EXCEPT ![k].id = 0]
                           ELSE Drop(entries, k)
    /\ UNCHANGED toDaemon /\ Unheard

----------------------------------------------------------------------------
(* The notification daemon                                                  *)

App == UNCHANGED <<resolved, available, held, entries, byId, raised>>
Takes(d) == toDaemon # <<>> /\ Head(toDaemon).do = d /\ toDaemon' = Tail(toDaemon)
Order == Head(toDaemon)
Popup == [key |-> Order.key, alert |-> Order.alert]

\* One that is up is rewritten; one that is not is made anew, under its old id or
\* another.
DaemonShows ==
    /\ Takes("Notify") /\ Len(toApp) < Bus /\ App /\ UNCHANGED <<due, failed>>
    /\ \E i \in (IF Order.id = 0 THEN {} ELSE {Order.id})
                \cup (IF Order.id \notin DOMAIN screen /\ ids < MaxIds THEN {ids + 1} ELSE {}) :
         /\ screen' = With(screen, i, Popup)
         /\ ids' = IF i > ids THEN i ELSE ids
         /\ toApp' = Append(toApp, Says("reply", Order.key, i))

DaemonRefuses ==
    /\ Takes("Notify") /\ Len(toApp) < Bus /\ App /\ failed' = failed \cup {Order.key}
    /\ toApp' = Append(toApp, Says("reply", Order.key, 0)) /\ UNCHANGED <<screen, ids, due>>

DaemonCloses ==
    /\ Takes("Close") /\ Len(toApp) < Bus /\ App /\ UNCHANGED <<ids, due, failed>>
    /\ screen' = Drop(screen, Order.id)
    /\ toApp' = IF Order.id \in DOMAIN screen THEN Append(toApp, Says("closed", None, Order.id))
                ELSE toApp

\* The user dismisses a popup, or it expires.
Dismissed(i) ==
    /\ Len(toApp) < Bus /\ screen' = Drop(screen, i)
    /\ toApp' = Append(toApp, Says("closed", None, i))
    /\ due' = [k \in Keys |-> IF k = screen[i].key /\ due[k] = screen[i].alert
                                 THEN None ELSE due[k]]
    /\ App /\ UNCHANGED <<toDaemon, ids, failed>>

AlertsNext ==
    \/ \E k \in Keys : OnNotify(k) \/ OnOwnRead({k})
    \/ OnOwnRead(Keys) \/ \E ok \in BOOLEAN : queryCapabilities(ok)
    \/ onNotifyReply \/ onNotificationClosed
    \/ DaemonShows \/ DaemonRefuses \/ DaemonCloses \/ \E i \in DOMAIN screen : Dismissed(i)

----------------------------------------------------------------------------

AlertsTypeOK ==
    /\ resolved \in BOOLEAN /\ available \in BOOLEAN /\ raised \in 0..MaxAlerts
    /\ DOMAIN held \subseteq Keys /\ DOMAIN entries \subseteq Keys
    /\ DOMAIN byId \subseteq 1..MaxIds /\ Range(byId) \subseteq Keys
    /\ DOMAIN screen \subseteq 1..MaxIds /\ ids \in 0..MaxIds
    /\ due \in [Keys -> (1..MaxAlerts) \cup {None}] /\ failed \subseteq Keys

Quiet == toDaemon = <<>> /\ toApp = <<>>

\* With nothing under way, a chat has at most one popup, which says the newest and is
\* found by a click; one that was read, or dismissed, has none; and unless the daemon
\* refused one, an alert that is wanted is up.
AlertsTrue ==
    Quiet /\ resolved =>
        /\ \A i \in DOMAIN screen :
             /\ due[screen[i].key] # None
             /\ i \in DOMAIN byId /\ byId[i] = screen[i].key
             /\ \A j \in DOMAIN screen : screen[i].key = screen[j].key => i = j
             /\ screen[i].alert = due[screen[i].key] \/ screen[i].key \in failed
        /\ \A k \in Keys : available /\ due[k] # None /\ k \notin failed =>
             \E i \in DOMAIN screen : screen[i].key = k
=============================================================================
