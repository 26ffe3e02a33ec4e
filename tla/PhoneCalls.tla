----------------------------- MODULE PhoneCalls -----------------------------
(***************************************************************************)
(* Calls in the Android service: the registries that follow tacky's events, *)
(* the notifications and the ringer they drive, and the foreground service   *)
(* that holds the microphone.  tacky's thread parses an event and posts it;  *)
(* everything else is done by the main thread, one posted task at a time,    *)
(* and the ringer posts once more.                                          *)
(***************************************************************************)
EXTENDS Naturals, Sequences, FiniteSets, SequencesExt

CONSTANTS
    Sids,           \* calls
    Rooms,          \* group calls
    None,
    Posted,         \* tasks before tacky says something new (bound)
    MaxInvites      \* to group calls (bound)

VARIABLES
    main,           \* tasks posted to the main thread
    calls,          \* CallRegistry, in the order the calls came
    groups,         \* GroupCallRegistry: a call's phase, None if it has no call
    silenced, shown, \* rings silenced by a key; notifications up
    wanted,         \* the ringer's rings, each with its timer, 0 for none
    timers,         \* timers set and not yet gone off, as <<key, number>>
    ringing,        \* the ringtone plays
    foreground, inCall,
    \* tacky
    sent,
    leg,            \* of each call
    joined,         \* group calls it is in
    invites

phoneVars ==
    <<main, calls, groups, silenced, shown, wanted, timers, ringing, foreground, inCall,
      sent, leg, joined, invites>>

Rings == Sids \cup Rooms
Event(n, k) == [do |-> n, key |-> k]
Terminal(c) == c.state = "ended"
Live(c) == c.state \in {"connecting", "active", "calling", "ringing"}
Has(s) == \E i \in DOMAIN calls : calls[i].sid = s
Call(s) == calls[CHOOSE i \in DOMAIN calls : calls[i].sid = s]
With(s, st) == [i \in DOMAIN calls |-> IF calls[i].sid = s THEN [calls[i] EXCEPT !.state = st] ELSE calls[i]]

PhoneInit ==
    /\ main = <<>> /\ calls = <<>> /\ groups = [r \in Rooms |-> None]
    /\ silenced = {} /\ shown = {} /\ wanted = [k \in {} |-> 0] /\ timers = {}
    /\ ringing = FALSE /\ foreground = None /\ inCall = FALSE
    /\ sent = <<>> /\ leg = [s \in Sids |-> None] /\ joined = {} /\ invites = 0

Tacky == UNCHANGED <<leg, joined, invites>>
Ringer == UNCHANGED <<wanted, timers, ringing>>
Service == UNCHANGED <<foreground, inCall>>
Registries == UNCHANGED <<calls, groups>>

\* The service's notification is of the first live call, else of a group call, and
\* with one the phone is in its call mode; the caller sets calls' and groups'.
refreshForeground ==
    LET live == SelectSeq(calls', Live)
        joining == {r \in Rooms : groups'[r] \in {"joining", "live"}}
    IN  /\ IF live # <<>> THEN foreground' = Head(live).sid
           ELSE IF joining = {} THEN foreground' = None
           ELSE foreground' = IF foreground \in joining THEN foreground ELSE CHOOSE r \in joining : TRUE
        /\ inCall' = (foreground' # None)

showIncoming(s, rest) ==
    /\ shown' = shown \cup {s} /\ UNCHANGED silenced
    /\ main' = IF s \in silenced THEN rest ELSE Append(rest, Event("ring", s))

cancelIncoming(s, rest) ==
    /\ shown' = shown \ {s} /\ silenced' = silenced \ {s}
    /\ main' = Append(rest, Event("stop", s))

\* A call is told of as it now stands, and then dropped if it is over.
changed(s, cs, rest) ==
    LET c == cs[CHOOSE i \in DOMAIN cs : cs[i].sid = s]
    IN  /\ calls' = SelectSeq(cs, LAMBDA d : ~Terminal(d)) /\ UNCHANGED groups
        /\ IF c.state = "incoming" THEN showIncoming(s, rest) /\ Service
           ELSE cancelIncoming(s, rest) /\ refreshForeground

Next1(n) == main # <<>> /\ Head(main).do = n
Key == Head(main).key
After == Tail(main)

New(st) == [sid |-> Key, state |-> st]

Apply ==
    /\ Ringer /\ Tacky /\ UNCHANGED sent
    /\ \/ Next1("Outgoing") /\ changed(Key, Append(calls, New("calling")), After)
       \/ Next1("Incoming") /\ changed(Key, Append(calls, New("incoming")), After)
       \/ /\ \E n \in {"Ringing", "Active", "Ended"} : Next1(n)
          /\ IF ~Has(Key)
             THEN main' = After /\ Registries /\ Service /\ UNCHANGED <<silenced, shown>>
             ELSE LET st == CASE Head(main).do = "Active" -> "active"
                              [] Head(main).do = "Ended" -> "ended"
                              [] OTHER -> IF Call(Key).state = "calling" THEN "ringing"
                                          ELSE Call(Key).state
                  IN  changed(Key, With(Key, st), After)

\* The caller's name or picture is there: the call, over or not, is told of again.
LookedUp ==
    /\ Next1("looked up") /\ Ringer /\ Tacky /\ UNCHANGED sent
    /\ IF Has(Key) THEN changed(Key, calls, After)
       ELSE Registries /\ cancelIncoming(Key, After) /\ refreshForeground

\* Tapping the answer; the call leaves "incoming" before tacky says anything.
answer(s) ==
    /\ Has(s) /\ Call(s).state = "incoming"
    /\ sent' = Append(sent, Event("accept", s))
    /\ changed(s, With(s, "connecting"), main) /\ Ringer /\ Tacky

\* Declining, or hanging up, waits for tacky.
Ends(s) ==
    /\ Has(s) /\ Len(sent) < 2 /\ sent' = Append(sent, Event("end", s))
    /\ UNCHANGED <<main, silenced, shown>> /\ Registries /\ Ringer /\ Service /\ Tacky

\* A volume key.
silence(s) ==
    /\ Has(s) /\ Call(s).state = "incoming" /\ s \notin silenced
    /\ silenced' = silenced \cup {s} /\ main' = Append(main, Event("stop", s))
    /\ UNCHANGED <<shown, sent>> /\ Registries /\ Ringer /\ Service /\ Tacky

cancelGroupInvite(r, rest) ==
    shown' = shown \ {r} /\ main' = Append(rest, Event("stop", r))

OnState ==
    /\ \E n \in {"joining", "live", "ended", "idle"} : Next1(n)
    /\ LET p == Head(main).do  old == groups[Key]
       IN  IF p = "idle" \/ (p = "ended" /\ old = None)
           THEN /\ groups' = [groups EXCEPT ![Key] = IF @ = "ended" THEN None ELSE @]
                /\ main' = After /\ UNCHANGED <<calls, shown>> /\ Service
           ELSE /\ groups' = [groups EXCEPT ![Key] = p] /\ UNCHANGED calls
                /\ IF p = "ended" THEN main' = After /\ UNCHANGED shown
                   ELSE cancelGroupInvite(Key, After)
                /\ refreshForeground
    /\ UNCHANGED <<silenced, sent>> /\ Ringer /\ Tacky

\* The invite is joined or declined, from its notification or its screen.
AnswerInvite(r, how) ==
    /\ r \in shown /\ Len(sent) < 2 /\ cancelGroupInvite(r, main)
    /\ sent' = Append(sent, Event(how, r))
    /\ UNCHANGED silenced /\ Registries /\ Ringer /\ Service /\ Tacky

----------------------------------------------------------------------------
(* CallRinger                                                               *)

RingerOnly ==
    UNCHANGED <<calls, groups, silenced, shown, foreground, inCall, sent, leg, joined, invites>>

\* A ring that is on is left as it is; one of an invite times out.
ring ==
    /\ Next1("ring") /\ main' = After /\ RingerOnly
    /\ IF Key \in DOMAIN wanted THEN Ringer
       ELSE LET n == IF Key \in Rooms THEN 1 + Cardinality({t \in timers : t[1] = Key}) ELSE 0
            IN  /\ wanted' = [k \in DOMAIN wanted \cup {Key} |-> IF k = Key THEN n ELSE wanted[k]]
                /\ timers' = IF n = 0 THEN timers ELSE timers \cup {<<Key, n>>}
                /\ ringing' = TRUE

\* As a bug would have it: the timer is left to go off
stopNowUntimed(k, ts) ==
    /\ wanted' = [j \in DOMAIN wanted \ {k} |-> wanted[j]] /\ timers' = ts
    /\ ringing' = (DOMAIN wanted' # {})

stopNow(k, ts) ==
    /\ wanted' = [j \in DOMAIN wanted \ {k} |-> wanted[j]]
    /\ timers' = IF k \in DOMAIN wanted THEN ts \ {<<k, wanted[k]>>} ELSE ts
    /\ ringing' = (DOMAIN wanted' # {})

stop == Next1("stop") /\ main' = After /\ stopNow(Key, timers) /\ RingerOnly

\* The ring goes first, then what else of the invite is up, which the system takes down.
TimedOut ==
    /\ \E t \in timers : stopNow(t[1], timers \ {t}) /\ shown' = shown \ {t[1]}
    /\ UNCHANGED <<main, calls, groups, silenced, foreground, inCall, sent, leg, joined, invites>>

----------------------------------------------------------------------------
(* tacky, on its own thread                                                 *)

Main == UNCHANGED <<calls, groups, silenced, wanted, timers, ringing, foreground, inCall>>
Posts(es) == Len(main) < Posted /\ main' = main \o es

\* A call comes, or is placed in the app, and moves on as the peer has it.  Names and
\* pictures are looked up the while.
TackyCall(s) ==
    /\ Main /\ UNCHANGED <<shown, sent, joined, invites>>
    /\ \E how \in {<<None, "calling", "Outgoing">>, <<None, "incoming", "Incoming">>,
                   <<"calling", "ringing", "Ringing">>, <<"ringing", "active", "Active">>,
                   <<"calling", "active", "Active">>, <<"connecting", "active", "Active">>,
                   <<"active", "ended", "Ended">>, <<"incoming", "ended", "Ended">>,
                   <<"connecting", "ended", "Ended">>, <<"ringing", "ended", "Ended">>} :
         leg[s] = how[1] /\ leg' = [leg EXCEPT ![s] = how[2]] /\ Posts(<<Event(how[3], s)>>)

Looks(s) ==
    /\ leg[s] \notin {None} /\ Posts(<<Event("looked up", s)>>)
    /\ ~\E i \in DOMAIN main : main[i].do = "looked up"
    /\ Has(s)
    /\ Main /\ UNCHANGED <<shown, sent, leg, joined, invites>>

\* The notification goes up from tacky's own thread, and the ring is posted.
onGroupInvite(r) ==
    /\ invites < MaxInvites /\ invites' = invites + 1 /\ r \notin joined
    /\ shown' = shown \cup {r} /\ Posts(<<Event("ring", r)>>)
    /\ Main /\ UNCHANGED <<sent, leg, joined>>

\* A group call is joined in the app, is in full swing, or is over.
TackyGroup(r) ==
    /\ Main /\ UNCHANGED <<shown, sent, leg, invites>>
    /\ \/ r \in joined /\ joined' = joined \ {r}
          /\ Posts(<<Event("ended", r), Event("idle", r)>>)
       \/ r \in joined /\ UNCHANGED joined /\ Posts(<<Event("live", r)>>)
       \/ r \notin joined /\ joined' = joined \cup {r} /\ Posts(<<Event("joining", r)>>)

TackyTakes ==
    /\ sent # <<>> /\ Len(main) < Posted /\ sent' = Tail(sent)
    /\ Main /\ UNCHANGED <<shown, invites>>
    /\ LET k == Head(sent).key
       IN  CASE Head(sent).do = "accept" ->
                  /\ leg' = IF leg[k] = "incoming" THEN [leg EXCEPT ![k] = "connecting"] ELSE leg
                  /\ UNCHANGED <<main, joined>>
             [] Head(sent).do = "end" ->
                  /\ leg' = [leg EXCEPT ![k] = "ended"] /\ UNCHANGED joined
                  /\ main' = IF leg[k] = "ended" THEN main ELSE Append(main, Event("Ended", k))
             [] Head(sent).do = "join" ->
                  /\ joined' = joined \cup {k} /\ UNCHANGED leg
                  /\ main' = Append(main, Event("joining", k))
             [] OTHER -> UNCHANGED <<main, leg, joined>>

PhoneNext ==
    \/ Apply \/ LookedUp \/ OnState \/ ring \/ stop \/ TimedOut \/ TackyTakes
    \/ \E s \in Sids : answer(s) \/ Ends(s) \/ silence(s) \/ TackyCall(s) \/ Looks(s)
    \/ \E r \in Rooms :
         \/ onGroupInvite(r) \/ TackyGroup(r)
         \/ \E how \in {"join", "decline"} : AnswerInvite(r, how)

----------------------------------------------------------------------------

PhoneTypeOK ==
    /\ \A i \in DOMAIN calls : calls[i].sid \in Sids /\ ~Terminal(calls[i])
    /\ \A i, j \in DOMAIN calls : calls[i].sid = calls[j].sid => i = j
    /\ groups \in [Rooms -> {None, "joining", "live", "ended"}]
    /\ silenced \subseteq Sids /\ shown \subseteq Rings /\ DOMAIN wanted \subseteq Rings
    /\ foreground \in Rings \cup {None} /\ invites \in 0..MaxInvites

\* Every timed ring has its timer, and a timer is of a ring that is on, so that none
\* cuts a later ring short; and with nothing under way the phone rings for the calls
\* that come in and were not silenced, and for no other call, has a notification for
\* each that comes in, and holds the microphone while it is in a call and no longer.
PhoneTrue ==
    /\ \A t \in timers : t[1] \in DOMAIN wanted /\ wanted[t[1]] = t[2]
    /\ \A r \in Rooms \cap DOMAIN wanted : <<r, wanted[r]>> \in timers
    /\ main = <<>> /\ sent = <<>> =>
        LET incoming == {s \in Sids : leg[s] = "incoming"}
        IN  /\ DOMAIN wanted \cap Sids = incoming \ silenced
            /\ shown \cap Sids = incoming
            /\ DOMAIN wanted \cap joined = {} /\ shown \cap joined = {}
            /\ ringing <=> DOMAIN wanted # {}
            /\ inCall <=> joined # {} \/ \E s \in Sids : leg[s] \notin {None, "incoming", "ended"}
            /\ foreground \in Sids => leg[foreground] \notin {None, "incoming", "ended"}
=============================================================================
