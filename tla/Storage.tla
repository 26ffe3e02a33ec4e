------------------------------ MODULE Storage -------------------------------
(***************************************************************************)
(* The gate in front of the encrypted store (StorageController) and what    *)
(* the app tells tacky once it is open (AppController).  tacky serves only  *)
(* `storage` while its store is locked or a migration is pending; nothing   *)
(* announces the status, so the UI asks for it and acts on the answer.      *)
(* Replies come in the order of the requests; a link that drops loses what  *)
(* is under way.                                                            *)
(***************************************************************************)
EXTENDS Naturals, Sequences, FiniteSets

CONSTANTS
    Depth,          \* frames under way in a direction (bound)
    MaxRun,         \* times the app is launched again, UI and tacky (bound)
    MaxDrop,        \* times the link drops (bound)
    MaxUi,          \* times the UI dies and tacky does not (bound)
    MaxTacky,       \* times tacky dies and the UI does not (bound)
    MaxFocus        \* changes of focus (bound)

ASSUME StorageAssumption ==
    /\ Depth \in Nat \ {0} /\ MaxRun \in Nat /\ MaxDrop \in Nat
    /\ MaxUi \in Nat /\ MaxTacky \in Nat /\ MaxFocus \in Nat

VARIABLES
    \* StorageController
    status,         \* m_status, "" until the first answer
    armed,          \* m_gateArmed
    asking,         \* `status` requests not answered; the newest one counts
    busy,           \* an action of ours is out: m_busy, and m_actionToken set
    \* AppController
    focused,        \* "on" while the application's state is active
    settling,       \* m_activeSettle runs
    reported,       \* m_reportedActive, "none" for nothing yet
    \* tacky
    encrypted,      \* the store on disk
    pending,        \* the migration asked for, on disk
    unlocked,       \* the passphrase is in memory
    open,           \* the other modules are installed
    told,           \* this process has the logging preferences
    heard,          \* the last setActive this process took
    \* the link
    up, toTacky, toUi,
    \* history, and what is spent of the bounds
    refused,        \* another module was asked before it was installed
    live,           \* a migration ran with the other modules installed
    spent

controller == <<status, armed, asking, busy>>
focus == <<focused, settling, reported>>
ui == <<controller, focus>>
disk == <<encrypted, pending>>
process == <<unlocked, open, told, heard>>
history == <<refused, live>>
vars == <<ui, disk, process, up, toTacky, toUi, history, spent>>

Bounds == [run |-> MaxRun, drop |-> MaxDrop, ui |-> MaxUi, tacky |-> MaxTacky, focus |-> MaxFocus]
Spend(what) == spent[what] < Bounds[what] /\ spent' = [spent EXCEPT ![what] = @ + 1]

----------------------------------------------------------------------------
(* The gate.                                                                *)

gating(s) == s \in {"locked", "pending-encrypt", "pending-decrypt"}

Gate(s, a) == a /\ gating(s)
gateActive == Gate(status, armed)
Ready(s, a) == s # "" /\ ~Gate(s, a)
ready == Ready(status, armed)

Frame(kind, what) == [kind |-> kind, what |-> what]
Sends(fs) == toTacky' = IF up THEN toTacky \o fs ELSE toTacky
Fits == Len(toTacky) < Depth /\ Len(toUi) < Depth

\* A request that cannot be sent fails: the error is queued.
Request(method) ==
    /\ Sends(<<Frame("storage", method)>>)
    /\ toUi' = IF up THEN toUi
               ELSE Append(toUi, Frame("error", "action"))

\* act: one of the five actions; nothing is offered while one is out.
Act(method) ==
    /\ ~busy /\ Fits
    /\ busy' = TRUE /\ Request(method)
    /\ UNCHANGED <<status, armed, asking, focus, disk, process, up, history, spent>>

unlock == gateActive /\ status = "locked" /\ Act("unlock")
encrypt == gateActive /\ status = "pending-encrypt" /\ Act("encrypt")
decrypt == gateActive /\ status = "pending-decrypt" /\ Act("decrypt")
requestEncrypt == ~gateActive /\ status = "plaintext" /\ Act("requestEncrypt")
requestDecrypt == ~gateActive /\ status = "unlocked" /\ Act("requestDecrypt")
cancelPending == status \in {"pending-encrypt", "pending-decrypt"} /\ Act("cancelPending")

\* applyStoredPreferences: the preferences, and the focus whether it moved or not.
Told == <<Frame("log", "prefs"), Frame("app", focused)>>

\* As a bug would have it: the gate disarmed by any answer
setStatusDisarm(s) ==
    /\ status' = s /\ armed' = FALSE
    /\ IF s # status /\ Ready(s, FALSE) THEN Sends(Told) /\ reported' = focused
       ELSE UNCHANGED <<toTacky, reported>>

\* As a bug would have it: told only when the first answer opens the app
setStatusOnce(s) ==
    /\ status' = s /\ armed' = (armed /\ gating(s))
    /\ IF status = "" /\ Ready(s, armed /\ gating(s)) THEN Sends(Told) /\ reported' = focused
       ELSE UNCHANGED <<toTacky, reported>>

\* Disarmed by the first answer that does not gate, and never armed again.
setStatus(s) ==
    LET now == armed /\ gating(s)
    IN /\ status' = s /\ armed' = IF s = status THEN armed ELSE now
       /\ IF s # status /\ Ready(s, now) THEN Sends(Told) /\ reported' = focused
          ELSE UNCHANGED <<toTacky, reported>>

----------------------------------------------------------------------------
(* What reaches the UI.                                                     *)

Receive(kind, action) ==
    /\ toUi # <<>> /\ Head(toUi).kind = kind /\ action = (Head(toUi).what = "action")
    /\ Len(toTacky) < Depth
    /\ UNCHANGED <<focused, settling, disk, process, up, history, spent>>

\* Only the newest status counts.
StatusAnswered ==
    /\ Receive("result", FALSE) /\ toUi' = Tail(toUi) /\ asking' = asking - 1
    /\ IF asking = 1 THEN setStatus(Head(toUi).what)
       ELSE UNCHANGED <<status, armed, toTacky, reported>>
    /\ UNCHANGED busy

\* As a bug would have it: an action is taken to have done what it was asked to
ActionAnsweredAssumed ==
    /\ Receive("result", TRUE) /\ busy' = FALSE /\ toUi' = Tail(toUi)
    /\ UNCHANGED <<status, armed, asking, reported, toTacky>>

\* The status is read again rather than assumed.
ActionAnswered ==
    /\ Receive("result", TRUE) /\ busy' = FALSE
    /\ asking' = asking + 1 /\ Sends(<<Frame("storage", "status")>>) /\ toUi' = Tail(toUi)
    /\ UNCHANGED <<status, armed, reported>>

\* As a bug would have it: an action that failed still holds the buttons
ActionFailedBusy ==
    /\ Receive("error", TRUE) /\ toUi' = Tail(toUi)
    /\ UNCHANGED <<controller, reported, toTacky>>

ActionFailed ==
    /\ Receive("error", TRUE) /\ busy' = FALSE /\ toUi' = Tail(toUi)
    /\ UNCHANGED <<status, armed, asking, reported, toTacky>>

\* <Unlocked>, <MigrationComplete>
OnEvent ==
    /\ Receive("event", FALSE) /\ asking' = asking + 1
    /\ Sends(<<Frame("storage", "status")>>) /\ toUi' = Tail(toUi)
    /\ UNCHANGED <<status, armed, busy, reported>>

\* The application gains or loses the focus; what it says of it settles first.
Focus ==
    /\ Spend("focus") /\ focused' = (IF focused = "on" THEN "off" ELSE "on") /\ settling' = TRUE
    /\ UNCHANGED <<controller, reported, disk, process, up, toTacky, toUi, history>>

reportActive ==
    /\ settling /\ Len(toTacky) < Depth /\ settling' = FALSE
    /\ IF ready /\ reported # focused
       THEN Sends(<<Frame("app", focused)>>) /\ reported' = focused
       ELSE UNCHANGED <<toTacky, reported>>
    /\ UNCHANGED <<controller, focused, disk, process, up, toUi, history, spent>>

----------------------------------------------------------------------------
(* tacky, from how this code and its tests use it.                          *)

Status ==
    CASE encrypted /\ ~unlocked -> "locked"
      [] encrypted /\ unlocked -> IF pending = "decrypt" THEN "pending-decrypt" ELSE "unlocked"
      [] OTHER -> IF pending = "encrypt" THEN "pending-encrypt" ELSE "plaintext"

Replies(fs) == toUi' = toUi \o fs
Done == Frame("result", "action")
Fails == Replies(<<Frame("error", "action")>>) /\ UNCHANGED <<disk, process, live>>

\* A right passphrase opens the rest, unless a decrypt is to run first.
TakesUnlock ==
    \/ /\ Status = "locked" /\ unlocked' = TRUE /\ open' = (pending = "none")
       /\ Replies(<<Frame("event", ""), Done>>) /\ UNCHANGED <<disk, told, heard, live>>
    \/ Fails

\* A migration that has been asked for opens the rest when it is through.
TakesMigration(to) ==
    \/ /\ Status = IF to THEN "pending-encrypt" ELSE "pending-decrypt"
       /\ encrypted' = to /\ unlocked' = to /\ pending' = "none" /\ open' = TRUE
       /\ live' = (live \/ open)
       /\ Replies(<<Frame("event", ""), Done>>) /\ UNCHANGED <<told, heard>>
    \/ Fails

TakesMark(mark) ==
    /\ pending' = mark /\ Replies(<<Done>>)
    /\ UNCHANGED <<encrypted, process, live>>

TakesCancel ==
    /\ pending' = "none" /\ open' = TRUE /\ Replies(<<Done>>)
    /\ UNCHANGED <<encrypted, unlocked, told, heard, live>>

TakesStorage(method) ==
    CASE method = "status" ->
           Replies(<<Frame("result", Status)>>) /\ UNCHANGED <<disk, process, live>>
      [] method = "unlock" -> TakesUnlock
      [] method = "encrypt" -> TakesMigration(TRUE)
      [] method = "decrypt" -> TakesMigration(FALSE)
      [] method = "requestEncrypt" -> TakesMark("encrypt")
      [] method = "requestDecrypt" -> TakesMark("decrypt")
      [] method = "cancelPending" -> TakesCancel

\* Another module's method: an error nobody waits for while it is not installed.
TakesOther(f) ==
    /\ refused' = (refused \/ ~open)
    /\ told' = (told \/ (open /\ f.kind = "log"))
    /\ heard' = IF open /\ f.kind = "app" THEN f.what ELSE heard
    /\ UNCHANGED <<disk, unlocked, open, toUi, live>>

TackyTakes ==
    /\ toTacky # <<>> /\ Len(toUi) < Depth /\ toTacky' = Tail(toTacky)
    /\ LET f == Head(toTacky)
       IN IF f.kind = "storage" THEN TakesStorage(f.what) /\ UNCHANGED refused
          ELSE TakesOther(f)
    /\ UNCHANGED <<ui, up, spent>>

----------------------------------------------------------------------------
(* The processes and the link.                                              *)

NewUi ==
    /\ status' = "" /\ armed' = TRUE /\ asking' = 0 /\ busy' = FALSE
    /\ settling' = FALSE /\ reported' = "none" /\ focused' = "on"

\* Boot: whatever does not gate is installed at once.
NewTacky ==
    /\ unlocked' = FALSE /\ told' = FALSE /\ heard' = "none"
    /\ open' = (~encrypted /\ pending # "encrypt")
    /\ UNCHANGED disk

LinkLost == up' = FALSE /\ toTacky' = <<>>

Launch ==
    /\ Spend("run") /\ NewUi /\ NewTacky /\ LinkLost /\ toUi' = <<>>
    /\ UNCHANGED history

UiDies ==
    /\ Spend("ui") /\ NewUi /\ LinkLost /\ toUi' = <<>>
    /\ UNCHANGED <<disk, process, history>>

\* What was asked and not answered fails, each error in the UI at once: an action
\* gives its buttons back, a status that never came leaves the gate as it is.
Dropped ==
    /\ LinkLost /\ toUi' = <<>> /\ asking' = 0 /\ busy' = FALSE
    /\ UNCHANGED <<status, armed, focus>>

Drop == up /\ Spend("drop") /\ Dropped /\ UNCHANGED <<disk, process, history>>
TackyDies ==
    /\ Spend("tacky") /\ NewTacky /\ UNCHANGED history
    /\ IF up THEN Dropped ELSE UNCHANGED <<ui, up, toTacky, toUi>>

\* `connected`: the status is asked for again.
Attach ==
    /\ ~up /\ Len(toUi) < Depth /\ up' = TRUE
    /\ toTacky' = <<Frame("storage", "status")>> /\ asking' = asking + 1
    /\ UNCHANGED <<status, armed, busy, focus, disk, process, toUi, history, spent>>

Init ==
    /\ status = "" /\ armed = TRUE /\ asking = 0 /\ busy = FALSE
    /\ focused = "on" /\ settling = FALSE /\ reported = "none"
    /\ encrypted = FALSE /\ pending = "none"
    /\ unlocked = FALSE /\ open = TRUE /\ told = FALSE /\ heard = "none"
    /\ up = FALSE /\ toTacky = <<>> /\ toUi = <<>>
    /\ refused = FALSE /\ live = FALSE /\ spent = [k \in DOMAIN Bounds |-> 0]

Next ==
    \/ unlock \/ encrypt \/ decrypt \/ requestEncrypt \/ requestDecrypt \/ cancelPending
    \/ StatusAnswered \/ ActionAnswered \/ ActionFailed \/ OnEvent
    \/ Focus \/ reportActive
    \/ TackyTakes \/ Launch \/ UiDies \/ Drop \/ TackyDies \/ Attach

Spec == Init /\ [][Next]_vars

\* Both event loops run, and the UI attaches again.
Fair ==
    /\ WF_vars(StatusAnswered)
    /\ WF_vars(ActionAnswered) /\ WF_vars(ActionFailed) /\ WF_vars(OnEvent)
    /\ WF_vars(TackyTakes) /\ WF_vars(Attach)

FairSpec == Spec /\ Fair

----------------------------------------------------------------------------
(* Properties.                                                              *)

\* Types; the status requests counted are the ones under way.
TypeOK ==
    /\ asking = Cardinality({i \in DOMAIN toTacky : toTacky[i] = Frame("storage", "status")})
              + Cardinality({i \in DOMAIN toUi : toUi[i].kind # "event" /\ toUi[i].what # "action"})
    /\ status \in {"", "plaintext", "pending-encrypt", "locked", "pending-decrypt", "unlocked"}
    /\ armed \in BOOLEAN /\ busy \in BOOLEAN
    /\ focused \in {"on", "off"} /\ settling \in BOOLEAN /\ reported \in {"none", "on", "off"}
    /\ encrypted \in BOOLEAN /\ pending \in {"none", "encrypt", "decrypt"}
    /\ unlocked \in BOOLEAN /\ open \in BOOLEAN /\ told \in BOOLEAN
    /\ heard \in {"none", "on", "off"} /\ up \in BOOLEAN
    /\ refused \in BOOLEAN /\ live \in BOOLEAN

Quiet == up /\ toTacky = <<>> /\ toUi = <<>>

\* With nothing under way the status shown is tacky's, whatever was lost, failed,
\* or answered to a UI that is gone ("Re-asked after every method that can move
\* it").
StatusTrue == TypeOK /\ (Quiet => status = Status)

\* UI and tacky have lived and died together, as they do on a desktop.
Together == spent.ui = 0 /\ spent.tacky = 0

\* "The status is known and nothing is gating it, so every other module is
\* installed and can be asked": once quiet, what the gate lets through is installed,
\* unless tacky has died under a UI that lived on; and what is installed is let
\* through, a migration asked for from inside the app included, while UI and tacky
\* live and die together.
GateIsOpen ==
    Quiet => /\ spent.tacky = 0 => (ready => open)
             /\ Together => (open => ready)

\* No other module is asked before it is installed, not even on a status that was
\* overtaken on its way or by a UI that has been replaced: the answer is an error the
\* whole app reports.
NothingRefused == spent.tacky = 0 => ~refused

\* A migration never runs with the other modules installed: "honouring it there
\* would migrate with every account live".
MigratesBeforeBoot == Together => ~live

\* The gate: what it lets through, what it keeps out, and what runs behind it.
GateIsTrue == GateIsOpen /\ NothingRefused /\ MigratesBeforeBoot

\* A tacky that is open, and has not been lost sight of, has the preferences and
\* knows whether the app is in use.
OpenIsTold ==
    Quiet /\ ready /\ spent.drop = 0 /\ spent.tacky = 0 =>
        told /\ (settling \/ heard = focused)

\* The buttons come back, whatever becomes of the action.
BusyEnds == busy ~> ~busy
=============================================================================
