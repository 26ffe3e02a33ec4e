---------------------------- MODULE MCLiveCalls -----------------------------
(***************************************************************************)
(* How calls come to an end: one chat's group call (GroupCall), and the     *)
(* rows of voice calls (CallsModel), each by itself: `part` says which.     *)
(***************************************************************************)
EXTENDS GroupCall

CONSTANTS
    in, leg, account,                           \* a call in, a leg of a group call, their account
    Calls, Accounts, Placed, Legs, Keyed, Frames, MaxDrop, MaxOff   \* CallsModel

VARIABLES
    part,
    calls, mseq, listing, dismissed, asked, torn, cleared, session, trust, connected,
    linked, toService, fromService, lost, gone

OneAccount == [c \in Calls |-> account]

V == INSTANCE CallsModel WITH
       AccountOf <- OneAccount, Room <- Frames, prompt <- asked, online <- connected, up <- linked,
       toTacky <- toService, toUi <- fromService, drops <- lost, offs <- gone

voiceVars ==
    <<calls, mseq, listing, dismissed, asked, torn, cleared, session, trust, connected,
      linked, toService, fromService, lost, gone>>
all == <<part, vars, voiceVars>>

\* Others about, on a link that holds; and nobody else, on a link and an account
\* that come and go.
TwoScenes ==
    {[others |-> TRUE, joins |-> 2, drops |-> 0, offs |-> 0],
     [others |-> FALSE, joins |-> 1, drops |-> 2, offs |-> 2]}

\* A part that is not run stays in one initial state of its own.
PartsInit ==
    /\ part \in {"group", "voice"} /\ Init /\ V!Init
    /\ part = "voice" => scene.others

OnlyGroup == part = "group" /\ UNCHANGED <<part, voiceVars>>
OnlyVoice == part = "voice" /\ UNCHANGED <<part, vars>>

PartsNext == (OnlyGroup /\ Next) \/ (OnlyVoice /\ V!Next)

\* The fairness of GroupCall and that of CallsModel: only one of them runs.
PartsSpec ==
    /\ PartsInit /\ [][PartsNext]_all
    /\ WF_all((OnlyGroup /\ Handles) \/ (OnlyVoice /\ V!Handles))
    /\ WF_all((OnlyGroup /\ TackyTakes) \/ (OnlyVoice /\ V!TackyTakes))
    /\ WF_all((OnlyGroup /\ Attach) \/ (OnlyVoice /\ V!Attach))
    /\ WF_all((OnlyGroup /\ Online) \/ (OnlyVoice /\ V!Connect(account)))
    /\ WF_all(OnlyGroup /\ (Granted \/ Denied)) /\ WF_all(OnlyGroup /\ GoLive)

\* CallsModel: the rows are tacky's once nothing is under way, the trust in a key
\* that moves meanwhile and the legs of group calls included.
RowsTrue == V!RowsTrue
\* CallsModel: the end of a call is shown in the end, whatever dropped or died.
EndsAreShown == V!EndsAreShown
=============================================================================
