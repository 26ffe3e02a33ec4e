------------------------------ MODULE Avatars ------------------------------
(***************************************************************************)
(* The pictures of people: a mark asks tacky for the hash of one, each hash *)
(* makes an Image load it, and a load is handed from the loader's thread to *)
(* the controller's, which fetches it from tacky.                           *)
(***************************************************************************)
EXTENDS Wire, SequencesExt

CONSTANTS
    People, Hashes, NoHash,
    Loads       \* the responses a loader has at a time (bound)

VARIABLES
    hash,       \* m_hash
    marked,     \* m_visible
    pending,    \* m_pending: the responses that wait for tacky
    onScreen,   \* whose Image is there
    image,      \* the source of each Image, and the response it loads or shows
    response,   \* each response: spare, queued, out, or how it finished
    posted,     \* fetches on their way to the controller's thread
    twice,      \* a response has finished twice (history)
    excused,    \* responses that failed for the link or were refused (history)
    \* tacky
    have,       \* each person's picture
    marks       \* whose it keeps us told of

avatarVars ==
    <<hash, marked, pending, onScreen, image, response, posted, twice, excused, have, marks>>
screenVars == <<onScreen, image, response, posted, twice, excused>>

NoImage == [src |-> NoHash, of |-> 0]
InUse == {image[p].of : p \in People}
Spare == {n \in Loads : response[n] = "spare"}

AvatarsInit ==
    /\ WireInit /\ hash = [p \in People |-> NoHash] /\ marked = {} /\ pending = {}
    /\ onScreen = {} /\ image = [p \in People |-> NoImage] /\ posted = <<>>
    /\ response = [n \in Loads |-> "spare"] /\ twice = FALSE /\ excused = {}
    /\ have \in [People -> Hashes \cup {NoHash}] /\ marks = {}

\* What is left of responses that Images let go of.
Left(S) == [n \in Loads |-> IF n \in S /\ response[n] \in {"image", "error"} THEN "spare" ELSE response[n]]

\* The responses of S finish; one that no Image shows any more is done with.
Finish(S, how) ==
    /\ response' = [n \in Loads |->
          IF n \notin S THEN response[n] ELSE IF n \in InUse THEN how ELSE "spare"]
    /\ twice' = (twice \/ \E n \in S : response[n] \notin {"queued", "out"})

Excuse(S) == excused' = excused \cup (S \cap InUse)

----------------------------------------------------------------------------
(* The bindings.  hashFor() is read again by every Image when `rev` moves;   *)
(* one whose hash is another loads it, and its mark is placed if it can be.  *)

\* What ensureVisible() has to ask for.
Places(S, running) == IF running THEN S \ marked ELSE {}
Mark(S) == LET s == SetToSeq(S) IN [i \in DOMAIN s |-> Frame("visible", s[i])]

Differ(S, h) == {p \in S : h[p] # image[p].src}

\* A new source is loaded by a response of its own, posted to the controller's thread.
Binds(S, h) ==
    LET new == SetToSeq({p \in Differ(S, h) : h[p] # NoHash})
        by == SetToSeq(Spare)
        of(p) == IF h[p] = NoHash THEN 0 ELSE by[CHOOSE i \in DOMAIN new : new[i] = p]
        old == {image[p].of : p \in Differ(S, h)}
    IN  /\ Len(new) <= Len(by)
        /\ image' = [p \in People |->
              IF p \in Differ(S, h) THEN [src |-> h[p], of |-> of(p)] ELSE image[p]]
        /\ response' = [n \in Loads |-> IF \E i \in DOMAIN new : by[i] = n THEN "queued" ELSE Left(old)[n]]
        /\ excused' = excused \ old
        /\ posted' = posted \o [i \in DOMAIN new |-> [of |-> new[i], hash |-> h[new[i]], by |-> by[i]]]

\* A row with this person comes on screen, or goes.
Shows(p) ==
    /\ Fits(1) /\ p \notin onScreen /\ onScreen' = onScreen \cup {p}
    /\ Binds({p}, hash) /\ notify(Mark(Places({p}, up))) /\ marked' = marked \cup Places({p}, up)
    /\ UNCHANGED <<hash, pending, twice, have, marks>>

Hides(p) ==
    /\ p \in onScreen /\ onScreen' = onScreen \ {p} /\ image' = [image EXCEPT ![p] = NoImage]
    /\ response' = Left({image[p].of}) /\ excused' = excused \ {image[p].of}
    /\ UNCHANGED <<wire, hash, marked, pending, posted, twice, have, marks>>

refresh(p) == Fits(1) /\ p \in onScreen /\ notify(<<Frame("refresh", p)>>) /\ UNCHANGED avatarVars

----------------------------------------------------------------------------
(* The controller's thread.                                                 *)

fetch ==
    /\ posted # <<>> /\ Room /\ posted' = Tail(posted)
    /\ LET f == Head(posted)
           place == Places({f.of}, up)
       IN  IF up
           THEN /\ send(toUi, {}, Mark(place) \o <<Call("data", f)>>)
                /\ marked' = marked \cup place
                /\ pending' = pending \cup {f.by}
                /\ response' = [response EXCEPT ![f.by] = "out"]
                /\ UNCHANGED <<twice, excused>>
           ELSE /\ Finish({f.by}, "error") /\ Excuse({f.by})
                /\ UNCHANGED <<wire, marked, pending>>
    /\ UNCHANGED <<hash, onScreen, image, have, marks>>

\* "" is a picture that went away meanwhile.
AvatarResult ==
    /\ Arrives("data") /\ ~Fails /\ Took
    /\ Finish(pending \cap {Given.body.by}, IF Given.body.got THEN "image" ELSE "error")
    /\ pending' = pending \ {Given.body.by}
    /\ UNCHANGED <<hash, marked, onScreen, image, posted, excused, have, marks>>

AvatarError ==
    /\ Arrives("data") /\ Fails /\ Took
    /\ Finish(pending \cap {Given.body.by}, "error") /\ Excuse({Given.body.by})
    /\ pending' = pending \ {Given.body.by}
    /\ UNCHANGED <<hash, marked, onScreen, image, posted, have, marks>>

applyHash ==
    LET h == [hash EXCEPT ![Given.body.of] = Given.body.hash]
        place == Places(onScreen, up)
    IN  /\ Arrives("Update") /\ Len(toTacky) + Cardinality(place) <= Depth
        /\ hash' = h /\ Binds(onScreen, h)
        /\ send(Rest, {}, Mark(place)) /\ marked' = marked \cup place
        /\ UNCHANGED <<pending, onScreen, twice, have, marks>>

\* As a bug would have it: the waiting sinks are failed and kept
onRunningChangedKept == marked' = {} /\ pending' = pending

\* The marks went with the link, and no sink is left waiting.
onRunningChanged == marked' = {} /\ pending' = {}

\* The sinks fail; of the errors of the requests that were out none finds one.
\* A service that is gone has forgotten its marks, one that is not has them.
AvatarsDrop ==
    /\ Lost /\ onRunningChanged
    /\ Finish(pending, "error") /\ Excuse(pending)
    /\ marks' \in {marks, {}}
    /\ UNCHANGED <<hash, onScreen, image, posted, have>>

\* `rev` moves, for the bindings to place their marks again.
AvatarsAttach ==
    /\ Comes({}, Mark(Places(onScreen, TRUE))) /\ marked' = marked \cup Places(onScreen, TRUE)
    /\ UNCHANGED <<hash, pending, screenVars, have, marks>>

----------------------------------------------------------------------------
(* tacky                                                                    *)

Update(p) == Frame("Update", [of |-> p, hash |-> have'[p]])

\* "re-emits an <Update> from its cache for every one"
TackyMarks ==
    /\ Takes("visible") /\ marks' = marks \cup {Asked.body} /\ UNCHANGED have
    /\ Says(<<Update(Asked.body)>>) /\ UNCHANGED <<hash, marked, pending, screenVars>>

TackyRefreshes ==
    /\ Takes("refresh") /\ UNCHANGED marks
    /\ \E h \in Hashes \cup {NoHash} : have' = [have EXCEPT ![Asked.body] = h]
    /\ Says(IF Asked.body \in marks /\ have' # have THEN <<Update(Asked.body)>> ELSE <<>>)
    /\ UNCHANGED <<hash, marked, pending, screenVars>>

TackyData ==
    /\ Takes("data") /\ UNCHANGED avatarVars
    /\ \/ Says(<<Result([by |-> Asked.body.by, got |-> have[Asked.body.of] = Asked.body.hash])>>)
       \/ Says(<<[Refusal EXCEPT !.body = [by |-> Asked.body.by, got |-> FALSE]]>>)

TackyChanges ==
    /\ \E p \in People, h \in Hashes \cup {NoHash} :
          /\ have[p] # h /\ have' = [have EXCEPT ![p] = h]
          /\ Tells(IF p \in marks THEN <<Update(p)>> ELSE <<>>)
    /\ UNCHANGED <<hash, marked, pending, screenVars, marks>>

AvatarsNext ==
    \/ \E p \in People : Shows(p) \/ Hides(p) \/ refresh(p)
    \/ fetch \/ AvatarResult \/ AvatarError \/ applyHash
    \/ AvatarsDrop \/ AvatarsAttach
    \/ TackyMarks \/ TackyRefreshes \/ TackyData \/ TackyChanges

----------------------------------------------------------------------------

AvatarsTypeOK ==
    /\ WireTypeOK /\ hash \in [People -> Hashes \cup {NoHash}]
    /\ marked \subseteq People /\ onScreen \subseteq People /\ marks \subseteq People
    /\ pending \subseteq Loads /\ excused \subseteq Loads /\ twice \in BOOLEAN
    /\ response \in [Loads -> {"spare", "queued", "out", "image", "error"}]
    /\ image \in [People -> [src : Hashes \cup {NoHash}, of : Loads \cup {0}]]

\* No response finishes twice, and with nothing under way none waits: everyone on
\* screen has the picture they have, unless the link or tacky refused the load of it.
AvatarsTrue ==
    /\ ~twice
    /\ QuietWire /\ posted = <<>> =>
        /\ pending = {} /\ \A n \in Loads : response[n] \notin {"queued", "out"}
        /\ \A p \in onScreen :
            /\ hash[p] = have[p] /\ image[p].src = hash[p]
            /\ image[p].of # 0 => response[image[p].of] = "image" \/ image[p].of \in excused
=============================================================================
