---------------------------- MODULE Attachments ----------------------------
(***************************************************************************)
(* The files that messages carry (the transfers of a ChatModel): downloads   *)
(* keyed by their source and shared by every message that quotes it, an      *)
(* upload keyed by the message it belongs to, and taps that want a file.     *)
(***************************************************************************)
EXTENDS Wire, SequencesExt

CONSTANTS
    Quoting,        \* messages of others, all of which quote one file
    Own,            \* a message of ours, with a file that is being sent
    Taps            \* the taps that may be waited on at once (bound)

VARIABLES
    rows,           \* whose messages are in the window
    key,            \* the timestamp under which our message is in it
    xfer,           \* m_xfer: what is known of each source
    upload,         \* m_upload
    pendingAction,  \* m_pendingAction: the taps that wait for a file
    forgotten,      \* sources uncached and not fetched since (history)
    crossed,        \* uncached while word of them was under way (history)
    followed,       \* word of its upload came while our row was there (history)
    \* tacky
    file,           \* each source's file: none, active, done or failed
    waiting,        \* the taps it answers when a file has come or has not
    put,            \* the upload
    stamp           \* our message's timestamp in the store

fileVars ==
    <<rows, key, xfer, upload, pendingAction, forgotten, crossed, followed, file, waiting, put, stamp>>
modelVars == <<rows, key, xfer, upload, pendingAction, forgotten, followed>>
tackyVars == <<crossed, file, waiting, put, stamp>>

Messages == Quoting \cup {Own}
Sources == {"theirs", "ours"}
Stamps == {"sent", "moved"}
sourceKey(m) == IF m = Own THEN "ours" ELSE "theirs"

\* The file of the others is at its server; ours is on its way there.
FilesInit ==
    /\ WireInit /\ rows = {} /\ key = "sent" /\ xfer = [s \in Sources |-> "none"]
    /\ upload = [k \in Stamps |-> "none"] /\ pendingAction = {}
    /\ forgotten = {} /\ crossed = {} /\ followed = FALSE
    /\ file = [s \in Sources |-> "none"] /\ waiting = {} /\ put = "active" /\ stamp = "sent"

----------------------------------------------------------------------------
(* Rows come and go with the window (ChatWindow).                            *)

\* What fetchThumbs() asks for: the policy may hold back what others sent.
Fetch(m) == Frame("download", [src |-> sourceKey(m), auto |-> m # Own])

Confirming == \E i \in DOMAIN toUi : toUi[i].kind = "Confirmed"

\* Inserted by a batch.  One that precedes the confirmation has the row as it was.
Insert(m) ==
    /\ up /\ Fits(1) /\ m \notin rows /\ rows' = rows \cup {m} /\ notify(<<Fetch(m)>>)
    /\ key' = IF m # Own THEN key ELSE IF Confirming THEN "sent" ELSE stamp
    /\ forgotten' = forgotten \ {sourceKey(m)}
    /\ UNCHANGED <<xfer, upload, pendingAction, followed, tackyVars>>

\* Culled, or retracted: nothing of it is shown any more.
Leave(m) ==
    /\ m \in rows /\ rows' = rows \ {m} /\ followed' = (followed /\ m # Own)
    /\ UNCHANGED <<wire, key, xfer, upload, pendingAction, forgotten, tackyVars>>

\* Another chat and back, or a link that is back: "the transfers belonged to the
\* rows we just dropped".
Reset ==
    /\ rows' = {} /\ xfer' = [s \in Sources |-> "none"] /\ upload' = [k \in Stamps |-> "none"]
    /\ pendingAction' = {} /\ followed' = FALSE /\ UNCHANGED <<key, forgotten>>

FilesReload == rows # {} /\ Reset /\ UNCHANGED <<wire, tackyVars>>

----------------------------------------------------------------------------
(* The user.                                                                *)

loadAttachment(m) ==
    /\ m \in rows /\ Fits(1)
    /\ notify(<<Frame("download", [src |-> sourceKey(m), auto |-> FALSE])>>)
    /\ UNCHANGED fileVars

\* Open, save or reveal: at once if the file is here, and else once tacky has it.
Tapped(q) == {q[i].body.tap : i \in {j \in DOMAIN q : q[j].kind = "open"}}
Free == Taps \ (pendingAction \cup Tapped(toTacky) \cup Tapped(toUi) \cup {f.body.tap : f \in waiting})

resolveAttachment(m) ==
    /\ m \in rows /\ Fits(1) /\ xfer[sourceKey(m)] # "done" /\ Free # {}
    /\ LET t == CHOOSE t \in Free : TRUE
       IN  /\ pendingAction' = pendingAction \cup {t}
           /\ send(toUi, {}, <<Call("open", [src |-> sourceKey(m), tap |-> t])>>)
    /\ UNCHANGED <<rows, key, xfer, upload, forgotten, followed, tackyVars>>

\* An upload by the message it belongs to, a download by its source.
cancelAttachment(m) ==
    /\ m \in rows /\ Fits(1)
    /\ notify(<<IF m = Own /\ upload[key] # "none" THEN Frame("cancelUpload", key)
                ELSE Frame("cancel", sourceKey(m))>>)
    /\ UNCHANGED fileVars

\* "tacky deletes them and says nothing afterwards"
uncacheAttachment(m) ==
    /\ m \in rows \cap Quoting /\ Fits(1) /\ notify(<<Frame("uncache", sourceKey(m))>>)
    /\ xfer' = [xfer EXCEPT ![sourceKey(m)] = "none"]
    /\ forgotten' = forgotten \cup {sourceKey(m)}
    /\ UNCHANGED <<rows, key, upload, pendingAction, followed, tackyVars>>

retryUpload ==
    /\ Own \in rows /\ upload[key] = "failed" /\ Fits(1) /\ notify(<<Frame("retryUpload", key)>>)
    /\ UNCHANGED fileVars

----------------------------------------------------------------------------
(* Frames.                                                                  *)

DownloadUpdate ==
    /\ Arrives("Download") /\ Took /\ xfer' = [xfer EXCEPT ![Given.body.src] = Given.body.state]
    /\ UNCHANGED <<rows, key, upload, pendingAction, forgotten, followed, tackyVars>>

UploadUpdate ==
    /\ Arrives("Upload") /\ Took /\ upload' = [upload EXCEPT ![Given.body.id] = Given.body.state]
    /\ followed' = (followed \/ Own \in rows)
    /\ UNCHANGED <<rows, key, xfer, pendingAction, forgotten, tackyVars>>

\* A file, or word that there is none: the tap ends.
FinishAction ==
    /\ Arrives("open") /\ Took /\ pendingAction' = pendingAction \ {Given.body.tap}
    /\ UNCHANGED <<rows, key, xfer, upload, forgotten, followed, tackyVars>>

\* The upload follows a row that moves, and the row, inserted anew, fetches again.
applyConfirmed ==
    /\ Arrives("Confirmed") /\ Room
    /\ IF Own \notin rows \/ Given.body = key THEN Took /\ UNCHANGED <<key, upload>>
       ELSE /\ key' = Given.body
            /\ upload' = IF upload[key] = "none" THEN upload
                         ELSE [upload EXCEPT ![key] = "none", ![Given.body] = upload[key]]
            /\ send(Rest, {}, <<Fetch(Own)>>)
    /\ UNCHANGED <<rows, xfer, pendingAction, forgotten, followed, tackyVars>>

FilesDrop ==
    /\ Lost /\ pendingAction' = {} /\ waiting' = {}
    /\ UNCHANGED <<rows, key, xfer, upload, forgotten, followed, crossed, file, put, stamp>>

FilesAttach == Comes({}, <<>>) /\ Reset /\ UNCHANGED tackyVars

----------------------------------------------------------------------------
(* tacky                                                                    *)

Word(s, st) == Frame("Download", [src |-> s, state |-> st])
Answers(s) == LET w == SetToSeq({f \in waiting : f.body.src = s})
              IN  [i \in DOMAIN w |-> [w[i] EXCEPT !.is = "result"]]

\* From now on what is known of s is what was said last.
Told(s) == crossed' = crossed \ {s}

\* A download joins one that runs, a file that is here is served; what is ours is
\* read where it lies; and the policy may hold back what was not asked for.
TackyDownloads ==
    LET s == Asked.body.src
    IN  /\ Takes("download")
        /\ \/ /\ file[s] = "active" /\ Says(<<>>) /\ UNCHANGED <<file, crossed>>
           \/ \E st \in CASE file[s] = "active" -> {"active"}
                          [] file[s] = "done" -> {"done"}
                          [] s = "ours" -> {"done", "failed"}
                          [] Asked.body.auto -> {"active", "none"}
                          [] OTHER -> {"active"} :
                 /\ file' = [file EXCEPT ![s] = st] /\ Told(s)
                 /\ Says(<<Word(s, IF st = "none" THEN "idle" ELSE st)>>)
        /\ UNCHANGED <<modelVars, waiting, put, stamp>>

TackyOpens ==
    LET s == Asked.body.src
        there == file[s] = "done" \/ s = "ours"
    IN  /\ Takes("open") /\ Told(s)
        /\ file' = [file EXCEPT ![s] = IF there THEN "done" ELSE "active"]
        /\ Says(<<Word(s, file'[s])>> \o IF there THEN <<Result(Asked.body)>> ELSE <<>>)
        /\ waiting' = IF there THEN waiting ELSE waiting \cup {Asked}
        /\ UNCHANGED <<modelVars, put, stamp>>

\* A download goes on, ends or fails, and with it the taps that wait on it.
TackyFetches ==
    /\ file["theirs"] = "active" /\ Told("theirs")
    /\ \E st \in {"active", "done", "failed"} :
          /\ file' = [file EXCEPT !["theirs"] = st]
          /\ Tells(<<Word("theirs", st)>> \o IF st = "active" THEN <<>> ELSE Answers("theirs"))
          /\ waiting' = IF st = "active" THEN waiting ELSE {}
    /\ UNCHANGED <<modelVars, put, stamp>>

TackyCancels ==
    LET s == Asked.body
    IN  /\ Takes("cancel")
        /\ IF file[s] = "active"
           THEN /\ Says(<<Word(s, "idle")>> \o Answers(s)) /\ Told(s)
                /\ file' = [file EXCEPT ![s] = "none"] /\ waiting' = {}
           ELSE Says(<<>>) /\ UNCHANGED <<crossed, file, waiting>>
        /\ UNCHANGED <<modelVars, put, stamp>>

\* One that runs is left to run.
TackyUncaches ==
    LET s == Asked.body
    IN  /\ Takes("uncache") /\ Says(<<>>)
        /\ IF file[s] = "active" THEN UNCHANGED <<crossed, file>>
           ELSE /\ file' = [file EXCEPT ![s] = "none"]
                /\ crossed' = IF xfer[s] # "none" \/ \E i \in DOMAIN toUi : toUi[i].kind = "Download"
                              THEN crossed \cup {s} ELSE crossed
        /\ UNCHANGED <<modelVars, waiting, put, stamp>>

UploadWord(st) == Frame("Upload", [id |-> stamp, state |-> st])

\* The upload goes on, ends or fails.
TackyPuts ==
    /\ put = "active" /\ put' \in {"active", "done", "failed"} /\ Tells(<<UploadWord(put')>>)
    /\ UNCHANGED <<modelVars, crossed, file, waiting, stamp>>

\* Cancelled or tried again, by the timestamp it has.
TackyMinds ==
    /\ Takes("cancelUpload") \/ Takes("retryUpload")
    /\ LET from == IF Takes("retryUpload") THEN "failed" ELSE "active"
           to == IF Takes("retryUpload") THEN "active" ELSE "idle"
       IN  IF put = from /\ Asked.body = stamp THEN put' = to /\ Says(<<UploadWord(to)>>)
           ELSE put' = put /\ Says(<<>>)
    /\ UNCHANGED <<modelVars, crossed, file, waiting, stamp>>

\* The server has the message, perhaps at another place in the chat.
TackyConfirms ==
    /\ put = "done" /\ stamp = "sent" /\ stamp' \in Stamps /\ Tells(<<Frame("Confirmed", stamp')>>)
    /\ UNCHANGED <<modelVars, crossed, file, waiting, put>>

FilesNext ==
    \/ \E m \in Messages :
          \/ Insert(m) \/ Leave(m) \/ loadAttachment(m) \/ resolveAttachment(m)
          \/ cancelAttachment(m) \/ uncacheAttachment(m)
    \/ FilesReload \/ retryUpload
    \/ DownloadUpdate \/ UploadUpdate \/ FinishAction \/ applyConfirmed
    \/ FilesDrop \/ FilesAttach
    \/ TackyDownloads \/ TackyOpens \/ TackyFetches \/ TackyCancels \/ TackyUncaches
    \/ TackyPuts \/ TackyMinds \/ TackyConfirms

----------------------------------------------------------------------------

FilesTypeOK ==
    /\ WireTypeOK /\ rows \subseteq Messages /\ key \in Stamps /\ stamp \in Stamps
    /\ xfer \in [Sources -> {"none", "idle", "active", "done", "failed"}]
    /\ upload \in [Stamps -> {"none", "idle", "active", "done", "failed"}]
    /\ pendingAction \subseteq Taps /\ forgotten \subseteq Sources /\ crossed \subseteq Sources
    /\ followed \in BOOLEAN /\ put \in {"idle", "active", "done", "failed"}
    /\ file \in [Sources -> {"none", "active", "done", "failed"}]
    /\ \A f \in waiting : f.body.tap \in Taps

\* A source as it is shown: one held back or cancelled as one that never ran.
Shown(s) == IF xfer[s] = "idle" THEN "none" ELSE xfer[s]

\* With nothing under way a row shows its file as tacky has it, one that was not
\* deleted from here has been asked for, our upload is on our row wherever that has
\* moved, and no tap waits that tacky does not know of.
FilesTrue ==
    QuietWire =>
        /\ \A s \in Sources : xfer[s] # "none" /\ s \notin crossed => Shown(s) = file[s]
        /\ \A m \in rows :
              LET s == sourceKey(m)
              IN  xfer[s] # "none" \/ s \in forgotten \/ file[s] = "active"
        /\ Own \in rows /\ followed => upload[key] = put
        /\ pendingAction \subseteq {f.body.tap : f \in waiting}
=============================================================================
