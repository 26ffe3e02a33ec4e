------------------------------ MODULE Composer ------------------------------
(***************************************************************************)
(* The part of ChatSession a composer works on: one field that holds the    *)
(* draft or a message being corrected, a queue of files, and a reply.       *)
(***************************************************************************)
EXTENDS Naturals, Sequences

CONSTANTS
    Words,      \* what is typed
    Space,      \* of Words, leaves no text once trimmed
    Nick,       \* of Words, a mention
    Messages,   \* that can be answered or corrected
    None,
    Files,
    MaxQueue    \* words in the field, files in the queue (bound)

ASSUME ComposerAssumption ==
    /\ Space \in Words /\ Nick \in Words /\ None \notin Messages /\ MaxQueue \in Nat

VARIABLES
    draft,      \* the field
    pending, replyTo, editing,
    stash,      \* what an edit displaced: nothing, or one draft
    typed       \* the draft last seen outside an edit (history)

composerVars == <<draft, pending, replyTo, editing, stash, typed>>

Drafts == UNION {[1..n -> Words] : n \in 0..MaxQueue}
Trimmed(d) == SelectSeq(d, LAMBDA w : w # Space)
Blank(d) == Trimmed(d) = <<>>

ComposerInit ==
    /\ draft = <<>> /\ pending = <<>> /\ replyTo = None /\ editing = None /\ stash = <<>>
    /\ typed = <<>>

Sees == typed' = IF editing' = None THEN draft' ELSE typed

setDraft(d) ==
    /\ d # draft /\ draft' = d
    /\ UNCHANGED <<pending, replyTo, editing, stash>>

mention ==
    /\ Len(draft) < MaxQueue
    /\ draft' = IF Blank(draft) THEN <<Nick>> ELSE Append(draft, Nick)
    /\ UNCHANGED <<pending, replyTo, editing, stash>>

attach(f) ==
    /\ Len(pending) < MaxQueue /\ pending' = Append(pending, f)
    /\ UNCHANGED <<draft, replyTo, editing, stash>>

unattach(i) ==
    /\ pending' = [k \in 1..(Len(pending) - 1) |-> pending[IF k < i THEN k ELSE k + 1]]
    /\ UNCHANGED <<draft, replyTo, editing, stash>>

\* As a bug would have it: the stash left for the next edit to find
cancelEditOnly ==
    /\ editing' = None /\ draft' = IF stash = <<>> THEN draft ELSE stash[1]
    /\ UNCHANGED stash

\* restoreStash with it
cancelEdit ==
    /\ editing' = None
    /\ IF editing # None /\ stash # <<>>
       THEN draft' = stash[1] /\ stash' = <<>>
       ELSE UNCHANGED <<draft, stash>>

cancelReply == replyTo' = None

replyToMessage(m) == cancelEdit /\ replyTo' = m /\ UNCHANGED pending

\* One edit straight into another keeps the first stash.
editMessage(m, body) ==
    /\ cancelReply /\ editing' = m
    /\ stash' = IF stash = <<>> THEN <<draft>> ELSE stash
    /\ draft' = body
    /\ UNCHANGED pending

\* A correction of blanks is refused; the queue waits until the correction is out.
sendDraft ==
    IF editing # None
    THEN ~Blank(draft) /\ cancelEdit /\ UNCHANGED <<pending, replyTo>>
    ELSE /\ ~Blank(draft) \/ pending # <<>>
         /\ pending' = <<>> /\ draft' = <<>> /\ cancelReply
         /\ UNCHANGED <<editing, stash>>

ComposerStep ==
    \/ \E d \in Drafts : setDraft(d)
    \/ mention \/ sendDraft
    \/ (\E f \in Files : attach(f)) \/ (\E i \in DOMAIN pending : unattach(i))
    \/ \E m \in Messages : replyToMessage(m) \/ (\E d \in Drafts \ {<<>>} : editMessage(m, d))
    \/ editing # None /\ cancelEdit /\ UNCHANGED <<pending, replyTo>>
    \/ replyTo # None /\ cancelReply /\ UNCHANGED <<draft, pending, editing, stash>>

ComposerNext == ComposerStep /\ Sees

ComposerSpec == ComposerInit /\ [][ComposerNext]_composerVars

----------------------------------------------------------------------------

ComposerTypeOK ==
    /\ draft \in Drafts /\ typed \in Drafts
    /\ pending \in Seq(Files) /\ Len(pending) <= MaxQueue
    /\ replyTo \in Messages \cup {None} /\ editing \in Messages \cup {None}
    /\ stash \in {<<>>} \cup {<<d>> : d \in Drafts} /\ (stash # <<>>) = (editing # None)

\* However a correction ends - sent, cancelled, or a reply begun instead, and
\* after any number of corrections in a row - the field holds what was being
\* written before it.
DraftComesBack == [][ComposerTypeOK' /\ (editing # None /\ editing' = None => draft' = typed)]_composerVars
=============================================================================
