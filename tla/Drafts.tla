------------------------------- MODULE Drafts -------------------------------
(***************************************************************************)
(* The draft store of the browser (webui/src/stores/draftStore.ts).         *)
(*                                                                         *)
(* A draft is what the composer of one session holds: a text and a list of  *)
(* attachments.  A submission is a message taken out of a draft until the   *)
(* server is known to have it.  Every operation of the store is an operator *)
(* from the store's state to its next state; DraftNext lets callers make    *)
(* any call at any time.                                                    *)
(***************************************************************************)
EXTENDS Naturals

CONSTANTS
    Keys,           \* draft keys: the sessions, and the page without one
    Texts,          \* texts a user may type
    Attachments,    \* attachment lists, told apart by their paths
    MaxSubmissions  \* bound on the submission sequence

NoText == 0
NoAtts == 0
NoStage == 0
Statuses == {"none", "sending", "failed", "uncertain"}
Slots == 1..MaxSubmissions

ASSUME DraftAssumption ==
    /\ MaxSubmissions \in Nat
    /\ Keys # {}
    /\ NoText \notin Texts
    /\ NoAtts \notin Attachments

VARIABLE drafts

\* A slot of the submission table that holds nothing.
NoSubmission ==
    [key |-> CHOOSE k \in Keys : TRUE, text |-> NoText, atts |-> NoAtts, cleared |-> 0,
     stage |-> NoStage, status |-> "none"]

DraftInit ==
    drafts = [texts |-> [k \in Keys |-> NoText],
              atts |-> [k \in Keys |-> NoAtts],
              revisions |-> [k \in Keys |-> 0],
              subs |-> [i \in Slots |-> NoSubmission],
              seq |-> 0]

\* Every write to a draft is a new revision of it.
Put(d, key, text, atts) ==
    [d EXCEPT !.texts = [@ EXCEPT ![key] = text],
              !.atts = [@ EXCEPT ![key] = atts],
              !.revisions = [@ EXCEPT ![key] = d.revisions[key] + 1]]

SetText(d, key, text) == Put(d, key, text, d.atts[key])

SetAttachments(d, key, atts) == Put(d, key, d.texts[key], atts)

ClearDraft(d, key) == Put(d, key, NoText, NoAtts)

Matches(d, key, text, atts) == d.texts[key] = text /\ d.atts[key] = atts

ClearDraftIfMatch(d, key, text, atts) ==
    IF Matches(d, key, text, atts) THEN ClearDraft(d, key) ELSE d

Held(d, i) == d.subs[i].status # "none"

\* The lock of beginSubmission: one unsettled submission per draft.
Locked(d, key) ==
    \E i \in Slots : d.subs[i].key = key /\ d.subs[i].status \in {"sending", "uncertain"}

CanBegin(d, key, text, atts) ==
    /\ Matches(d, key, text, atts)
    /\ ~Locked(d, key)
    /\ d.seq < MaxSubmissions

BeginSubmission(d, key, text, atts) ==
    [ClearDraft(d, key) EXCEPT
        !.seq = @ + 1,
        !.subs = [@ EXCEPT ![d.seq + 1] =
            [key |-> key, text |-> text, atts |-> atts,
             cleared |-> d.revisions[key] + 1, stage |-> NoStage, status |-> "sending"]]]

MoveSubmission(d, i, key) ==
    IF ~Held(d, i) THEN d
    ELSE [d EXCEPT !.subs = [@ EXCEPT ![i] =
             [d.subs[i] EXCEPT !.key = key, !.cleared = d.revisions[key]]]]

BindSubmissionStage(d, i, stage) ==
    IF ~Held(d, i) THEN d
    ELSE [d EXCEPT !.subs = [@ EXCEPT ![i] = [d.subs[i] EXCEPT !.stage = stage]]]

FinishSubmission(d, i) ==
    [d EXCEPT !.subs = [@ EXCEPT ![i] = NoSubmission]]

\* The first submission bound to that stage, if there still is one.
AcceptSubmissionStage(d, stage) ==
    LET bound == {i \in Slots : Held(d, i) /\ d.subs[i].stage = stage}
    IN  IF bound = {} THEN d
        ELSE FinishSubmission(d, CHOOSE i \in bound : \A j \in bound : i <= j)

RestoreSubmission_Overwrites(d, i) ==
    LET item == d.subs[i]
    IN  IF item.status \in {"failed", "uncertain"}
        THEN Put(FinishSubmission(d, i), item.key, item.text, item.atts)
        ELSE d

RestoreSubmission(d, i) ==
    LET item == d.subs[i]
    IN  IF /\ item.status \in {"failed", "uncertain"}
           /\ Matches(d, item.key, NoText, NoAtts)
        THEN Put(FinishSubmission(d, i), item.key, item.text, item.atts)
        ELSE d

FailSubmission_Forgets(d, i, uncertain) ==
    IF ~Held(d, i) THEN d
    ELSE IF uncertain \/ d.revisions[d.subs[i].key] # d.subs[i].cleared THEN FinishSubmission(d, i)
    ELSE RestoreSubmission(d, i)

\* A draft that changed since the message left it is never overwritten: a
\* changed and emptied draft is a new revision too.
FailSubmission(d, i, uncertain) ==
    IF ~Held(d, i) THEN d
    ELSE LET marked == [d EXCEPT !.subs = [@ EXCEPT ![i] =
                           [d.subs[i] EXCEPT !.status = IF uncertain THEN "uncertain" ELSE "failed"]]]
         IN  IF uncertain \/ d.revisions[d.subs[i].key] # d.subs[i].cleared
             THEN marked
             ELSE RestoreSubmission(marked, i)

(***************************************************************************)
(* Any caller, any order.                                                   *)
(***************************************************************************)
DraftNext ==
    \/ \E key \in Keys, text \in Texts \cup {NoText} : drafts' = SetText(drafts, key, text)
    \/ \E key \in Keys, atts \in Attachments \cup {NoAtts} :
           drafts' = SetAttachments(drafts, key, atts)
    \/ \E key \in Keys : drafts' = ClearDraft(drafts, key)
    \/ \E key \in Keys, text \in Texts \cup {NoText}, atts \in Attachments \cup {NoAtts} :
           \/ drafts' = ClearDraftIfMatch(drafts, key, text, atts)
           \/ /\ CanBegin(drafts, key, text, atts)
              /\ drafts' = BeginSubmission(drafts, key, text, atts)
    \/ \E i \in Slots :
           \/ \E key \in Keys : drafts' = MoveSubmission(drafts, i, key)
           \/ \E stage \in Nat : drafts' = BindSubmissionStage(drafts, i, stage)
           \/ drafts' = FinishSubmission(drafts, i)
           \/ \E uncertain \in BOOLEAN : drafts' = FailSubmission(drafts, i, uncertain)
           \/ drafts' = RestoreSubmission(drafts, i)
    \/ \E stage \in Nat : drafts' = AcceptSubmissionStage(drafts, stage)

DraftSpec == DraftInit /\ [][DraftNext]_drafts

(***************************************************************************)
(* The store keeps custody of every message.                                *)
(***************************************************************************)
Custody == INSTANCE Custody WITH
    Contents <- (Texts \cup {NoText}) \X (Attachments \cup {NoAtts}),
    Empty <- <<NoText, NoAtts>>,
    draft <- [k \in Keys |-> <<drafts.texts[k], drafts.atts[k]>>],
    outbox <- [i \in Slots |-> <<drafts.subs[i].text, drafts.subs[i].atts>>],
    sent <- drafts.seq

\* draftStore.ts, as its callers use it: a message is moved out of its draft
\* as a whole, stays in the outbox until it is delivered, and returns only
\* unchanged and only into an empty draft; nothing typed since is overwritten
\* ("A changed-then-emptied draft is still a new revision").
KeepsCustody == Custody!Spec
============================================================================
