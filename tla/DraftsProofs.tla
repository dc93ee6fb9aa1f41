---------------------------- MODULE DraftsProofs ----------------------------
(***************************************************************************)
(* The draft store implements Custody, for any drafts, texts, attachments   *)
(* and any number of submissions.                                           *)
(***************************************************************************)
EXTENDS Drafts, NaturalsInduction, WellFoundedInduction, TLAPS

\* A leaf is left to Zenon unless it names SMT: most are first-order.
USE ZenonT(30)

Text == Texts \cup {NoText}
Atts == Attachments \cup {NoAtts}

Submission ==
    [key : Keys, text : Text, atts : Atts, cleared : Nat, stage : Nat, status : Statuses]

Store ==
    [texts : [Keys -> Text], atts : [Keys -> Atts], revisions : [Keys -> Nat],
     subs : [Slots -> Submission], seq : 0..MaxSubmissions]

\* The types of the store of draftStore.ts.
DraftTypeOK == drafts \in Store

\* What Custody sees of a store.
DraftOf(d) == [k \in Keys |-> <<d.texts[k], d.atts[k]>>]
OutboxOf(d) == [i \in Slots |-> <<d.subs[i].text, d.subs[i].atts>>]

\* put, the write under every edit: the draft is replaced, nothing else moves.
LEMMA PutWrites ==
    ASSUME NEW d \in Store, NEW key \in Keys, NEW text \in Text, NEW atts \in Atts
    PROVE  /\ Put(d, key, text, atts) \in Store
           /\ DraftOf(Put(d, key, text, atts)) = [DraftOf(d) EXCEPT ![key] = <<text, atts>>]
           /\ Put(d, key, text, atts).subs = d.subs
           /\ Put(d, key, text, atts).seq = d.seq
<1>a. /\ [d.texts EXCEPT ![key] = text] \in [Keys -> Text]
      /\ [d.atts EXCEPT ![key] = atts] \in [Keys -> Atts]
      /\ [d.revisions EXCEPT ![key] = d.revisions[key] + 1] \in [Keys -> Nat]
  BY SMTT(60) DEF Store
<1>1. Put(d, key, text, atts) \in Store
  BY <1>a DEF Put, Store
<1>2. /\ Put(d, key, text, atts).subs = d.subs
      /\ Put(d, key, text, atts).seq = d.seq
      /\ Put(d, key, text, atts).texts = [d.texts EXCEPT ![key] = text]
      /\ Put(d, key, text, atts).atts = [d.atts EXCEPT ![key] = atts]
  BY DEF Put, Store
<1>3. DraftOf(Put(d, key, text, atts)) = [DraftOf(d) EXCEPT ![key] = <<text, atts>>]
  BY <1>2 DEF DraftOf, Store
<1> QED BY <1>1, <1>2, <1>3

\* A submission replaced in its slot leaves the drafts alone.
LEMMA SlotWritten ==
    ASSUME NEW d \in Store, NEW i \in Slots, NEW s \in Submission
    PROVE  LET e == [d EXCEPT !.subs = [@ EXCEPT ![i] = s]]
           IN  /\ e \in Store
               /\ DraftOf(e) = DraftOf(d)
               /\ OutboxOf(e) = [OutboxOf(d) EXCEPT ![i] = <<s.text, s.atts>>]
               /\ e.seq = d.seq
               /\ e.texts = d.texts /\ e.atts = d.atts
               /\ e.subs = [d.subs EXCEPT ![i] = s]
<1> DEFINE e == [d EXCEPT !.subs = [@ EXCEPT ![i] = s]]
<1>1. /\ e \in Store
      /\ e.seq = d.seq /\ e.texts = d.texts /\ e.atts = d.atts
      /\ e.subs = [d.subs EXCEPT ![i] = s]
  BY DEF Store
<1>2. DraftOf(e) = DraftOf(d)
  BY <1>1, SMTT(60) DEF DraftOf
<1>3. OutboxOf(e) = [OutboxOf(d) EXCEPT ![i] = <<s.text, s.atts>>]
  BY <1>1 DEF OutboxOf, Store
<1> QED BY <1>1, <1>2, <1>3

LEMMA NoSubmissionTyped == NoSubmission \in Submission
BY DraftAssumption DEF NoSubmission, Submission, Text, Atts, NoText, NoAtts, NoStage, Statuses

\* A non-empty set of slots has a first one (acceptSubmissionStage takes it).
LEMMA FirstSlot ==
    ASSUME NEW S, S \subseteq Slots, S # {}
    PROVE  \E i \in S : \A j \in S : i <= j
<1>1. S \subseteq Nat
  BY DraftAssumption, SMTT(60) DEF Slots
<1> DEFINE Less == {ss \in Nat \X Nat : ss[1] < ss[2]}
<1>2. IsWellFoundedOn(Less, Nat)
  BY NatLessThanWellFounded DEF OpToRel
<1> HIDE DEF Less
<1>3. PICK i \in S : \A j \in S : ~(<<j, i>> \in Less)
  BY <1>1, <1>2, WFMin
<1>4. \A j \in S : i <= j
  <2> SUFFICES ASSUME NEW j \in S PROVE i <= j
    OBVIOUS
  <2>1. i \in Nat /\ j \in Nat /\ <<j, i>> \in Nat \X Nat
    BY <1>1
  <2>2. j < i => <<j, i>> \in Less
    BY <2>1 DEF Less
  <2> QED BY <2>1, <2>2, <1>3, SMTT(60)
<1> QED BY <1>4

\* finishSubmission empties one slot.
LEMMA FinishEmpties ==
    ASSUME NEW d \in Store, NEW i \in Slots
    PROVE  LET e == FinishSubmission(d, i)
           IN  /\ e \in Store
               /\ DraftOf(e) = DraftOf(d)
               /\ OutboxOf(e) = [OutboxOf(d) EXCEPT ![i] = <<NoText, NoAtts>>]
               /\ e.seq = d.seq
               /\ e.texts = d.texts /\ e.atts = d.atts
<1> DEFINE e == [d EXCEPT !.subs = [@ EXCEPT ![i] = NoSubmission]]
<1>1. FinishSubmission(d, i) = e
  BY DEF FinishSubmission
<1>2. NoSubmission.text = NoText /\ NoSubmission.atts = NoAtts
  BY DEF NoSubmission
<1>3. /\ e \in Store
      /\ DraftOf(e) = DraftOf(d)
      /\ OutboxOf(e) = [OutboxOf(d) EXCEPT ![i] = <<NoSubmission.text, NoSubmission.atts>>]
      /\ e.seq = d.seq
      /\ e.texts = d.texts /\ e.atts = d.atts
  BY SlotWritten, NoSubmissionTyped, SMTT(60)
<1> QED BY <1>1, <1>2, <1>3

\* Where a store may go from d in one step as Custody sees it.
MovesTo(d, e) ==
    \/ DraftOf(e) = DraftOf(d) /\ OutboxOf(e) = OutboxOf(d) /\ e.seq = d.seq
    \/ \E k \in Keys, c \in Text \X Atts :
          DraftOf(e) = [DraftOf(d) EXCEPT ![k] = c] /\ OutboxOf(e) = OutboxOf(d) /\ e.seq = d.seq
    \/ \E k \in Keys :
          /\ e.seq = d.seq + 1 /\ e.seq \in Slots
          /\ DraftOf(e) = [DraftOf(d) EXCEPT ![k] = <<NoText, NoAtts>>]
          /\ OutboxOf(e) = [OutboxOf(d) EXCEPT ![e.seq] = DraftOf(d)[k]]
    \/ \E i \in Slots :
          /\ OutboxOf(e) = [OutboxOf(d) EXCEPT ![i] = <<NoText, NoAtts>>]
          /\ e.seq = d.seq
          /\ \/ DraftOf(e) = DraftOf(d)
             \/ \E k \in Keys :
                   /\ OutboxOf(d)[i] # <<NoText, NoAtts>>
                   /\ DraftOf(d)[k] = <<NoText, NoAtts>>
                   /\ DraftOf(e) = [DraftOf(d) EXCEPT ![k] = OutboxOf(d)[i]]

\* setText, setAttachments, clearDraft and clearDraftIfMatch are edits.
LEMMA PutMoves ==
    ASSUME NEW d \in Store, NEW key \in Keys, NEW text \in Text, NEW atts \in Atts
    PROVE  LET e == Put(d, key, text, atts) IN e \in Store /\ MovesTo(d, e)
<1> DEFINE e == Put(d, key, text, atts)
<1>1. /\ e \in Store /\ e.seq = d.seq
      /\ DraftOf(e) = [DraftOf(d) EXCEPT ![key] = <<text, atts>>]
      /\ e.subs = d.subs
  BY PutWrites, SMTT(60)
<1>2. OutboxOf(e) = OutboxOf(d)
  BY <1>1 DEF OutboxOf
<1>3. <<text, atts>> \in Text \X Atts
  OBVIOUS
<1> HIDE DEF e
<1> QED BY <1>1, <1>2, <1>3 DEF MovesTo, e

\* beginSubmission sends a draft as a whole.
LEMMA BeginMoves ==
    ASSUME NEW d \in Store, NEW key \in Keys, NEW text \in Text, NEW atts \in Atts,
           CanBegin(d, key, text, atts)
    PROVE  LET e == BeginSubmission(d, key, text, atts) IN e \in Store /\ MovesTo(d, e)
<1> DEFINE c == ClearDraft(d, key)
           s == [key |-> key, text |-> text, atts |-> atts,
                 cleared |-> d.revisions[key] + 1, stage |-> NoStage, status |-> "sending"]
           e == BeginSubmission(d, key, text, atts)
<1>1. /\ c \in Store
      /\ DraftOf(c) = [DraftOf(d) EXCEPT ![key] = <<NoText, NoAtts>>]
      /\ c.subs = d.subs /\ c.seq = d.seq
  BY PutWrites, SMTT(60) DEF ClearDraft, Text, Atts
<1>2. d.seq + 1 \in Slots /\ d.seq + 1 \in 0..MaxSubmissions
  BY DraftAssumption, SMTT(60) DEF CanBegin, Store, Slots
<1>3. s \in Submission
  BY SMTT(60) DEF Store, Submission, Statuses, NoStage
<1>4. e = [c EXCEPT !.seq = @ + 1, !.subs = [@ EXCEPT ![d.seq + 1] = s]]
  BY DEF BeginSubmission
<1> HIDE DEF c, s, e
<1>5. /\ e.seq = d.seq + 1 /\ e.subs = [d.subs EXCEPT ![d.seq + 1] = s]
      /\ e.texts = c.texts /\ e.atts = c.atts
  BY <1>1, <1>4 DEF Store
<1>6. e \in Store
  <2>1. [c.subs EXCEPT ![d.seq + 1] = s] \in [Slots -> Submission]
    BY <1>1, <1>2, <1>3 DEF Store
  <2>2. c.seq + 1 \in 0..MaxSubmissions
    BY <1>1, <1>2
  <2> QED BY <1>1, <1>4, <2>1, <2>2 DEF Store
<1>7. DraftOf(e) = [DraftOf(d) EXCEPT ![key] = <<NoText, NoAtts>>]
  BY <1>1, <1>5 DEF DraftOf
<1>8. DraftOf(d)[key] = <<text, atts>>
  BY DEF CanBegin, Matches, DraftOf
<1>9. OutboxOf(e) = [OutboxOf(d) EXCEPT ![d.seq + 1] = <<text, atts>>]
  <2>1. s.text = text /\ s.atts = atts
    BY DEF s
  <2> QED BY <2>1, <1>2, <1>5 DEF OutboxOf, Store
<1> QED BY <1>2, <1>5, <1>6, <1>7, <1>8, <1>9 DEF MovesTo, e

\* A submission that is renamed, staged or marked keeps its message.
LEMMA MarkMoves ==
    ASSUME NEW d \in Store, NEW i \in Slots, NEW s \in Submission,
           s.text = d.subs[i].text, s.atts = d.subs[i].atts
    PROVE  LET e == [d EXCEPT !.subs = [@ EXCEPT ![i] = s]]
           IN  e \in Store /\ DraftOf(e) = DraftOf(d) /\ OutboxOf(e) = OutboxOf(d) /\ e.seq = d.seq
<1>1. [OutboxOf(d) EXCEPT ![i] = <<s.text, s.atts>>] = OutboxOf(d)
  BY DEF OutboxOf
<1> QED BY <1>1, SlotWritten, SMTT(60)

\* restoreSubmission returns a message to its draft, if that is empty.
LEMMA RestoreMoves ==
    ASSUME NEW d \in Store, NEW i \in Slots
    PROVE  LET e == RestoreSubmission(d, i) IN e \in Store /\ MovesTo(d, e)
<1> DEFINE s == d.subs[i]
           f == FinishSubmission(d, i)
           e == RestoreSubmission(d, i)
<1>1. s \in Submission
  BY DEF Store
<1>2. CASE ~(s.status \in {"failed", "uncertain"} /\ Matches(d, s.key, NoText, NoAtts))
  BY <1>2 DEF RestoreSubmission, MovesTo
<1>3. CASE s.status \in {"failed", "uncertain"} /\ Matches(d, s.key, NoText, NoAtts)
  <2>1. e = Put(f, s.key, s.text, s.atts)
    BY <1>3 DEF RestoreSubmission
  <2>2. s.key \in Keys /\ s.text \in Text /\ s.atts \in Atts
    BY <1>1 DEF Submission
  <2>3. /\ f \in Store /\ DraftOf(f) = DraftOf(d) /\ f.seq = d.seq
        /\ OutboxOf(f) = [OutboxOf(d) EXCEPT ![i] = <<NoText, NoAtts>>]
    BY FinishEmpties
  <2>4. OutboxOf(d)[i] = <<s.text, s.atts>> /\ DraftOf(d)[s.key] = <<NoText, NoAtts>>
    BY <1>3, <2>2 DEF OutboxOf, DraftOf, Matches
  <2> HIDE DEF s, f, e
  <2>5. /\ e \in Store /\ e.subs = f.subs /\ e.seq = f.seq
        /\ DraftOf(e) = [DraftOf(f) EXCEPT ![s.key] = <<s.text, s.atts>>]
    BY <2>1, <2>2, <2>3, PutWrites, SMTT(60)
  <2>6. OutboxOf(e) = OutboxOf(f)
    BY <2>5 DEF OutboxOf
  <2>7. CASE <<s.text, s.atts>> = <<NoText, NoAtts>>
    <3>1. DraftOf(e) = DraftOf(d)
      BY <2>3, <2>4, <2>5, <2>7, <2>2 DEF DraftOf
    <3> QED BY <3>1, <2>3, <2>5, <2>6 DEF MovesTo, e
  <2>8. CASE <<s.text, s.atts>> # <<NoText, NoAtts>>
    <3>1. DraftOf(e) = [DraftOf(d) EXCEPT ![s.key] = OutboxOf(d)[i]]
      BY <2>3, <2>4, <2>5
    <3> QED BY <3>1, <2>2, <2>3, <2>4, <2>5, <2>6, <2>8 DEF MovesTo, e
  <2> QED BY <2>7, <2>8
<1> QED BY <1>2, <1>3

\* failSubmission keeps the message: marked in its slot, or back in its draft.
LEMMA FailMoves ==
    ASSUME NEW d \in Store, NEW i \in Slots, NEW uncertain \in BOOLEAN
    PROVE  LET e == FailSubmission(d, i, uncertain) IN e \in Store /\ MovesTo(d, e)
<1> DEFINE s == [d.subs[i] EXCEPT !.status = IF uncertain THEN "uncertain" ELSE "failed"]
           m == [d EXCEPT !.subs = [@ EXCEPT ![i] = s]]
           e == FailSubmission(d, i, uncertain)
<1>1. s \in Submission /\ s.text = d.subs[i].text /\ s.atts = d.subs[i].atts
  <2>1. d.subs[i] \in Submission
    BY DEF Store
  <2>2. (IF uncertain THEN "uncertain" ELSE "failed") \in Statuses
    BY DEF Statuses
  <2> QED BY <2>1, <2>2 DEF Submission
<1>2. m \in Store /\ DraftOf(m) = DraftOf(d) /\ OutboxOf(m) = OutboxOf(d) /\ m.seq = d.seq
  <2> HIDE DEF s
  <2> QED BY <1>1, MarkMoves
<1>3. e = d \/ e = m \/ e = RestoreSubmission(m, i)
  BY DEF FailSubmission
<1> HIDE DEF m, e
<1>4. CASE e = d
  BY <1>4 DEF MovesTo, e
<1>5. CASE e = m
  BY <1>2, <1>5 DEF MovesTo, e
<1>6. CASE e = RestoreSubmission(m, i)
  <2>1. e \in Store /\ MovesTo(m, e)
    BY <1>2, <1>6, RestoreMoves
  <2>2. MovesTo(d, e)
    BY <1>2, <2>1, SMTT(60) DEF MovesTo
  <2> QED BY <2>1, <2>2 DEF e
<1> QED BY <1>3, <1>4, <1>5, <1>6

\* finishSubmission and acceptSubmissionStage deliver.
LEMMA FinishMoves ==
    ASSUME NEW d \in Store, NEW i \in Slots
    PROVE  LET e == FinishSubmission(d, i) IN e \in Store /\ MovesTo(d, e)
<1> DEFINE e == FinishSubmission(d, i)
<1>1. /\ e \in Store /\ DraftOf(e) = DraftOf(d) /\ e.seq = d.seq
      /\ OutboxOf(e) = [OutboxOf(d) EXCEPT ![i] = <<NoText, NoAtts>>]
  BY FinishEmpties
<1> HIDE DEF e
<1> QED BY <1>1 DEF MovesTo, e

LEMMA AcceptMoves ==
    ASSUME NEW d \in Store, NEW stage \in Nat
    PROVE  LET e == AcceptSubmissionStage(d, stage) IN e \in Store /\ MovesTo(d, e)
<1> DEFINE bound == {i \in Slots : Held(d, i) /\ d.subs[i].stage = stage}
           first == CHOOSE i \in bound : \A j \in bound : i <= j
<1>1. CASE bound = {}
  BY <1>1 DEF AcceptSubmissionStage, MovesTo
<1>2. CASE bound # {}
  <2>1. AcceptSubmissionStage(d, stage) = FinishSubmission(d, first)
    BY <1>2 DEF AcceptSubmissionStage
  <2>2. \E i \in bound : \A j \in bound : i <= j
    <3>1. bound \subseteq Slots
      OBVIOUS
    <3> HIDE DEF bound
    <3> QED BY <1>2, <3>1, FirstSlot
  <2>3. first \in Slots
    BY <2>2
  <2> HIDE DEF bound, first
  <2> QED BY <2>1, <2>3, FinishMoves
<1> QED BY <1>1, <1>2

\* Every call of the store keeps its types and is a step of Custody or none.
LEMMA DraftStep ==
    ASSUME DraftTypeOK, [DraftNext]_drafts
    PROVE  DraftTypeOK' /\ MovesTo(drafts, drafts')
<1> USE DEF DraftTypeOK
<1>1. CASE UNCHANGED drafts
  BY <1>1 DEF MovesTo
<1>2. ASSUME NEW key \in Keys, NEW text \in Text, drafts' = SetText(drafts, key, text)
      PROVE  DraftTypeOK' /\ MovesTo(drafts, drafts')
  <2>1. drafts.atts[key] \in Atts
    BY DEF Store
  <2> QED BY <1>2, <2>1, PutMoves DEF SetText
<1>3. ASSUME NEW key \in Keys, NEW atts \in Atts, drafts' = SetAttachments(drafts, key, atts)
      PROVE  DraftTypeOK' /\ MovesTo(drafts, drafts')
  <2>1. drafts.texts[key] \in Text
    BY DEF Store
  <2> QED BY <1>3, <2>1, PutMoves DEF SetAttachments
<1>4. ASSUME NEW key \in Keys, drafts' = ClearDraft(drafts, key)
      PROVE  DraftTypeOK' /\ MovesTo(drafts, drafts')
  <2>1. NoText \in Text /\ NoAtts \in Atts
    BY DEF Text, Atts
  <2> QED BY <1>4, <2>1, PutMoves DEF ClearDraft
<1>5. ASSUME NEW key \in Keys, NEW text \in Text, NEW atts \in Atts,
             drafts' = ClearDraftIfMatch(drafts, key, text, atts)
      PROVE  DraftTypeOK' /\ MovesTo(drafts, drafts')
  BY <1>1, <1>4, <1>5 DEF ClearDraftIfMatch
<1>6. ASSUME NEW key \in Keys, NEW text \in Text, NEW atts \in Atts,
             CanBegin(drafts, key, text, atts),
             drafts' = BeginSubmission(drafts, key, text, atts)
      PROVE  DraftTypeOK' /\ MovesTo(drafts, drafts')
  BY <1>6, BeginMoves
<1>7. ASSUME NEW i \in Slots, NEW key \in Keys, drafts' = MoveSubmission(drafts, i, key)
      PROVE  DraftTypeOK' /\ MovesTo(drafts, drafts')
  <2> DEFINE s == [drafts.subs[i] EXCEPT !.key = key, !.cleared = drafts.revisions[key]]
  <2>1. s \in Submission /\ s.text = drafts.subs[i].text /\ s.atts = drafts.subs[i].atts
    <3>1. drafts.subs[i] \in Submission /\ drafts.revisions[key] \in Nat
      BY DEF Store
    <3> QED BY <3>1 DEF Submission
  <2>2. CASE drafts' = [drafts EXCEPT !.subs = [@ EXCEPT ![i] = s]]
    <3> HIDE DEF s
    <3> QED BY <2>1, <2>2, MarkMoves, SMTT(60) DEF MovesTo
  <2> QED BY <1>1, <1>7, <2>2 DEF MoveSubmission
<1>8. ASSUME NEW i \in Slots, NEW stage \in Nat, drafts' = BindSubmissionStage(drafts, i, stage)
      PROVE  DraftTypeOK' /\ MovesTo(drafts, drafts')
  <2> DEFINE s == [drafts.subs[i] EXCEPT !.stage = stage]
  <2>1. s \in Submission /\ s.text = drafts.subs[i].text /\ s.atts = drafts.subs[i].atts
    <3>1. drafts.subs[i] \in Submission
      BY DEF Store
    <3> QED BY <3>1 DEF Submission
  <2>2. CASE drafts' = [drafts EXCEPT !.subs = [@ EXCEPT ![i] = s]]
    <3> HIDE DEF s
    <3> QED BY <2>1, <2>2, MarkMoves, SMTT(60) DEF MovesTo
  <2> QED BY <1>1, <1>8, <2>2 DEF BindSubmissionStage
<1>9. ASSUME NEW i \in Slots, drafts' = FinishSubmission(drafts, i)
      PROVE  DraftTypeOK' /\ MovesTo(drafts, drafts')
  BY <1>9, FinishMoves
<1>10. ASSUME NEW i \in Slots, NEW uncertain \in BOOLEAN,
              drafts' = FailSubmission(drafts, i, uncertain)
       PROVE  DraftTypeOK' /\ MovesTo(drafts, drafts')
  BY <1>10, FailMoves
<1>11. ASSUME NEW i \in Slots, drafts' = RestoreSubmission(drafts, i)
       PROVE  DraftTypeOK' /\ MovesTo(drafts, drafts')
  BY <1>11, RestoreMoves
<1>12. ASSUME NEW stage \in Nat, drafts' = AcceptSubmissionStage(drafts, stage)
       PROVE  DraftTypeOK' /\ MovesTo(drafts, drafts')
  BY <1>12, AcceptMoves
<1> HIDE DEF DraftTypeOK
<1> QED
  BY <1>1, <1>2, <1>3, <1>4, <1>5, <1>6, <1>7, <1>8, <1>9, <1>10, <1>11, <1>12
  DEF DraftNext, Text, Atts

\* A step of the store is one of Custody's.
LEMMA CustodyStep ==
    ASSUME MovesTo(drafts, drafts')
    PROVE  [Custody!Next]_(Custody!custodyVars)
<1> DEFINE Empty == <<NoText, NoAtts>>
<1>1. CASE /\ DraftOf(drafts') = DraftOf(drafts) /\ OutboxOf(drafts') = OutboxOf(drafts)
           /\ drafts'.seq = drafts.seq
  BY <1>1 DEF Custody!custodyVars, DraftOf, OutboxOf
<1>2. ASSUME NEW k \in Keys, NEW c \in Text \X Atts,
             DraftOf(drafts') = [DraftOf(drafts) EXCEPT ![k] = c],
             OutboxOf(drafts') = OutboxOf(drafts), drafts'.seq = drafts.seq
      PROVE  Custody!Edit(k)
  BY <1>2 DEF Custody!Edit, DraftOf, OutboxOf, Text, Atts
<1>3. ASSUME NEW k \in Keys, drafts'.seq = drafts.seq + 1, drafts'.seq \in Slots,
             DraftOf(drafts') = [DraftOf(drafts) EXCEPT ![k] = Empty],
             OutboxOf(drafts') = [OutboxOf(drafts) EXCEPT ![drafts'.seq] = DraftOf(drafts)[k]]
      PROVE  Custody!Send(k)
  BY <1>3 DEF Custody!Send, DraftOf, OutboxOf
<1>4. ASSUME NEW i \in Slots, DraftOf(drafts') = DraftOf(drafts), drafts'.seq = drafts.seq,
             OutboxOf(drafts') = [OutboxOf(drafts) EXCEPT ![i] = Empty]
      PROVE  Custody!Deliver(i)
  BY <1>4 DEF Custody!Deliver, DraftOf, OutboxOf
<1>5. ASSUME NEW i \in Slots, NEW k \in Keys, drafts'.seq = drafts.seq,
             OutboxOf(drafts)[i] # Empty, DraftOf(drafts)[k] = Empty,
             DraftOf(drafts') = [DraftOf(drafts) EXCEPT ![k] = OutboxOf(drafts)[i]],
             OutboxOf(drafts') = [OutboxOf(drafts) EXCEPT ![i] = Empty]
      PROVE  Custody!Return(i, k)
  BY <1>5 DEF Custody!Return, DraftOf, OutboxOf
<1> QED BY <1>1, <1>2, <1>3, <1>4, <1>5 DEF MovesTo, Custody!Next

\* The types of the store are kept by every call, in any order.
THEOREM DraftTypes == DraftSpec => []DraftTypeOK
<1>1. DraftInit => DraftTypeOK
  BY NoSubmissionTyped, DraftAssumption, SMTT(60) DEF DraftInit, DraftTypeOK, Store, Text, Atts, NoText, NoAtts
<1>2. DraftTypeOK /\ [DraftNext]_drafts => DraftTypeOK'
  BY DraftStep
<1> QED BY <1>1, <1>2, PTL DEF DraftSpec

\* draftStore.ts implements Custody whatever calls are made in whatever order: a
\* message is moved whole, kept until delivered, and returned only unchanged and
\* only into an empty draft.
THEOREM StoreKeepsCustody == DraftSpec => KeepsCustody
<1>1. DraftInit => Custody!Init
  BY SMTT(60) DEF DraftInit, Custody!Init, NoSubmission
<1>2. DraftTypeOK /\ [DraftNext]_drafts => [Custody!Next]_(Custody!custodyVars)
  BY DraftStep, CustodyStep
<1> QED BY <1>1, <1>2, DraftTypes, PTL DEF DraftSpec, KeepsCustody, Custody!Spec
=============================================================================
