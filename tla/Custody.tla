------------------------------ MODULE Custody ------------------------------
(***************************************************************************)
(* What the composer promises about the words a user types: a message is    *)
(* in one place at a time.  Sending moves it out of its draft as a whole,   *)
(* it stays in the outbox until it is delivered, and it comes back only     *)
(* unchanged and only into an empty draft.                                  *)
(***************************************************************************)
EXTENDS Naturals

CONSTANTS Keys, Contents, Empty, Slots

VARIABLES draft, outbox, sent

custodyVars == <<draft, outbox, sent>>

Init ==
    /\ draft = [k \in Keys |-> Empty]
    /\ outbox = [i \in Slots |-> Empty]
    /\ sent = 0

\* The user rewrites or discards a draft; nothing in the outbox moves.
Edit(k) ==
    /\ \E c \in Contents : draft' = [draft EXCEPT ![k] = c]
    /\ UNCHANGED <<outbox, sent>>

\* A draft becomes the next message of the outbox, whole, and is left empty.
Send(k) ==
    /\ sent' = sent + 1
    /\ sent' \in Slots
    /\ draft' = [draft EXCEPT ![k] = Empty]
    /\ outbox' = [outbox EXCEPT ![sent'] = draft[k]]

\* A message leaves the outbox for good.
Deliver(i) ==
    /\ outbox' = [outbox EXCEPT ![i] = Empty]
    /\ UNCHANGED <<draft, sent>>

\* A message comes back unchanged, and never over something typed since.
Return(i, k) ==
    /\ outbox[i] # Empty
    /\ draft[k] = Empty
    /\ draft' = [draft EXCEPT ![k] = outbox[i]]
    /\ outbox' = [outbox EXCEPT ![i] = Empty]
    /\ UNCHANGED sent

Next ==
    \/ \E k \in Keys : Edit(k) \/ Send(k)
    \/ \E i \in Slots : Deliver(i) \/ \E k \in Keys : Return(i, k)

Spec == Init /\ [][Next]_custodyVars
============================================================================
