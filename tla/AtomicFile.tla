------------------------------- MODULE AtomicFile -------------------------------
(***************************************************************************)
(* What the transactions of a database file promise, whatever the log that *)
(* keeps the promise: inside a transaction the updates are seen at once    *)
(* but do not last until the commit; outside they last at once.  Nothing   *)
(* but an update changes what is seen, and there is none while the file is *)
(* opened, closed or rolled back.                                          *)
(***************************************************************************)
CONSTANTS
  Contents,  \* what the file may hold
  Empty      \* what a new file holds

VARIABLES
  shown,   \* what a reader of the database sees
  fixed,   \* what the next opening of the file would show after a death
  tran,    \* whether a transaction is open
  ready    \* whether updates are taken

Init == shown = Empty /\ fixed = Empty /\ tran = FALSE /\ ready = FALSE

Update == /\ ready /\ shown' \in Contents
          /\ fixed' = IF tran THEN fixed ELSE shown'
          /\ UNCHANGED <<tran, ready>>

Begin == ready /\ ~tran /\ tran' = TRUE /\ UNCHANGED <<shown, fixed, ready>>

Commit == ready /\ tran /\ tran' = FALSE /\ fixed' = shown /\ UNCHANGED <<shown, ready>>

\* An abort, a close or a death.
RollBack == tran' = FALSE /\ ready' = FALSE /\ shown' = fixed /\ UNCHANGED fixed

\* The file is open, or the abort done.
Ready == ~ready /\ ready' = TRUE /\ UNCHANGED <<shown, fixed, tran>>

\* The file is made anew before it is opened.
Create == /\ ~ready /\ shown' = Empty /\ fixed' = Empty /\ UNCHANGED <<tran, ready>>

Next == Update \/ Begin \/ Commit \/ RollBack \/ Ready \/ Create

Spec == Init /\ [][Next]_<<shown, fixed, tran, ready>>
=============================================================================
