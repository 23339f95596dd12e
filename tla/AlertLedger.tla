----------------------------- MODULE AlertLedger -----------------------------
(***************************************************************************)
(* What the alert pipeline promises of each pair of a subscriber and an    *)
(* event, with no goroutines, no bus and no process: the row is offered,   *)
(* copies go to the chat only after that, and the row says "sent" only if  *)
(* a copy went.  The promise is at-least-once: a settled row may be opened *)
(* again, and a chat may get the alert of a row that has been withdrawn    *)
(* with its subscriber.                                                    *)
(***************************************************************************)
EXTENDS Naturals

CONSTANTS Subs, Events

VARIABLES outcome, copies, gone

ledger == <<outcome, copies, gone>>

Rows == Subs \X Events

LedgerInit ==
  /\ outcome = [r \in Rows |-> "none"]
  /\ copies = [r \in Rows |-> 0]
  /\ gone = {}

\* All the rows of one event at once, and never one of a subscriber that left.
Offer(S, e) ==
  /\ S \cap gone = {}
  /\ outcome' = [r \in Rows |-> IF r[1] \in S /\ r[2] = e /\ outcome[r] = "none"
                                THEN "pending" ELSE outcome[r]]
  /\ UNCHANGED <<copies, gone>>

Deliver(r) ==
  /\ outcome[r] # "none" \/ r[1] \in gone
  /\ copies' = [copies EXCEPT ![r] = @ + 1]
  /\ UNCHANGED <<outcome, gone>>

Conclude(r, o) ==
  /\ outcome[r] # "none"
  /\ o = "sent" => copies[r] >= 1
  /\ outcome' = [outcome EXCEPT ![r] = o]
  /\ UNCHANGED <<copies, gone>>

Withdraw(s) ==
  /\ gone' = gone \cup {s}
  /\ outcome' = [r \in Rows |-> IF r[1] = s THEN "none" ELSE outcome[r]]
  /\ UNCHANGED copies

LedgerNext ==
  \/ \E S \in SUBSET Subs, e \in Events : Offer(S, e)
  \/ \E r \in Rows : Deliver(r)
  \/ \E r \in Rows, o \in {"pending", "sent", "skipped", "failed"} : Conclude(r, o)
  \/ \E s \in Subs : Withdraw(s)

LedgerSpec == LedgerInit /\ [][LedgerNext]_ledger
=============================================================================
