----------------------------- MODULE EventFeed ------------------------------
(***************************************************************************)
(* What lies between the watchers and the dispatcher: events are rows      *)
(* first and go on the bus later, if at all.  The alert pipeline (module   *)
(* Alerts) assumes no more of the watchers than these steps, and the live  *)
(* poller takes no others.                                                 *)
(***************************************************************************)
EXTENDS Naturals

CONSTANTS Ids, Buffer

VARIABLES saved, unpublished, backlog, closed, mode

feeding == <<saved, unpublished, backlog, closed, mode>>

FeedInit ==
  /\ saved = {} /\ unpublished = {} /\ backlog = 0
  /\ closed = FALSE /\ mode = "up"

\* What is new of a batch is about to be published, unless the call reported an
\* error although it took effect.
Insert(new) ==
  /\ mode # "down" /\ ~closed
  /\ saved' = saved \cup new
  /\ unpublished' \in {unpublished, unpublished \cup new}
  /\ UNCHANGED <<backlog, closed, mode>>

Put(e) ==
  /\ mode # "down" /\ backlog < Buffer
  /\ unpublished' = unpublished \ {e} /\ backlog' = backlog + 1
  /\ UNCHANGED <<saved, closed, mode>>

\* Only a cancelled watcher leaves what it has saved off the bus.
Drop(events) ==
  /\ mode = "stopping"
  /\ unpublished' = unpublished \ events
  /\ UNCHANGED <<saved, backlog, closed, mode>>

Take ==
  /\ mode # "down" /\ backlog > 0 /\ backlog' = backlog - 1
  /\ UNCHANGED <<saved, unpublished, closed, mode>>

\* The bus is closed once, when no event can come any more.
Close ==
  /\ mode = "stopping" /\ unpublished = {} /\ ~closed /\ closed' = TRUE
  /\ UNCHANGED <<saved, unpublished, backlog, mode>>

StopFeeding ==
  /\ mode = "up" /\ mode' = "stopping"
  /\ UNCHANGED <<saved, unpublished, backlog, closed>>

\* The end of the process, in order or not: the rows alone remain.
Lose ==
  /\ mode # "down" /\ mode' = "down"
  /\ unpublished' = {} /\ backlog' = 0 /\ closed' = FALSE
  /\ UNCHANGED saved

Resume ==
  /\ mode = "down" /\ mode' = "up"
  /\ UNCHANGED <<saved, unpublished, backlog, closed>>

FeedNext ==
  \/ \E new \in SUBSET (Ids \ saved) : Insert(new)
  \/ \E events \in SUBSET unpublished : Drop(events)
  \/ \E e \in unpublished : Put(e)
  \/ Take \/ Close \/ StopFeeding \/ Lose \/ Resume

FeedSpec == FeedInit /\ [][FeedNext]_feeding
=============================================================================
