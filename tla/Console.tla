------------------------------ MODULE Console -------------------------------
(***************************************************************************)
(* The human gate: the operator's pages between the sign-off queue and the *)
(* daemon.  On mainnet a row is authorized by dragging a slider which a    *)
(* ticked acknowledgement unlocks.  A page shows the last answer it heard  *)
(* of the queue, and answers overtake each other; while an action is in    *)
(* flight it refuses every other, but opening another tab and coming back  *)
(* makes it a new page which knows nothing of the old one's action.        *)
(*                                                                         *)
(*   rows    the status of each broadcasts row                             *)
(*   calls   the pages' POST requests, until their answers are heard       *)
(*   polls   answers to GET /broadcasts on their way: the rows as they     *)
(*           were when each was written                                    *)
(*   page    what a page holds; mount tells a page from its predecessors   *)
(*   token   whether the token in the browser's storage is the daemon's    *)
(*   crossed the rows about which calls of two pages met at the daemon     *)
(*   restarted  the daemon is not the first one                            *)
(*                                                                         *)
(* Between two events of one page React has rendered, so the slider's own  *)
(* guards against firing twice (fired, done) are the page's stage.  What   *)
(* the engine does with an authorized row is module SignOff's affair, the  *)
(* choice of the market to queue something for is left out.                *)
(***************************************************************************)
EXTENDS Integers, Sequences, FiniteSets

CONSTANTS
  Pages,
  MaxRows,    \* bound: rows queued
  MaxMounts,  \* bound: how often a page is opened
  MaxPolls    \* bound: answers to one page in flight at a time

ASSUME LimitsAssumption == MaxRows \in Nat /\ MaxMounts \in Nat \ {0} /\ MaxPolls \in Nat \ {0}

VARIABLES rows, calls, polls, page, token, crossed, restarted

vars == <<rows, calls, polls, page, token, crossed, restarted>>

-----------------------------------------------------------------------------

\* A page just opened: nothing shown, nothing ticked, the token not checked yet.
Opened(n) ==
  [mount |-> n, stage |-> "idle", tokenOk |-> FALSE, shown |-> {}, acked |-> {}, ticked |-> {}]

\* What a page shows of the list of broadcasts.
Pending(list) == {r \in 1..Len(list) : list[r] = "pending"}

Init ==
  /\ rows = <<>>
  /\ calls = {} /\ polls = {}
  /\ page = [p \in Pages |-> Opened(1)]
  /\ token \in BOOLEAN
  /\ crossed = {} /\ restarted = FALSE

-----------------------------------------------------------------------------
(* The page *)

\* "disabled": another action is in flight, or the token is not known to be accepted.
Usable(p) == page[p].stage = "idle" /\ page[p].tokenOk

\* act and call: the page is busy until the answer comes; the token goes with the request.
Act(p, op, r) ==
  /\ Usable(p)
  /\ page' = [page EXCEPT ![p].stage = "calling"]
  /\ calls' = calls \cup {[page |-> p, mount |-> page[p].mount, op |-> op, row |-> r, token |-> token,
                           meant |-> r \in page[p].ticked, stage |-> "sent"]}
  /\ UNCHANGED <<rows, polls, token, crossed, restarted>>

\* A lifecycle button.
Queue(p) == Act(p, "queue", 0)

\* The acknowledgement of a row is ticked, or unticked again.
Tick(p, r) ==
  /\ Usable(p)
  /\ r \in page[p].shown \ page[p].acked
  /\ page' = [page EXCEPT ![p].acked = @ \cup {r}, ![p].ticked = @ \cup {r}]
  /\ UNCHANGED <<rows, calls, polls, token, crossed, restarted>>

Untick(p, r) ==
  /\ Usable(p)
  /\ r \in page[p].acked
  /\ page' = [page EXCEPT ![p].acked = @ \ {r}, ![p].ticked = @ \ {r}]
  /\ UNCHANGED <<rows, calls, polls, token, crossed, restarted>>

\* SlideToConfirm: commit refuses while it is locked.
Slide(p, r) ==
  /\ r \in page[p].shown \cap page[p].acked
  /\ Act(p, "authorize", r)

PressReject(p, r) ==
  /\ r \in page[p].shown
  /\ Act(p, "reject", r)

\* The token is typed in; the page hears of it when it next asks.
EnterToken ==
  /\ ~token
  /\ token' = TRUE
  /\ UNCHANGED <<rows, calls, polls, page, crossed, restarted>>

CheckToken(p) ==
  /\ page' = [page EXCEPT ![p].tokenOk = token]
  /\ UNCHANGED <<rows, calls, polls, token, crossed, restarted>>

\* Another tab is opened and this one opened again, or the page is loaded anew: what it holds is
\* gone, what it sent is not.
Reopen(p) ==
  /\ page[p].mount < MaxMounts
  /\ page' = [page EXCEPT ![p] = Opened(@.mount + 1)]
  /\ polls' = {a \in polls : a.page # p}
  /\ UNCHANGED <<rows, calls, token, crossed, restarted>>

Asked(p) == {a \in polls : a.page = p}

\* listBroadcasts: every row, as it is now.
Listed == rows

\* Mutant: the queue is asked for once an action is done, not on an interval.
AskMutant(p, awaited) ==
  /\ awaited
  /\ page[p].stage = "refreshing" /\ \A a \in Asked(p) : ~a.awaited
  /\ polls' = polls \cup {[page |-> p, awaited |-> awaited, list |-> Listed]}
  /\ UNCHANGED <<rows, calls, page, token, crossed, restarted>>

\* usePoll: the queue is asked for on an interval, whether or not earlier answers have come, and
\* once more, awaited, when an action is done.
Ask(p, awaited) ==
  /\ IF awaited
     THEN page[p].stage = "refreshing" /\ \A a \in Asked(p) : ~a.awaited
     ELSE Cardinality(Asked(p)) < MaxPolls
  /\ polls' = polls \cup {[page |-> p, awaited |-> awaited, list |-> Listed]}
  /\ UNCHANGED <<rows, calls, page, token, crossed, restarted>>

\* Mutant: the rows are keyed by their place in the list.
KeptMutant(p, pending) ==
  LET place(s, r) == Cardinality({x \in s : x <= r})
  IN  {r \in pending : \E old \in page[p].acked : place(page[p].shown, old) = place(pending, r)}

\* What stays ticked when the list changes: a row's controls are keyed by its id.
Kept(p, pending) == page[p].acked \cap pending

\* An answer is shown, however old; the awaited one ends the action.
Hear(a) ==
  /\ a \in polls
  /\ polls' = polls \ {a}
  /\ page' = [page EXCEPT ![a.page].shown = Pending(a.list),
                          ![a.page].acked = Kept(a.page, Pending(a.list)),
                          ![a.page].stage = IF a.awaited THEN "idle" ELSE @]
  /\ UNCHANGED <<rows, calls, token, crossed, restarted>>

\* The answer to an action: success is followed by the awaited refresh.  The successor of a page
\* hears nothing.
HearAnswer(c) ==
  /\ c \in calls /\ c.stage \in {"ok", "error"}
  /\ calls' = calls \ {c}
  /\ page' = IF page[c.page].mount # c.mount THEN page
             ELSE [page EXCEPT ![c.page].stage = IF c.stage = "ok" THEN "refreshing" ELSE "idle"]
  /\ UNCHANGED <<rows, polls, token, crossed, restarted>>

-----------------------------------------------------------------------------
(* The daemon *)

Becomes(c, stage) == calls' = (calls \ {c}) \cup {[c EXCEPT !.stage = stage]}

\* assertOperator.
Unauthorized(c) ==
  /\ c \in calls /\ c.stage = "sent"
  /\ ~c.token
  /\ Becomes(c, "error")
  /\ UNCHANGED <<rows, polls, page, token, crossed, restarted>>

Admitted(c) == c \in calls /\ c.stage = "sent" /\ c.token

\* The service queues a row, or refuses to.
Enqueue(c) ==
  /\ Admitted(c) /\ c.op = "queue"
  /\ \/ /\ Len(rows) < MaxRows
        /\ rows' = Append(rows, "pending")
        /\ Becomes(c, "ok")
     \/ Becomes(c, "error") /\ UNCHANGED rows
  /\ UNCHANGED <<polls, page, token, crossed, restarted>>

\* Mutant: authorize does not look at the status.
UndecidedMutant(r) == TRUE

\* "not pending"
Undecided(r) == rows[r] = "pending"

\* The calls the engine works on for row r, by other pages than c's.
Others(c) == {d \in calls : d.stage = "served" /\ d.row = c.row /\ <<d.page, d.mount>> # <<c.page, c.mount>>}

Meets(c) == crossed' = IF Others(c) = {} THEN crossed ELSE crossed \cup {c.row}

\* authorize, up to its await: the row stays 'pending'.
Authorize(c) ==
  /\ Admitted(c) /\ c.op = "authorize"
  /\ IF Undecided(c.row) THEN Becomes(c, "served") /\ Meets(c)
     ELSE Becomes(c, "error") /\ UNCHANGED crossed
  /\ UNCHANGED <<rows, polls, page, token, restarted>>

\* authorize, after its await: whatever the row has become since, it is 'broadcast' or 'failed' now.
Finish(c, status) ==
  /\ c \in calls /\ c.stage = "served"
  /\ rows' = [rows EXCEPT ![c.row] = status]
  /\ Becomes(c, IF status = "broadcast" THEN "ok" ELSE "error")
  /\ UNCHANGED <<polls, page, token, crossed, restarted>>

Reject(c) ==
  /\ Admitted(c) /\ c.op = "reject"
  /\ IF Undecided(c.row)
     THEN Becomes(c, "ok") /\ rows' = [rows EXCEPT ![c.row] = "rejected"] /\ Meets(c)
     ELSE Becomes(c, "error") /\ UNCHANGED <<rows, crossed>>
  /\ UNCHANGED <<polls, page, token, restarted>>

\* The daemon stops and starts: every connection breaks, and what it was working on is 'pending'.
Restart ==
  /\ ~restarted   \* bound: one restart
  /\ restarted' = TRUE
  /\ calls' = {[c EXCEPT !.stage = "error"] : c \in calls}
  /\ polls' = {}
  /\ page' = [p \in Pages |-> [page[p] EXCEPT !.stage = IF @ = "refreshing" THEN "idle" ELSE @]]
  /\ UNCHANGED <<rows, token, crossed>>

Next ==
  \/ \E p \in Pages : Queue(p) \/ CheckToken(p) \/ Reopen(p)
  \/ \E p \in Pages, r \in 1..Len(rows) : Tick(p, r) \/ Untick(p, r) \/ Slide(p, r) \/ PressReject(p, r)
  \/ \E p \in Pages, awaited \in BOOLEAN : Ask(p, awaited)
  \/ \E a \in polls : Hear(a)
  \/ EnterToken
  \/ \E c \in calls :
       \/ Unauthorized(c) \/ Enqueue(c) \/ Authorize(c) \/ Reject(c) \/ HearAnswer(c)
       \/ \E status \in {"broadcast", "failed"} : Finish(c, status)
  \/ Restart

Spec == Init /\ [][Next]_vars

\* The interval keeps ticking and the daemon answers GET requests.  Nothing is assumed of the
\* operator, nor of the engine: api.ts has no timeout, and an authorize call may never return.
Fairness ==
  \A p \in Pages : WF_vars(Ask(p, FALSE)) /\ WF_vars(\E a \in polls : a.page = p /\ Hear(a))

FairSpec == Spec /\ Fairness

-----------------------------------------------------------------------------
(* Properties *)

Status == {"pending", "broadcast", "failed", "rejected"}

Call == [page : Pages, mount : Nat, op : {"queue", "authorize", "reject"}, row : Nat,
         token : BOOLEAN, meant : BOOLEAN, stage : {"sent", "served", "ok", "error"}]

Page == [mount : Nat, stage : {"idle", "calling", "refreshing"}, tokenOk : BOOLEAN, shown : SUBSET Nat,
         acked : SUBSET Nat, ticked : SUBSET Nat]

TypeOK ==
  /\ rows \in Seq(Status) /\ calls \subseteq Call
  /\ \A c \in calls : /\ c.row \in 0..Len(rows) /\ (c.op # "queue" => c.row # 0)
                      /\ c.stage = "served" => c.op = "authorize"
  /\ polls \subseteq [page : Pages, awaited : BOOLEAN, list : Seq(Status)]
  /\ page \in [Pages -> Page]
  /\ token \in BOOLEAN /\ crossed \subseteq Nat /\ restarted \in BOOLEAN

\* Whatever the list does between the tick and the drag, a row is only sent to be authorized by an
\* operator who ticked that row's own acknowledgement (Operator.tsx requireAck, SlideToConfirm.tsx).
AuthorizeWasMeant == \A c \in calls : c.op = "authorize" => c.meant

\* A row is decided once, although pages go on showing decided rows as pending and sliders stay
\* unlocked after a failure: only calls of two pages which met at the daemon can overwrite its
\* status, the page left during an authorize and its successor among them (service.ts authorize).
DecidedOnce ==
  [][\A r \in 1..Len(rows) : rows[r] # "pending" /\ rows'[r] # rows[r] => r \in crossed']_vars

\* A decided row leaves every page's queue for good, also one decided elsewhere, although answers
\* overtake each other (api.ts usePoll).
QueueCatchesUp ==
  \A p \in Pages, r \in 1..MaxRows :
    (Len(rows) >= r /\ rows[r] # "pending") ~> [](r \notin page[p].shown)
=============================================================================
