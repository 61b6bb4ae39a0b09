---------------------------- MODULE ConsoleProofs -----------------------------
(***************************************************************************)
(* Theorems about the human gate, for any number of pages, rows, reopened  *)
(* tabs and answers in flight.                                             *)
(***************************************************************************)
EXTENDS Console, SequenceTheorems, TLAPS

-----------------------------------------------------------------------------
(* The invariants *)

\* A ticked acknowledgement was ticked for its own row.
AcksAreTicked == \A p \in Pages : page[p].acked \subseteq page[p].ticked

\* A page waits for what it sent, and sends nothing else meanwhile.
OneCall ==
  /\ \A c \in calls : /\ c.mount <= page[c.page].mount
                      /\ c.mount = page[c.page].mount => page[c.page].stage = "calling"
  /\ \A c, d \in calls : c.page = d.page /\ c.mount = d.mount => c = d

\* The awaited answer is awaited by a page whose action is done, and it is one.
OneRefresh ==
  /\ \A a \in polls : a.awaited => page[a.page].stage = "refreshing"
  /\ \A a, b \in polls : a.awaited /\ b.awaited /\ a.page = b.page => a = b

\* What the engine works on is undecided, unless calls of two pages met at the row.
ServedIsPending ==
  /\ \A c \in calls : c.stage = "served" => rows[c.row] = "pending" \/ c.row \in crossed
  /\ \A c, d \in calls : c.stage = "served" /\ d.stage = "served" /\ c.row = d.row /\ c # d =>
       c.row \in crossed

GateInv == AcksAreTicked /\ AuthorizeWasMeant /\ OneCall /\ OneRefresh /\ ServedIsPending

-----------------------------------------------------------------------------
(* Type correctness *)

\* What the types say of the elements.
LEMMA Elements ==
  ASSUME TypeOK
  PROVE  /\ Len(rows) \in Nat /\ \A r \in 1..Len(rows) : rows[r] \in Status
         /\ \A c \in calls : /\ c \in Call /\ c.row \in 0..Len(rows) /\ (c.op # "queue" => c.row # 0)
                             /\ c.stage = "served" => c.op = "authorize"
         /\ \A c \in calls : c.page \in Pages /\ c.mount \in Nat
         /\ \A p \in Pages : page[p] \in Page /\ page[p].mount \in Nat
         /\ \A a \in polls : a.page \in Pages /\ a.awaited \in BOOLEAN /\ a.list \in Seq(Status)
<1>1. Len(rows) \in Nat /\ \A r \in 1..Len(rows) : rows[r] \in Status
  BY LenProperties, ElementOfSeq DEF TypeOK
<1>2. \A c \in calls : /\ c \in Call /\ c.row \in 0..Len(rows) /\ (c.op # "queue" => c.row # 0)
                       /\ c.stage = "served" => c.op = "authorize"
  BY DEF TypeOK
<1>3. \A c \in Call : c.page \in Pages /\ c.mount \in Nat
  BY DEF Call
<1>4. \A p \in Pages : page[p] \in Page /\ page[p].mount \in Nat
  BY DEF TypeOK, Page
<1>5. \A a \in polls : a.page \in Pages /\ a.awaited \in BOOLEAN /\ a.list \in Seq(Status)
  BY DEF TypeOK
<1> QED
  BY <1>1, <1>2, <1>3, <1>4, <1>5

\* A page goes on to another stage.
LEMMA StageSet ==
  ASSUME TypeOK, NEW p \in Pages, NEW stage \in {"idle", "calling", "refreshing"}
  PROVE  page' = [page EXCEPT ![p].stage = stage] =>
           /\ page' \in [Pages -> Page]
           /\ page'[p].stage = stage /\ page'[p].mount = page[p].mount
           /\ page'[p].acked = page[p].acked /\ page'[p].ticked = page[p].ticked
           /\ \A q \in Pages : q # p => page'[q] = page[q]
<1> DEFINE e == [mount |-> page[p].mount, stage |-> stage, tokenOk |-> page[p].tokenOk,
                 shown |-> page[p].shown, acked |-> page[p].acked, ticked |-> page[p].ticked]
<1>1. page[p] \in Page /\ page \in [Pages -> Page]
  BY DEF TypeOK
<1>2. /\ e \in Page /\ e.stage = stage /\ e.mount = page[p].mount
      /\ e.acked = page[p].acked /\ e.ticked = page[p].ticked
  BY <1>1 DEF Page
<1>3. [page[p] EXCEPT !.stage = stage] = e
  BY <1>1 DEF Page
<1> HIDE DEF e
<1>4. page' = [page EXCEPT ![p].stage = stage] => page' = [page EXCEPT ![p] = e]
  BY <1>3
<1> QED
  BY <1>1, <1>2, <1>4

\* A page with another list.
LEMMA PageHeard ==
  ASSUME NEW r \in Page, NEW shown, NEW acked, NEW stage
  PROVE  [r EXCEPT !.shown = shown, !.acked = acked, !.stage = stage]
           = [mount |-> r.mount, stage |-> stage, tokenOk |-> r.tokenOk, shown |-> shown,
              acked |-> acked, ticked |-> r.ticked]
<1>1. [r EXCEPT !.shown = shown]
        = [mount |-> r.mount, stage |-> r.stage, tokenOk |-> r.tokenOk, shown |-> shown,
           acked |-> r.acked, ticked |-> r.ticked]
  BY DEF Page
<1> DEFINE v == [mount |-> r.mount, stage |-> r.stage, tokenOk |-> r.tokenOk, shown |-> shown,
                 acked |-> r.acked, ticked |-> r.ticked]
           w == [mount |-> r.mount, stage |-> r.stage, tokenOk |-> r.tokenOk, shown |-> shown,
                 acked |-> acked, ticked |-> r.ticked]
           x == [mount |-> r.mount, stage |-> stage, tokenOk |-> r.tokenOk, shown |-> shown,
                 acked |-> acked, ticked |-> r.ticked]
<1>2. [v EXCEPT !.acked = acked] = w
  OBVIOUS
<1>3. [w EXCEPT !.stage = stage] = x
  OBVIOUS
<1>4. [r EXCEPT !.shown = shown] = v
  BY <1>1
<1> HIDE DEF v, w, x
<1>5. [r EXCEPT !.shown = shown, !.acked = acked, !.stage = stage] = x
  BY <1>2, <1>3, <1>4, Zenon
<1> QED
  BY <1>5 DEF x

\* A request is sent.
LEMMA ActFacts ==
  ASSUME TypeOK, NEW p \in Pages, NEW op \in {"queue", "authorize", "reject"}, NEW r \in Nat, Act(p, op, r)
  PROVE  /\ page[p].stage = "idle"
         /\ page' \in [Pages -> Page] /\ page'[p].stage = "calling" /\ page'[p].mount = page[p].mount
         /\ page'[p].acked = page[p].acked /\ page'[p].ticked = page[p].ticked
         /\ \A q \in Pages : q # p => page'[q] = page[q]
         /\ \E e \in Call : /\ calls' = calls \cup {e} /\ e.page = p /\ e.mount = page[p].mount
                            /\ e.op = op /\ e.row = r /\ e.stage = "sent"
                            /\ e.meant = (r \in page[p].ticked)
<1>1. /\ page[p].stage = "idle" /\ page' = [page EXCEPT ![p].stage = "calling"]
      /\ calls' = calls \cup {[page |-> p, mount |-> page[p].mount, op |-> op, row |-> r, token |-> token,
                               meant |-> r \in page[p].ticked, stage |-> "sent"]}
  BY DEF Act, Usable
<1> DEFINE e == [page |-> p, mount |-> page[p].mount, op |-> op, row |-> r, token |-> token,
                 meant |-> r \in page[p].ticked, stage |-> "sent"]
<1>2. (r \in page[p].ticked) \in BOOLEAN /\ token \in BOOLEAN /\ page[p].mount \in Nat
  BY Elements DEF TypeOK
<1>3. e \in Call
  BY <1>2 DEF Call
<1>4. /\ e.page = p /\ e.mount = page[p].mount /\ e.op = op /\ e.row = r /\ e.stage = "sent"
      /\ e.meant = (r \in page[p].ticked)
  OBVIOUS
<1>5. calls' = calls \cup {e}
  BY <1>1
<1> HIDE DEF e
<1>6. \E x \in Call : /\ calls' = calls \cup {x} /\ x.page = p /\ x.mount = page[p].mount
                      /\ x.op = op /\ x.row = r /\ x.stage = "sent"
                      /\ x.meant = (r \in page[p].ticked)
  BY <1>3, <1>4, <1>5
<1> QED
  BY <1>1, <1>6, StageSet

\* A request goes on to another stage.
LEMMA CallSet ==
  ASSUME TypeOK, NEW c \in calls, NEW stage \in {"sent", "served", "ok", "error"}, Becomes(c, stage)
  PROVE  \E e \in Call : /\ calls' = (calls \ {c}) \cup {e} /\ e.page = c.page /\ e.mount = c.mount
                         /\ e.op = c.op /\ e.row = c.row /\ e.meant = c.meant /\ e.stage = stage
<1> DEFINE e == [page |-> c.page, mount |-> c.mount, op |-> c.op, row |-> c.row, token |-> c.token,
                 meant |-> c.meant, stage |-> stage]
<1>1. c \in Call
  BY Elements
<1>2. e \in Call
  BY <1>1 DEF Call
<1>3. [c EXCEPT !.stage = stage] = e
  BY <1>1 DEF Call
<1>4. /\ e.page = c.page /\ e.mount = c.mount /\ e.op = c.op /\ e.row = c.row
      /\ e.meant = c.meant /\ e.stage = stage
  OBVIOUS
<1>5. calls' = (calls \ {c}) \cup {[c EXCEPT !.stage = stage]}
  BY DEF Becomes
<1> HIDE DEF e
<1> QED
  BY <1>2, <1>3, <1>4, <1>5

\* A list is heard.
LEMMA HearFacts ==
  ASSUME TypeOK, NEW a \in polls, Hear(a)
  PROVE  \E v \in Page :
           /\ page' = [page EXCEPT ![a.page] = v]
           /\ v.mount = page[a.page].mount /\ v.ticked = page[a.page].ticked
           /\ v.acked \subseteq page[a.page].acked
           /\ v.stage = IF a.awaited THEN "idle" ELSE page[a.page].stage
<1> DEFINE p == a.page
           shown == Pending(a.list)
           stage == IF a.awaited THEN "idle" ELSE page[p].stage
           v == [mount |-> page[p].mount, stage |-> stage, tokenOk |-> page[p].tokenOk, shown |-> shown,
                 acked |-> page[p].acked \cap shown, ticked |-> page[p].ticked]
<1>1. p \in Pages /\ shown \subseteq Nat /\ page \in [Pages -> Page] /\ page[p] \in Page
  BY Elements, LenProperties DEF Pending, TypeOK
<1>2. /\ v \in Page /\ v.mount = page[p].mount /\ v.acked \subseteq page[p].acked
      /\ v.ticked = page[p].ticked /\ v.stage = stage
  BY <1>1 DEF Page
<1>3. page' = [page EXCEPT ![p].shown = shown, ![p].acked = page[p].acked \cap shown,
                           ![p].stage = stage]
  BY <1>1 DEF Hear, Kept
<1>4. page' = [page EXCEPT ![p] = [page[p] EXCEPT !.shown = shown, !.acked = page[p].acked \cap shown,
                                                  !.stage = stage]]
  <2> HIDE DEF p, shown, stage
  <2> DEFINE g == [page EXCEPT ![p] = [page[p] EXCEPT !.shown = shown]]
             h == [page EXCEPT ![p] = [page[p] EXCEPT !.shown = shown, !.acked = page[p].acked \cap shown]]
  <2>1. [page EXCEPT ![p].shown = shown] = g
    BY <1>1
  <2>2. [g EXCEPT ![p].acked = page[p].acked \cap shown] = h
    BY <1>1
  <2>3. [h EXCEPT ![p].stage = stage]
          = [page EXCEPT ![p] = [page[p] EXCEPT !.shown = shown, !.acked = page[p].acked \cap shown,
                                                !.stage = stage]]
    BY <1>1
  <2> HIDE DEF g, h
  <2> QED
    BY <1>3, <2>1, <2>2, <2>3, Zenon
<1>5. [page[p] EXCEPT !.shown = shown, !.acked = page[p].acked \cap shown, !.stage = stage] = v
  <2> HIDE DEF p, shown, stage
  <2> QED
    BY <1>1, PageHeard
<1> HIDE DEF v, shown
<1>6. page' = [page EXCEPT ![p] = v]
  BY <1>4, <1>5
<1> QED
  BY <1>2, <1>6

\* The rows' requests and answers fail when the daemon stops.
LEMMA RestartFacts ==
  ASSUME TypeOK, Restart
  PROVE  /\ polls' = {} /\ calls' \subseteq Call /\ page' \in [Pages -> Page]
         /\ UNCHANGED <<rows, token, crossed>> /\ restarted' \in BOOLEAN
         /\ \A x \in calls' : /\ x.stage = "error"
                              /\ \E c \in calls : /\ x.page = c.page /\ x.mount = c.mount /\ x.op = c.op
                                                  /\ x.row = c.row /\ x.meant = c.meant
         /\ \A x, y \in calls' : x.page = y.page /\ x.mount = y.mount =>
              x = y \/ \E c, d \in calls : /\ c # d /\ c.page = d.page /\ c.mount = d.mount
         /\ \A p \in Pages : /\ page'[p].mount = page[p].mount
                             /\ page'[p].acked = page[p].acked /\ page'[p].ticked = page[p].ticked
                             /\ page[p].stage = "calling" => page'[p].stage = "calling"
<1> DEFINE f(c) == [c EXCEPT !.stage = "error"]
           g(p) == [page[p] EXCEPT !.stage = IF @ = "refreshing" THEN "idle" ELSE @]
<1>1. /\ polls' = {} /\ calls' = {f(c) : c \in calls} /\ page' = [p \in Pages |-> g(p)]
      /\ UNCHANGED <<rows, token, crossed>> /\ restarted' \in BOOLEAN
  BY DEF Restart
<1>2. ASSUME NEW c \in calls
      PROVE  /\ f(c) \in Call /\ f(c).stage = "error"
             /\ f(c).page = c.page /\ f(c).mount = c.mount /\ f(c).op = c.op
             /\ f(c).row = c.row /\ f(c).meant = c.meant
  <2>1. c \in Call
    BY Elements
  <2> QED
    BY <2>1 DEF Call
<1>3. ASSUME NEW p \in Pages
      PROVE  /\ g(p) \in Page /\ g(p).mount = page[p].mount
             /\ g(p).acked = page[p].acked /\ g(p).ticked = page[p].ticked
             /\ page[p].stage = "calling" => g(p).stage = "calling"
  <2>1. page[p] \in Page
    BY Elements
  <2> QED
    BY <2>1 DEF Page
<1> HIDE DEF f, g
<1>4. \A x, y \in calls' : x.page = y.page /\ x.mount = y.mount =>
        x = y \/ \E c, d \in calls : /\ c # d /\ c.page = d.page /\ c.mount = d.mount
  <2> SUFFICES ASSUME NEW x \in calls', NEW y \in calls', x.page = y.page, x.mount = y.mount, x # y
               PROVE  \E c, d \in calls : /\ c # d /\ c.page = d.page /\ c.mount = d.mount
    OBVIOUS
  <2>1. PICK c \in calls, d \in calls : x = f(c) /\ y = f(d)
    BY <1>1
  <2> QED
    BY <1>2, <2>1
<1> QED
  BY <1>1, <1>2, <1>3, <1>4

\* What pages become: an acknowledgement is ticked, a list is heard, or the page is opened anew.
LEMMA PagesStep ==
  ASSUME TypeOK, [Next]_vars
  PROVE  /\ page' \in [Pages -> Page]
         /\ \A p \in Pages : /\ page[p].acked \subseteq page[p].ticked =>
                                  page'[p].acked \subseteq page'[p].ticked
                             /\ page[p].mount <= page'[p].mount
<1> DEFINE Fine(p) == /\ page[p].acked \subseteq page[p].ticked => page'[p].acked \subseteq page'[p].ticked
                      /\ page[p].mount <= page'[p].mount
           Good == page' \in [Pages -> Page] /\ \A p \in Pages : Fine(p)
<1> SUFFICES Good
  OBVIOUS
<1>0. page \in [Pages -> Page] /\ \A p \in Pages : page[p] \in Page /\ page[p].mount \in Nat
  BY Elements DEF TypeOK
<1>1. ASSUME NEW p \in Pages, NEW v \in Page, page' = [page EXCEPT ![p] = v],
             page[p].acked \subseteq page[p].ticked => v.acked \subseteq v.ticked,
             page[p].mount <= v.mount
      PROVE  Good
  BY <1>0, <1>1
<1>2. ASSUME page' = page PROVE Good
  BY <1>0, <1>2
<1>3. ASSUME NEW p \in Pages, NEW stage \in {"idle", "calling", "refreshing"},
             page' = [page EXCEPT ![p].stage = stage]
      PROVE  Good
  <2>1. /\ page' \in [Pages -> Page] /\ page'[p].mount = page[p].mount
        /\ page'[p].acked = page[p].acked /\ page'[p].ticked = page[p].ticked
        /\ \A q \in Pages : q # p => page'[q] = page[q]
    BY <1>3, StageSet
  <2> QED
    BY <1>0, <2>1
<1>4. ASSUME NEW p \in Pages, NEW op, NEW r, Act(p, op, r) PROVE Good
  BY <1>3, <1>4 DEF Act
<1>5. ASSUME NEW p \in Pages, NEW r \in Nat, Tick(p, r) \/ Untick(p, r) PROVE Good
  <2>1. PICK v \in Page : /\ page' = [page EXCEPT ![p] = v] /\ v.mount = page[p].mount
                          /\ \/ v.acked = page[p].acked \cup {r} /\ v.ticked = page[p].ticked \cup {r}
                             \/ v.acked = page[p].acked \ {r} /\ v.ticked = page[p].ticked \ {r}
    <3> DEFINE on  == [page[p] EXCEPT !.acked = @ \cup {r}, !.ticked = @ \cup {r}]
               off == [page[p] EXCEPT !.acked = @ \ {r}, !.ticked = @ \ {r}]
    <3>1. on \in Page /\ on.mount = page[p].mount
          /\ on.acked = page[p].acked \cup {r} /\ on.ticked = page[p].ticked \cup {r}
      BY <1>0 DEF Page
    <3>2. off \in Page /\ off.mount = page[p].mount
          /\ off.acked = page[p].acked \ {r} /\ off.ticked = page[p].ticked \ {r}
      BY <1>0 DEF Page
    <3>3. Tick(p, r) => page' = [page EXCEPT ![p] = on]
      BY <1>0 DEF Tick
    <3>4. Untick(p, r) => page' = [page EXCEPT ![p] = off]
      BY <1>0 DEF Untick
    <3> HIDE DEF on, off
    <3> QED
      BY <1>5, <3>1, <3>2, <3>3, <3>4
  <2> QED
    BY <1>0, <1>1, <2>1
<1>6. ASSUME NEW p \in Pages, CheckToken(p) PROVE Good
  <2> DEFINE v == [page[p] EXCEPT !.tokenOk = token]
  <2>1. /\ v \in Page /\ v.mount = page[p].mount
        /\ v.acked = page[p].acked /\ v.ticked = page[p].ticked
    BY <1>0 DEF Page, TypeOK
  <2>2. page' = [page EXCEPT ![p] = v]
    BY <1>6 DEF CheckToken
  <2> HIDE DEF v
  <2> QED
    BY <1>0, <1>1, <2>1, <2>2
<1>7. ASSUME NEW p \in Pages, Reopen(p) PROVE Good
  <2> DEFINE v == Opened(page[p].mount + 1)
  <2>1. v \in Page /\ v.mount = page[p].mount + 1 /\ v.acked = {} /\ v.ticked = {}
    BY <1>0 DEF Page, Opened
  <2>2. page' = [page EXCEPT ![p] = v]
    BY <1>7 DEF Reopen
  <2> HIDE DEF v
  <2> QED
    BY <1>0, <1>1, <2>1, <2>2
<1>8. ASSUME NEW a \in polls, Hear(a) PROVE Good
  <2>1. a.page \in Pages
    BY Elements
  <2>2. PICK v \in Page : /\ page' = [page EXCEPT ![a.page] = v] /\ v.mount = page[a.page].mount
                          /\ v.acked \subseteq page[a.page].acked /\ v.ticked = page[a.page].ticked
    BY <1>8, HearFacts
  <2> QED
    BY <1>0, <1>1, <2>1, <2>2
<1>9. ASSUME NEW c \in calls, HearAnswer(c) PROVE Good
  BY <1>2, <1>3, <1>9, Elements DEF HearAnswer
<1>10. ASSUME Restart PROVE Good
  BY <1>0, <1>10, RestartFacts
<1>11. ASSUME NEW c \in calls, \/ Unauthorized(c) \/ Enqueue(c) \/ Authorize(c) \/ Reject(c)
                               \/ \E status \in {"broadcast", "failed"} : Finish(c, status)
       PROVE  Good
  BY <1>2, <1>11 DEF Unauthorized, Enqueue, Authorize, Reject, Finish
<1>12. ASSUME EnterToken \/ UNCHANGED vars \/ \E p \in Pages, awaited \in BOOLEAN : Ask(p, awaited)
       PROVE  Good
  BY <1>2, <1>12 DEF EnterToken, vars, Ask
<1>13. ASSUME NEW p \in Pages, NEW r \in 1..Len(rows), Slide(p, r) \/ PressReject(p, r) PROVE Good
  BY <1>4, <1>13 DEF Slide, PressReject
<1>14. ASSUME NEW p \in Pages, Queue(p) PROVE Good
  BY <1>4, <1>14 DEF Queue
<1>15. 1..Len(rows) \subseteq Nat
  BY Elements
<1> HIDE DEF Good
<1> QED
  BY <1>5, <1>6, <1>7, <1>8, <1>9, <1>10, <1>11, <1>12, <1>13, <1>14, <1>15 DEF Next

\* What the rows become: one is added, one that is worked on is decided, or a pending one refused.
LEMMA RowsStep ==
  ASSUME TypeOK, [Next]_vars
  PROVE  /\ rows' \in Seq(Status) /\ Len(rows') \in Nat /\ Len(rows) <= Len(rows')
         /\ \A r \in 1..Len(rows) :
              \/ rows'[r] = rows[r]
              \/ \E c \in calls : /\ c.row = r /\ c.stage = "served"
                                  /\ \E status \in {"broadcast", "failed"} : Finish(c, status)
              \/ \E c \in calls : c.row = r /\ rows[r] = "pending" /\ Reject(c)
<1> DEFINE Fine(r) == \/ rows'[r] = rows[r]
                      \/ \E c \in calls : /\ c.row = r /\ c.stage = "served"
                                          /\ \E status \in {"broadcast", "failed"} : Finish(c, status)
                      \/ \E c \in calls : c.row = r /\ rows[r] = "pending" /\ Reject(c)
           Good == /\ rows' \in Seq(Status) /\ Len(rows') \in Nat /\ Len(rows) <= Len(rows')
                   /\ \A r \in 1..Len(rows) : Fine(r)
<1> SUFFICES Good
  OBVIOUS
<1>0. rows \in Seq(Status) /\ Len(rows) \in Nat
  BY Elements DEF TypeOK
<1>1. ASSUME rows' = rows PROVE Good
  BY <1>0, <1>1
<1>2. ASSUME NEW c \in calls, NEW status \in Status, rows' = [rows EXCEPT ![c.row] = status],
             c.row # 0, Fine(c.row)
      PROVE  Good
  <2>1. c.row \in 1..Len(rows)
    BY <1>0, <1>2, Elements
  <2>2. /\ rows' \in Seq(Status) /\ Len(rows') = Len(rows)
        /\ \A r \in 1..Len(rows) : r # c.row => rows'[r] = rows[r]
    BY <1>0, <1>2, <2>1, ExceptSeq
  <2> QED
    BY <1>0, <1>2, <2>2
<1>3. ASSUME NEW c \in calls, NEW status \in {"broadcast", "failed"}, Finish(c, status)
      PROVE  Good
  <2>1. status \in Status /\ rows' = [rows EXCEPT ![c.row] = status] /\ c.stage = "served" /\ c.row # 0
    BY <1>3, Elements DEF Finish, Status
  <2>2. Fine(c.row)
    BY <1>3, <2>1
  <2> QED
    BY <1>2, <2>1, <2>2
<1>4. ASSUME NEW c \in calls, Reject(c) PROVE Good
  <2>1. CASE Undecided(c.row)
    <3>1. "rejected" \in Status /\ rows' = [rows EXCEPT ![c.row] = "rejected"] /\ c.op = "reject"
      BY <1>4, <2>1 DEF Reject, Status, Admitted
    <3>2. Fine(c.row)
      BY <1>4, <2>1 DEF Undecided
    <3> QED
      BY <1>2, <3>1, <3>2, Elements
  <2>2. CASE ~Undecided(c.row)
    BY <1>1, <1>4, <2>2 DEF Reject
  <2> QED
    BY <2>1, <2>2
<1>5. ASSUME NEW c \in calls, Enqueue(c) PROVE Good
  <2>1. CASE rows' = Append(rows, "pending")
    <3>1. "pending" \in Status
      BY DEF Status
    <3>2. /\ rows' \in Seq(Status) /\ Len(rows') = Len(rows) + 1
          /\ \A r \in 1..Len(rows) : rows'[r] = rows[r]
      BY <1>0, <2>1, <3>1, AppendProperties
    <3> QED
      BY <1>0, <3>2
  <2>2. CASE rows' = rows
    BY <1>1, <2>2
  <2> QED
    BY <1>5, <2>1, <2>2 DEF Enqueue
<1>6. ASSUME NEW c \in calls, Unauthorized(c) \/ Authorize(c) \/ HearAnswer(c) PROVE Good
  BY <1>1, <1>6 DEF Unauthorized, Authorize, HearAnswer
<1>7. ASSUME NEW p \in Pages, NEW r \in 1..Len(rows),
             \/ Queue(p) \/ CheckToken(p) \/ Reopen(p)
             \/ Tick(p, r) \/ Untick(p, r) \/ Slide(p, r) \/ PressReject(p, r)
      PROVE  Good
  BY <1>1, <1>7 DEF Queue, CheckToken, Reopen, Tick, Untick, Slide, PressReject, Act
<1>8. ASSUME \/ \E p \in Pages, awaited \in BOOLEAN : Ask(p, awaited)
             \/ \E a \in polls : Hear(a)
             \/ EnterToken \/ Restart \/ UNCHANGED vars
      PROVE  Good
  BY <1>1, <1>8 DEF Ask, Hear, EnterToken, Restart, vars
<1>9. ASSUME NEW p \in Pages, Queue(p) \/ CheckToken(p) \/ Reopen(p) PROVE Good
  BY <1>1, <1>9 DEF Queue, CheckToken, Reopen, Act
<1> HIDE DEF Good
<1> QED
  BY <1>3, <1>4, <1>5, <1>6, <1>7, <1>8, <1>9 DEF Next

\* What the requests become: a page sends one, a row it shows or none, or the daemon works on one.
LEMMA CallsStep ==
  ASSUME TypeOK, [Next]_vars
  PROVE  /\ calls' \subseteq Call
         /\ \A x \in calls' :
              \/ x \in calls
              \/ /\ x.stage = "sent"
                 /\ \/ x.op = "queue" /\ x.row = 0
                    \/ x.op = "reject" /\ x.row \in 1..Len(rows)
                    \/ /\ x.op = "authorize" /\ x.row \in 1..Len(rows)
                       /\ \E p \in Pages : /\ x.row \in page[p].acked
                                           /\ x.meant = (x.row \in page[p].ticked)
              \/ \E c \in calls : /\ x.page = c.page /\ x.mount = c.mount /\ x.op = c.op
                                  /\ x.row = c.row /\ x.meant = c.meant
                                  /\ x.stage = "served" => c.op = "authorize"
<1> DEFINE Fine(x) ==
              \/ x \in calls
              \/ /\ x.stage = "sent"
                 /\ \/ x.op = "queue" /\ x.row = 0
                    \/ x.op = "reject" /\ x.row \in 1..Len(rows)
                    \/ /\ x.op = "authorize" /\ x.row \in 1..Len(rows)
                       /\ \E p \in Pages : /\ x.row \in page[p].acked
                                           /\ x.meant = (x.row \in page[p].ticked)
              \/ \E c \in calls : /\ x.page = c.page /\ x.mount = c.mount /\ x.op = c.op
                                  /\ x.row = c.row /\ x.meant = c.meant
                                  /\ x.stage = "served" => c.op = "authorize"
           Good == calls' \subseteq Call /\ \A x \in calls' : Fine(x)
<1> SUFFICES Good
  OBVIOUS
<1>0. calls \subseteq Call /\ 1..Len(rows) \subseteq Nat
  BY Elements DEF TypeOK
<1>1. ASSUME calls' \subseteq calls PROVE Good
  BY <1>0, <1>1
<1>2. ASSUME NEW e \in Call, calls' \subseteq calls \cup {e}, Fine(e) PROVE Good
  BY <1>0, <1>2
<1>3. ASSUME NEW c \in calls, NEW stage \in {"sent", "served", "ok", "error"}, Becomes(c, stage),
             stage = "served" => c.op = "authorize"
      PROVE  Good
  <2>1. PICK e \in Call : /\ calls' = (calls \ {c}) \cup {e} /\ e.page = c.page /\ e.mount = c.mount
                          /\ e.op = c.op /\ e.row = c.row /\ e.meant = c.meant /\ e.stage = stage
    BY <1>3, CallSet
  <2>2. Fine(e)
    BY <1>3, <2>1
  <2> QED
    BY <1>2, <2>1, <2>2
<1>4. ASSUME NEW p \in Pages, NEW op \in {"queue", "authorize", "reject"}, NEW r \in Nat, Act(p, op, r),
             \/ op = "queue" /\ r = 0
             \/ op = "reject" /\ r \in 1..Len(rows)
             \/ op = "authorize" /\ r \in 1..Len(rows) /\ r \in page[p].acked
      PROVE  Good
  <2>1. PICK e \in Call : /\ calls' = calls \cup {e} /\ e.op = op /\ e.row = r /\ e.stage = "sent"
                          /\ e.meant = (r \in page[p].ticked)
    BY <1>4, ActFacts
  <2>2. Fine(e)
    BY <1>4, <2>1
  <2> QED
    BY <1>2, <2>1, <2>2
<1>5. ASSUME NEW p \in Pages, Queue(p) PROVE Good
  BY <1>4, <1>5 DEF Queue
<1>6. ASSUME NEW p \in Pages, NEW r \in 1..Len(rows), Slide(p, r) PROVE Good
  BY <1>0, <1>4, <1>6 DEF Slide
<1>7. ASSUME NEW p \in Pages, NEW r \in 1..Len(rows), PressReject(p, r) PROVE Good
  BY <1>0, <1>4, <1>7 DEF PressReject
<1>8. ASSUME NEW c \in calls, Unauthorized(c) \/ Enqueue(c) \/ Reject(c) PROVE Good
  BY <1>3, <1>8 DEF Unauthorized, Enqueue, Reject
<1>9. ASSUME NEW c \in calls, Authorize(c) PROVE Good
  BY <1>3, <1>9 DEF Authorize, Admitted
<1>10. ASSUME NEW c \in calls, NEW status \in {"broadcast", "failed"}, Finish(c, status) PROVE Good
  BY <1>3, <1>10 DEF Finish
<1>11. ASSUME NEW c \in calls, HearAnswer(c) PROVE Good
  BY <1>1, <1>11 DEF HearAnswer
<1>12. ASSUME Restart PROVE Good
  BY <1>12, RestartFacts
<1>13. ASSUME \/ \E p \in Pages : CheckToken(p) \/ Reopen(p)
              \/ \E p \in Pages, r \in 1..Len(rows) : Tick(p, r) \/ Untick(p, r)
              \/ \E p \in Pages, awaited \in BOOLEAN : Ask(p, awaited)
              \/ \E a \in polls : Hear(a)
              \/ EnterToken \/ UNCHANGED vars
       PROVE  Good
  <2>1. UNCHANGED calls
    BY <1>13 DEF CheckToken, Reopen, Tick, Untick, Ask, Hear, EnterToken, vars
  <2> QED
    BY <1>1, <2>1
<1> HIDE DEF Good
<1> QED
  BY <1>5, <1>6, <1>7, <1>8, <1>9, <1>10, <1>11, <1>12, <1>13 DEF Next

\* Every step keeps the types.
LEMMA TypeStep ==
  ASSUME TypeOK, [Next]_vars
  PROVE  TypeOK'
<1>1. rows' \in Seq(Status) /\ calls' \subseteq Call /\ page' \in [Pages -> Page]
  BY RowsStep, CallsStep, PagesStep
<1>2. \A x \in calls' : /\ x.row \in 0..Len(rows') /\ (x.op # "queue" => x.row # 0)
                        /\ x.stage = "served" => x.op = "authorize"
  <2>1. ASSUME NEW x \in calls'
        PROVE  /\ x.row \in 0..Len(rows) /\ (x.op # "queue" => x.row # 0)
               /\ x.stage = "served" => x.op = "authorize"
    BY <2>1, CallsStep, Elements
  <2> QED
    BY <2>1, RowsStep, Elements
<1>3. polls' \subseteq [page : Pages, awaited : BOOLEAN, list : Seq(Status)]
  <2>1. ASSUME NEW p \in Pages, NEW awaited \in BOOLEAN, Ask(p, awaited)
        PROVE  polls' \subseteq [page : Pages, awaited : BOOLEAN, list : Seq(Status)]
    BY <2>1 DEF Ask, Listed, TypeOK
  <2>2. polls' \subseteq polls \/ \E p \in Pages, awaited \in BOOLEAN : Ask(p, awaited)
    BY DEF Next, Queue, Slide, PressReject, Act, CheckToken, Reopen, Tick, Untick, Hear, EnterToken,
           Unauthorized, Enqueue, Authorize, Reject, HearAnswer, Finish, Restart, vars
  <2> QED
    BY <2>1, <2>2 DEF TypeOK
<1>4. token' \in BOOLEAN /\ restarted' \in BOOLEAN
  BY DEF TypeOK, Next, Queue, Slide, PressReject, Act, CheckToken, Reopen, Tick, Untick, Ask, Hear,
         EnterToken, Unauthorized, Enqueue, Authorize, Reject, HearAnswer, Finish, Restart, vars
<1>5. crossed' \subseteq Nat
  <2>1. ASSUME NEW c \in calls, Meets(c) PROVE crossed' \subseteq Nat
    <3>1. c.row \in Nat /\ crossed \subseteq Nat
      BY Elements DEF TypeOK
    <3> QED
      BY <2>1, <3>1 DEF Meets
  <2>2. UNCHANGED crossed \/ \E c \in calls : Meets(c)
    BY DEF Next, Queue, Slide, PressReject, Act, CheckToken, Reopen, Tick, Untick, Ask, Hear, EnterToken,
           Unauthorized, Enqueue, Authorize, Reject, HearAnswer, Finish, Restart, vars
  <2> QED
    BY <2>1, <2>2 DEF TypeOK
<1> QED
  BY <1>1, <1>2, <1>3, <1>4, <1>5 DEF TypeOK

-----------------------------------------------------------------------------
(* The steps keep the invariants *)

\* A row is only sent to be authorized when its own acknowledgement was ticked.
LEMMA MeantStep ==
  ASSUME TypeOK, AcksAreTicked, AuthorizeWasMeant, [Next]_vars
  PROVE  AcksAreTicked' /\ AuthorizeWasMeant'
<1>1. AcksAreTicked'
  BY PagesStep DEF AcksAreTicked
<1>2. ASSUME NEW x \in calls', x.op = "authorize" PROVE x.meant
  BY <1>2, CallsStep DEF AcksAreTicked, AuthorizeWasMeant
<1> QED
  BY <1>1, <1>2 DEF AuthorizeWasMeant

\* A page sends nothing while it waits.
LEMMA OneCallStep ==
  ASSUME TypeOK, OneCall, OneRefresh, [Next]_vars
  PROVE  OneCall'
<1>0. /\ \A c \in calls : /\ c.page \in Pages /\ c.mount \in Nat
                          /\ c.mount <= page[c.page].mount
                          /\ c.mount = page[c.page].mount => page[c.page].stage = "calling"
      /\ \A c, d \in calls : c.page = d.page /\ c.mount = d.mount => c = d
      /\ \A p \in Pages : page[p].mount \in Nat
  BY Elements DEF OneCall
<1>1. ASSUME calls' \subseteq calls,
             \A c \in calls' : \/ page'[c.page].mount = page[c.page].mount
                                  /\ page'[c.page].stage = page[c.page].stage
                               \/ page'[c.page].mount = page[c.page].mount + 1
                               \/ c.mount # page[c.page].mount /\ page'[c.page].mount = page[c.page].mount
      PROVE  OneCall'
  <2>1. ASSUME NEW c \in calls'
        PROVE  /\ c.mount <= page'[c.page].mount
               /\ c.mount = page'[c.page].mount => page'[c.page].stage = "calling"
    BY <1>0, <1>1, <2>1
  <2> QED
    BY <1>0, <1>1, <2>1 DEF OneCall
<1>2. ASSUME NEW p \in Pages, NEW op \in {"queue", "authorize", "reject"}, NEW r \in Nat, Act(p, op, r)
      PROVE  OneCall'
  <2>1. /\ page[p].stage = "idle"
        /\ page'[p].stage = "calling" /\ page'[p].mount = page[p].mount
        /\ \A q \in Pages : q # p => page'[q] = page[q]
    BY <1>2, ActFacts
  <2>2. PICK e \in Call : calls' = calls \cup {e} /\ e.page = p /\ e.mount = page[p].mount
    BY <1>2, ActFacts
  <2>3. \A c \in calls : ~(c.page = p /\ c.mount = page[p].mount)
    BY <1>0, <2>1
  <2>4. ASSUME NEW c \in calls'
        PROVE  /\ c.mount <= page'[c.page].mount
               /\ c.mount = page'[c.page].mount => page'[c.page].stage = "calling"
    BY <1>0, <2>1, <2>2, <2>4
  <2>5. ASSUME NEW c \in calls', NEW d \in calls', c.page = d.page, c.mount = d.mount PROVE c = d
    BY <1>0, <2>2, <2>3, <2>5
  <2> QED
    BY <2>4, <2>5 DEF OneCall
<1>3. ASSUME NEW c \in calls, NEW stage \in {"sent", "served", "ok", "error"}, Becomes(c, stage),
             UNCHANGED page
      PROVE  OneCall'
  <2>1. PICK e \in Call : calls' = (calls \ {c}) \cup {e} /\ e.page = c.page /\ e.mount = c.mount
    BY <1>3, CallSet
  <2>2. ASSUME NEW x \in calls'
        PROVE  /\ x.mount <= page'[x.page].mount
               /\ x.mount = page'[x.page].mount => page'[x.page].stage = "calling"
    BY <1>0, <1>3, <2>1, <2>2
  <2>3. ASSUME NEW x \in calls', NEW y \in calls', x.page = y.page, x.mount = y.mount PROVE x = y
    BY <1>0, <2>1, <2>3
  <2> QED
    BY <2>2, <2>3 DEF OneCall
<1>4. ASSUME NEW p \in Pages, Queue(p) PROVE OneCall'
  BY <1>2, <1>4 DEF Queue
<1>5. ASSUME NEW p \in Pages, NEW r \in 1..Len(rows), Slide(p, r) \/ PressReject(p, r) PROVE OneCall'
  <2>1. r \in Nat
    BY Elements
  <2> QED
    BY <1>2, <1>5, <2>1 DEF Slide, PressReject
<1>6. ASSUME NEW c \in calls, \/ Unauthorized(c) \/ Enqueue(c) \/ Authorize(c) \/ Reject(c)
                              \/ \E status \in {"broadcast", "failed"} : Finish(c, status)
      PROVE  OneCall'
  BY <1>3, <1>6 DEF Unauthorized, Enqueue, Authorize, Reject, Finish
<1>7. ASSUME NEW c \in calls, HearAnswer(c) PROVE OneCall'
  <2>1. c.page \in Pages /\ calls' = calls \ {c}
    BY <1>0, <1>7 DEF HearAnswer
  <2>2. CASE page[c.page].mount # c.mount
    <3>1. page' = page
      BY <1>7, <2>2 DEF HearAnswer
    <3> QED
      BY <1>1, <2>1, <3>1
  <2>3. CASE page[c.page].mount = c.mount
    <3>1. /\ page'[c.page].mount = page[c.page].mount
          /\ \A q \in Pages : q # c.page => page'[q] = page[q]
      BY <1>7, <2>1, <2>3, StageSet DEF HearAnswer
    <3>2. \A d \in calls' : d.page = c.page => d.mount # page[c.page].mount
      BY <1>0, <2>1, <2>3
    <3> QED
      BY <1>0, <1>1, <2>1, <3>1, <3>2
  <2> QED
    BY <2>2, <2>3
<1>8. ASSUME NEW p \in Pages, Reopen(p) PROVE OneCall'
  <2>1. calls' = calls /\ page' = [page EXCEPT ![p] = Opened(page[p].mount + 1)]
    BY <1>8 DEF Reopen
  <2>2. page'[p].mount = page[p].mount + 1 /\ \A q \in Pages : q # p => page'[q] = page[q]
    BY <2>1 DEF Opened, TypeOK
  <2> QED
    BY <1>0, <1>1, <2>1, <2>2
<1>9. ASSUME NEW p \in Pages, NEW r \in 1..Len(rows), Tick(p, r) \/ Untick(p, r) PROVE OneCall'
  <2>1. /\ calls' = calls /\ \A q \in Pages : q # p => page'[q] = page[q]
        /\ page'[p].mount = page[p].mount /\ page'[p].stage = page[p].stage
    BY <1>9, Elements DEF Tick, Untick, TypeOK, Page
  <2> QED
    BY <1>0, <1>1, <2>1
<1>10. ASSUME NEW a \in polls, Hear(a) PROVE OneCall'
  <2>1. /\ calls' = calls /\ a.page \in Pages
        /\ \A q \in Pages : q # a.page => page'[q] = page[q]
        /\ page'[a.page].mount = page[a.page].mount
        /\ page'[a.page].stage = IF a.awaited THEN "idle" ELSE page[a.page].stage
    <3>1. PICK v \in Page : /\ page' = [page EXCEPT ![a.page] = v] /\ v.mount = page[a.page].mount
                            /\ v.stage = IF a.awaited THEN "idle" ELSE page[a.page].stage
      BY <1>10, HearFacts
    <3> QED
      BY <1>10, <3>1, Elements DEF Hear, TypeOK
  <2>2. a.awaited => page[a.page].stage = "refreshing"
    BY DEF OneRefresh
  <2>3. a.awaited => \A c \in calls : c.page = a.page => c.mount # page[c.page].mount
    BY <1>0, <2>2
  <2> QED
    BY <1>0, <1>1, <2>1, <2>3
<1>11. ASSUME Restart PROVE OneCall'
  <2>1. /\ \A x \in calls' : \E c \in calls : x.page = c.page /\ x.mount = c.mount
        /\ \A x, y \in calls' : x.page = y.page /\ x.mount = y.mount =>
             x = y \/ \E c, d \in calls : /\ c # d /\ c.page = d.page /\ c.mount = d.mount
        /\ \A p \in Pages : /\ page'[p].mount = page[p].mount
                            /\ page[p].stage = "calling" => page'[p].stage = "calling"
    BY <1>11, RestartFacts
  <2>2. ASSUME NEW x \in calls'
        PROVE  /\ x.mount <= page'[x.page].mount
               /\ x.mount = page'[x.page].mount => page'[x.page].stage = "calling"
    BY <1>0, <2>1, <2>2
  <2>3. ASSUME NEW x \in calls', NEW y \in calls', x.page = y.page, x.mount = y.mount PROVE x = y
    BY <1>0, <2>1, <2>3
  <2> QED
    BY <2>2, <2>3 DEF OneCall
<1>12. CASE EnterToken \/ UNCHANGED vars \/ \E p \in Pages, awaited \in BOOLEAN : Ask(p, awaited)
  <2>1. calls' = calls /\ page' = page
    BY <1>12 DEF EnterToken, vars, Ask
  <2> QED
    BY <1>1, <2>1
<1>13. ASSUME NEW p \in Pages, CheckToken(p) PROVE OneCall'
  <2>1. /\ calls' = calls /\ \A q \in Pages : q # p => page'[q] = page[q]
        /\ page'[p].mount = page[p].mount /\ page'[p].stage = page[p].stage
    BY <1>13, Elements DEF CheckToken, TypeOK, Page
  <2> QED
    BY <1>0, <1>1, <2>1
<1> QED
  BY <1>4, <1>5, <1>6, <1>7, <1>8, <1>9, <1>10, <1>11, <1>12, <1>13 DEF Next

\* A page awaits one answer, and only once its action is done.
LEMMA OneRefreshStep ==
  ASSUME TypeOK, OneCall, OneRefresh, [Next]_vars
  PROVE  OneRefresh'
<1>0. /\ \A a \in polls : a.page \in Pages /\ (a.awaited => page[a.page].stage = "refreshing")
      /\ \A a, b \in polls : a.awaited /\ b.awaited /\ a.page = b.page => a = b
  BY Elements DEF OneRefresh
<1>1. ASSUME polls' \subseteq polls,
             \A a \in polls' : a.awaited => page'[a.page].stage = page[a.page].stage
      PROVE  OneRefresh'
  BY <1>0, <1>1 DEF OneRefresh
<1>2. ASSUME NEW p \in Pages, NEW op \in {"queue", "authorize", "reject"}, NEW r \in Nat, Act(p, op, r)
      PROVE  OneRefresh'
  <2>1. /\ page[p].stage = "idle" /\ \A q \in Pages : q # p => page'[q] = page[q]
        /\ polls' = polls
    BY <1>2, ActFacts DEF Act
  <2> QED
    BY <1>0, <1>1, <2>1
<1>3. ASSUME NEW p \in Pages, Queue(p) PROVE OneRefresh'
  BY <1>2, <1>3 DEF Queue
<1>4. ASSUME NEW p \in Pages, NEW r \in 1..Len(rows), Slide(p, r) \/ PressReject(p, r) PROVE OneRefresh'
  <2>1. r \in Nat
    BY Elements
  <2> QED
    BY <1>2, <1>4, <2>1 DEF Slide, PressReject
<1>5. ASSUME NEW p \in Pages, NEW r \in 1..Len(rows), Tick(p, r) \/ Untick(p, r) PROVE OneRefresh'
  <2>1. /\ polls' = polls /\ \A q \in Pages : q # p => page'[q] = page[q]
        /\ page'[p].stage = page[p].stage
    BY <1>5, Elements DEF Tick, Untick, TypeOK, Page
  <2> QED
    BY <1>0, <1>1, <2>1
<1>6. ASSUME NEW p \in Pages, CheckToken(p) PROVE OneRefresh'
  <2>1. /\ polls' = polls /\ \A q \in Pages : q # p => page'[q] = page[q]
        /\ page'[p].stage = page[p].stage
    BY <1>6, Elements DEF CheckToken, TypeOK, Page
  <2> QED
    BY <1>0, <1>1, <2>1
<1>7. ASSUME NEW p \in Pages, Reopen(p) PROVE OneRefresh'
  <2>1. polls' = {a \in polls : a.page # p} /\ \A q \in Pages : q # p => page'[q] = page[q]
    BY <1>7 DEF Reopen, TypeOK
  <2> QED
    BY <1>0, <1>1, <2>1
<1>8. ASSUME NEW p \in Pages, NEW awaited \in BOOLEAN, Ask(p, awaited) PROVE OneRefresh'
  <2> DEFINE e == [page |-> p, awaited |-> awaited, list |-> Listed]
  <2>1. page' = page /\ polls' = polls \cup {e} /\ e.page = p /\ e.awaited = awaited
    BY <1>8 DEF Ask
  <2>2. awaited => page[p].stage = "refreshing" /\ \A a \in polls : a.page = p => ~a.awaited
    BY <1>8 DEF Ask, Asked
  <2> HIDE DEF e
  <2>3. \A a \in polls' : a.awaited => page'[a.page].stage = "refreshing"
    BY <1>0, <2>1, <2>2
  <2>4. \A a, b \in polls' : a.awaited /\ b.awaited /\ a.page = b.page => a = b
    BY <1>0, <2>1, <2>2
  <2> QED
    BY <2>3, <2>4 DEF OneRefresh
<1>9. ASSUME NEW a \in polls, Hear(a) PROVE OneRefresh'
  <2>1. PICK v \in Page : /\ page' = [page EXCEPT ![a.page] = v]
                          /\ v.stage = IF a.awaited THEN "idle" ELSE page[a.page].stage
    BY <1>9, HearFacts
  <2>2. polls' = polls \ {a} /\ a.page \in Pages
    BY <1>0, <1>9 DEF Hear
  <2>3. ASSUME NEW b \in polls', b.awaited PROVE page'[b.page].stage = page[b.page].stage
    <3>1. b.page = a.page => ~a.awaited
      BY <1>0, <2>2, <2>3
    <3> QED
      BY <1>0, <2>1, <2>2, <2>3, <3>1 DEF TypeOK
  <2> QED
    BY <1>1, <2>2, <2>3
<1>10. ASSUME NEW c \in calls, HearAnswer(c) PROVE OneRefresh'
  <2>1. polls' = polls /\ c.page \in Pages
    BY <1>10, Elements DEF HearAnswer
  <2>2. CASE page[c.page].mount # c.mount
    BY <1>1, <1>10, <2>1, <2>2 DEF HearAnswer
  <2>3. CASE page[c.page].mount = c.mount
    <3>1. page[c.page].stage = "calling"
      BY <2>3 DEF OneCall
    <3>2. \A q \in Pages : q # c.page => page'[q] = page[q]
      BY <1>10, <2>1, <2>3, StageSet DEF HearAnswer
    <3> QED
      BY <1>0, <1>1, <2>1, <3>1, <3>2
  <2> QED
    BY <2>2, <2>3
<1>11. ASSUME Restart PROVE OneRefresh'
  BY <1>11, RestartFacts DEF OneRefresh
<1>12. ASSUME NEW c \in calls, \/ Unauthorized(c) \/ Enqueue(c) \/ Authorize(c) \/ Reject(c)
                               \/ \E status \in {"broadcast", "failed"} : Finish(c, status)
       PROVE  OneRefresh'
  BY <1>1, <1>12 DEF Unauthorized, Enqueue, Authorize, Reject, Finish
<1>13. CASE EnterToken \/ UNCHANGED vars
  BY <1>1, <1>13 DEF EnterToken, vars
<1> QED
  BY <1>3, <1>4, <1>5, <1>6, <1>7, <1>8, <1>9, <1>10, <1>11, <1>12, <1>13 DEF Next

\* A row that is worked on is decided behind its back by another page only.
LEMMA ServedStep ==
  ASSUME TypeOK, OneCall, ServedIsPending, [Next]_vars
  PROVE  ServedIsPending'
<1>0. /\ \A c \in calls : c.stage = "served" =>
           c.row \in 1..Len(rows) /\ (rows[c.row] = "pending" \/ c.row \in crossed)
      /\ \A c, d \in calls : c.stage = "served" /\ d.stage = "served" /\ c.row = d.row /\ c # d =>
           c.row \in crossed
      /\ Len(rows) \in Nat
  BY Elements DEF ServedIsPending
<1>1. ASSUME \A r \in 1..Len(rows) : rows'[r] = rows[r], crossed \subseteq crossed',
             \A x \in calls' : x.stage = "served" => x \in calls
      PROVE  ServedIsPending'
  BY <1>0, <1>1 DEF ServedIsPending
<1>2. ASSUME NEW c \in calls, NEW d \in calls, c # d, d.stage = "served", d.row = c.row, Meets(c)
      PROVE  c.row \in crossed'
  <2>1. <<d.page, d.mount>> # <<c.page, c.mount>>
    BY <1>2 DEF OneCall
  <2>2. d \in Others(c)
    BY <1>2, <2>1 DEF Others
  <2> QED
    BY <1>2, <2>2 DEF Meets
<1>3. ASSUME NEW c \in calls, Meets(c) PROVE crossed \subseteq crossed'
  BY <1>3 DEF Meets
<1>4. ASSUME NEW c \in calls, NEW stage \in {"sent", "ok", "error"}, Becomes(c, stage),
             crossed \subseteq crossed', \A r \in 1..Len(rows) : rows'[r] = rows[r]
      PROVE  ServedIsPending'
  <2>1. PICK e \in Call : calls' = (calls \ {c}) \cup {e} /\ e.stage = stage
    BY <1>4, CallSet
  <2> QED
    BY <1>1, <1>4, <2>1
<1>5. ASSUME NEW c \in calls, NEW stage \in {"sent", "ok", "error"}, NEW status, Becomes(c, stage),
             c.row \in 1..Len(rows), rows' = [rows EXCEPT ![c.row] = status], crossed \subseteq crossed',
             \A d \in calls : c # d /\ d.stage = "served" /\ d.row = c.row => c.row \in crossed'
      PROVE  ServedIsPending'
  <2>1. PICK e \in Call : calls' = (calls \ {c}) \cup {e} /\ e.stage = stage
    BY <1>5, CallSet
  <2>2. \A r \in 1..Len(rows) : r # c.row => rows'[r] = rows[r]
    BY <1>5 DEF TypeOK
  <2>3. ASSUME NEW x \in calls', x.stage = "served" PROVE x \in calls /\ x # c
    BY <1>5, <2>1, <2>3
  <2>4. ASSUME NEW x \in calls', x.stage = "served" PROVE rows'[x.row] = "pending" \/ x.row \in crossed'
    BY <1>0, <1>5, <2>2, <2>3, <2>4
  <2> QED
    BY <1>0, <1>5, <2>3, <2>4 DEF ServedIsPending
<1>6. ASSUME NEW c \in calls, Authorize(c) PROVE ServedIsPending'
  <2>1. CASE ~Undecided(c.row)
    BY <1>4, <1>6, <2>1 DEF Authorize
  <2>2. CASE Undecided(c.row)
    <3>1. Becomes(c, "served") /\ Meets(c) /\ rows' = rows /\ rows[c.row] = "pending"
      BY <1>6, <2>2 DEF Authorize, Undecided
    <3>2. PICK e \in Call : calls' = (calls \ {c}) \cup {e} /\ e.row = c.row
      BY <3>1, CallSet
    <3>3. ASSUME NEW x \in calls', x.stage = "served" PROVE rows'[x.row] = "pending" \/ x.row \in crossed'
      BY <1>0, <1>3, <3>1, <3>2, <3>3
    <3>4. ASSUME NEW x \in calls', NEW y \in calls', x.stage = "served", y.stage = "served",
                 x.row = y.row, x # y
          PROVE  x.row \in crossed'
      <4>1. CASE x \in calls /\ y \in calls
        BY <1>0, <1>3, <3>1, <3>4, <4>1
      <4>2. CASE x = e /\ y \in calls \ {c}
        BY <1>2, <3>1, <3>2, <3>4, <4>2
      <4>3. CASE y = e /\ x \in calls \ {c}
        BY <1>2, <3>1, <3>2, <3>4, <4>3
      <4> QED
        BY <3>2, <3>4, <4>1, <4>2, <4>3
    <3> QED
      BY <3>3, <3>4 DEF ServedIsPending
  <2> QED
    BY <2>1, <2>2
<1>7. ASSUME NEW c \in calls, Reject(c) PROVE ServedIsPending'
  <2>1. CASE ~Undecided(c.row)
    BY <1>4, <1>7, <2>1 DEF Reject
  <2>2. CASE Undecided(c.row)
    <3>1. /\ Becomes(c, "ok") /\ Meets(c) /\ rows' = [rows EXCEPT ![c.row] = "rejected"]
          /\ c.row \in 1..Len(rows)
      BY <1>7, <2>2, Elements DEF Reject, Admitted
    <3> QED
      BY <1>2, <1>3, <1>5, <3>1
  <2> QED
    BY <2>1, <2>2
<1>8. ASSUME NEW c \in calls, NEW status \in {"broadcast", "failed"}, Finish(c, status) PROVE ServedIsPending'
  <2>1. PICK stage \in {"ok", "error"} : Becomes(c, stage)
    BY <1>8 DEF Finish
  <2>2. rows' = [rows EXCEPT ![c.row] = status]
    BY <1>8 DEF Finish
  <2>3. c.stage = "served" /\ crossed' = crossed
    BY <1>8 DEF Finish
  <2>4. \A d \in calls : c # d /\ d.stage = "served" /\ d.row = c.row => c.row \in crossed'
    BY <1>0, <2>3
  <2>5. c.row \in 1..Len(rows)
    BY <1>0, <2>3
  <2>6. c.row \in 1..Len(rows) /\ crossed \subseteq crossed'
    BY <2>3, <2>5
  <2>7. c \in calls /\ stage \in {"sent", "ok", "error"}
    BY <2>1
  <2>8. /\ Becomes(c, stage) /\ rows' = [rows EXCEPT ![c.row] = status]
        /\ \A d \in calls : c # d /\ d.stage = "served" /\ d.row = c.row => c.row \in crossed'
    BY <2>1, <2>2, <2>4
  <2> QED
    BY ONLY <1>5, <2>6, <2>7, <2>8, Zenon
<1>9. ASSUME NEW c \in calls, Unauthorized(c) \/ Enqueue(c) PROVE ServedIsPending'
  <2>1. \A r \in 1..Len(rows) : rows'[r] = rows[r]
    <3>1. CASE rows' = Append(rows, "pending")
      BY <3>1, AppendProperties DEF TypeOK, Status
    <3> QED
      BY <1>9, <3>1 DEF Unauthorized, Enqueue
  <2> QED
    BY <1>4, <1>9, <2>1 DEF Unauthorized, Enqueue
<1>10. ASSUME NEW p \in Pages, NEW op \in {"queue", "authorize", "reject"}, NEW r \in Nat, Act(p, op, r)
       PROVE  ServedIsPending'
  <2>1. PICK e \in Call : calls' = calls \cup {e} /\ e.stage = "sent"
    BY <1>10, ActFacts
  <2>2. UNCHANGED <<rows, crossed>>
    BY <1>10 DEF Act
  <2> QED
    BY <1>1, <2>1, <2>2
<1>11. ASSUME NEW p \in Pages, Queue(p) PROVE ServedIsPending'
  BY <1>10, <1>11 DEF Queue
<1>12. ASSUME NEW p \in Pages, NEW r \in 1..Len(rows), Slide(p, r) \/ PressReject(p, r)
       PROVE  ServedIsPending'
  BY <1>0, <1>10, <1>12 DEF Slide, PressReject
<1>13. ASSUME \/ \E p \in Pages : CheckToken(p) \/ Reopen(p)
              \/ \E p \in Pages, r \in 1..Len(rows) : Tick(p, r) \/ Untick(p, r)
              \/ \E p \in Pages, awaited \in BOOLEAN : Ask(p, awaited)
              \/ \E a \in polls : Hear(a)
              \/ \E c \in calls : HearAnswer(c)
              \/ EnterToken \/ UNCHANGED vars
       PROVE  ServedIsPending'
  <2>1. UNCHANGED <<rows, crossed>> /\ calls' \subseteq calls
    BY <1>13 DEF CheckToken, Reopen, Tick, Untick, Ask, Hear, HearAnswer, EnterToken, vars
  <2> QED
    BY <1>1, <2>1
<1>14. ASSUME Restart PROVE ServedIsPending'
  BY <1>1, <1>14, RestartFacts
<1> QED
  BY <1>6, <1>7, <1>8, <1>9, <1>11, <1>12, <1>13, <1>14 DEF Next

-----------------------------------------------------------------------------
(* The theorems *)

\* Types are right and GateInv holds, for any number of pages, rows and mounts.
THEOREM GateSound == Spec => [](TypeOK /\ GateInv)
<1>1. Init => TypeOK /\ GateInv
  <2> SUFFICES ASSUME Init PROVE TypeOK /\ GateInv
    OBVIOUS
  <2>1. /\ rows = <<>> /\ calls = {} /\ polls = {} /\ token \in BOOLEAN /\ crossed = {} /\ restarted = FALSE
        /\ page = [p \in Pages |-> Opened(1)]
    BY DEF Init
  <2>2. Opened(1) \in Page /\ Opened(1).acked = {}
    BY DEF Opened, Page
  <2>3. TypeOK
    <3>1. rows \in Seq(Status) /\ page \in [Pages -> Page]
      BY <2>1, <2>2, EmptySeq
    <3> QED
      BY <2>1, <3>1 DEF TypeOK
  <2>4. AcksAreTicked
    BY <2>1, <2>2 DEF AcksAreTicked
  <2>5. AuthorizeWasMeant /\ OneCall /\ OneRefresh /\ ServedIsPending
    BY <2>1 DEF AuthorizeWasMeant, OneCall, OneRefresh, ServedIsPending
  <2> QED
    BY <2>3, <2>4, <2>5 DEF GateInv
<1>2. TypeOK /\ GateInv /\ [Next]_vars => (TypeOK /\ GateInv)'
  BY TypeStep, MeantStep, OneCallStep, OneRefreshStep, ServedStep DEF GateInv
<1> QED
  BY <1>1, <1>2, PTL DEF Spec

\* A row is only sent to be authorized by an operator who ticked that row's own acknowledgement,
\* however lists come and go between the tick and the drag (Operator.tsx requireAck).
THEOREM AuthorizesWereMeant == Spec => []AuthorizeWasMeant
<1>1. GateInv => AuthorizeWasMeant
  BY DEF GateInv
<1> QED
  BY <1>1, GateSound, PTL

\* A row is decided once: only calls of two pages which met at the daemon overwrite its status
\* (service.ts authorize, which leaves it 'pending' across its await).
THEOREM RowsAreDecidedOnce == Spec => DecidedOnce
<1>1. TypeOK /\ GateInv /\ [Next]_vars =>
        [\A r \in 1..Len(rows) : rows[r] # "pending" /\ rows'[r] # rows[r] => r \in crossed']_vars
  <2> SUFFICES ASSUME TypeOK, GateInv, [Next]_vars, NEW r \in 1..Len(rows), rows[r] # "pending",
                      rows'[r] # rows[r]
               PROVE  r \in crossed'
    OBVIOUS
  <2>1. PICK c \in calls : /\ c.row = r /\ c.stage = "served"
                           /\ \E status \in {"broadcast", "failed"} : Finish(c, status)
    BY RowsStep
  <2> QED
    BY <2>1 DEF Finish, GateInv, ServedIsPending
<1> QED
  BY <1>1, GateSound, PTL DEF Spec, DecidedOnce

=============================================================================
