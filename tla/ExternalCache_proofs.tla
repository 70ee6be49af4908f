------------------------ MODULE ExternalCache_proofs ------------------------
(***************************************************************************)
(* Proofs about ExternalCache, for any number of subscriptions, sites and  *)
(* requests in flight.                                                     *)
(***************************************************************************)
EXTENDS ExternalCache, TLAPS

-----------------------------------------------------------------------------
(* The invariant: locks and inserts                                        *)

\* A request that has yet to write a row neither holds it nor owes it to the database,
\* and its fetches are over once it purges.
Whole(q) ==
    /\ \A u \in Url : q.task[u] \in {"fetch", "write"} =>
           u \notin q.held /\ u \notin q.flush /\ u \notin q.dirty
    /\ q.stage = "purge" => \A u \in Url : q.task[u] \in Done

\* A row is locked by one request at a time.
Exclusive ==
    \A r, x \in Request :
        req[r] # None /\ req[x] # None /\ r # x => req[r].held \cap req[x].held = {}

\* Under an INSERT that went through there was no row, and there is none until it is
\* committed.
Inserted ==
    \A r \in Request : req[r] # None =>
        \A u \in req[r].held : req[r].write[u] \in Inserts => row[u] = "none"

Locks ==
    /\ \A r \in Request : req[r] # None => Whole(req[r])
    /\ Exclusive
    /\ Inserted

\* What a request in slot r may become: it locks rows that no other request has, and
\* inserts where there is no row.
Sound(r, new) ==
    /\ new \in Active
    /\ Whole(new)
    /\ \A u \in new.held :
           \/ /\ req[r] # None /\ u \in req[r].held
              /\ new.write[u] \in Inserts => new.write[u] = req[r].write[u]
           \/ /\ Holders(u) \subseteq {r}
              /\ new.write[u] \in Inserts => row[u] = "none"

LEMMA SoundKeeps ==
    ASSUME TypeOK, Locks, NEW r \in Request, NEW new, Sound(r, new), Set(r, new),
           UNCHANGED <<uses, row>>, quiet' \in BOOLEAN, left' \in SUBSET Url
    PROVE  TypeOK' /\ Locks'
<1>1. req'[r] = new /\ \A x \in Request \ {r} : req'[x] = req[x]
    BY DEF Set, TypeOK
<1>2. req' \in [Request -> Active \cup {None}]
    BY DEF Set, TypeOK, Sound
<1>3. TypeOK'
    BY <1>2 DEF TypeOK
<1>4. \A x \in Request : req'[x] # None => Whole(req'[x])
    BY <1>1 DEF Locks, Sound
<1>5. \A x \in Request \ {r} : req[x] # None => new.held \cap req[x].held = {}
    BY DEF Sound, Locks, Exclusive, Holders, Busy
<1>6. Exclusive'
    BY <1>1, <1>5 DEF Locks, Exclusive
<1>7. \A u \in new.held : new.write[u] \in Inserts => row[u] = "none"
    BY DEF Sound, Locks, Inserted
<1>8. Inserted'
    BY <1>1, <1>7 DEF Locks, Inserted
<1> QED BY <1>3, <1>4, <1>6, <1>8 DEF Locks, Whole

\* A request that is over takes its locks with it.
LEMMA CloseKeeps ==
    ASSUME TypeOK, Locks, NEW r \in Request, Close(r), UNCHANGED <<uses, row, quiet, left>>
    PROVE  TypeOK' /\ Locks'
<1>1. req'[r] = None /\ \A x \in Request \ {r} : req'[x] = req[x]
    BY DEF Close, Set, TypeOK
<1>2. req' \in [Request -> Active \cup {None}]
    BY DEF Close, Set, TypeOK
<1> QED BY <1>1, <1>2 DEF TypeOK, Locks, Whole, Exclusive, Inserted

-----------------------------------------------------------------------------
(* Each step makes a sound record                                          *)

\* The request in slot r moves to a sound record, and nothing else changes.
Moves(r) ==
    /\ \E new : Sound(r, new) /\ Set(r, new)
    /\ UNCHANGED <<uses, row, quiet, left>>

LEMMA BusyIsActive ==
    ASSUME TypeOK, NEW r \in Request, req[r] # None
    PROVE  req[r] \in Active
BY DEF TypeOK

\* What is written and held the same is as sound as it was.
LEMMA SameLocks ==
    ASSUME NEW r \in Request, req[r] # None, NEW new \in Active, Whole(new),
           new.held \subseteq req[r].held, new.write = req[r].write
    PROVE  Sound(r, new)
BY DEF Sound

LEMMA ArriveSound ==
    ASSUME TypeOK, NEW r \in Request, Arrive(r)
    PROVE  /\ \E new : Sound(r, new) /\ Set(r, new)
           /\ UNCHANGED <<uses, row>> /\ quiet' \in BOOLEAN /\ left' \in SUBSET Url
<1>1. PICK kind \in Kind, s \in Subscription \cup {None}, urls \in SUBSET Url, doomed \in SUBSET Url :
          Begin(r, kind, s, urls, doomed)
  <2>1. \A s \in Subscription : uses[s] \subseteq Url
      BY DEF TypeOK
  <2> QED BY <2>1 DEF Arrive, Resolve, Refresh, AddSource, RemoveSource, Kind
<1> DEFINE new == [kind |-> kind, s |-> s, stage |-> "fetch",
                   task |-> [u \in Url |-> IF u \in urls THEN "fetch" ELSE "none"],
                   got |-> {}, write |-> [u \in Url |-> "nothing"],
                   dirty |-> {}, flush |-> {}, held |-> {}, lost |-> FALSE,
                   doomed |-> doomed, clean |-> {}]
<1>2. new \in Active
    BY DEF Active, Task, Write
<1>3. Whole(new) /\ new.held = {}
    BY DEF Whole
<1>4. /\ Set(r, new) /\ UNCHANGED <<uses, row>>
      /\ quiet' \in BOOLEAN /\ left' \in SUBSET Url
    BY <1>1 DEF Begin, Set, Overlap, TypeOK
<1> HIDE DEF new
<1> QED BY <1>2, <1>3, <1>4 DEF Sound

\* A transaction that was rolled back holds nothing.
LEMMA RolledSound ==
    ASSUME TypeOK, Locks, NEW r \in Request, req[r] # None
    PROVE  Sound(r, Rolled(req[r]))
<1> DEFINE q == req[r]
           new == Rolled(q)
<1>1. q \in Active /\ Whole(q)
    BY BusyIsActive DEF Locks
<1>2. new \in Active
    BY <1>1 DEF Rolled, Active, Task, Write
<1>3. new.held = {} /\ new.flush = {} /\ new.dirty = {} /\ new.stage = q.stage
    BY <1>1 DEF Rolled, Active
<1>4. new.task = [u \in Url |-> IF q.task[u] = "flush" THEN "lost" ELSE q.task[u]]
    BY <1>1 DEF Rolled, Active
<1>5. Whole(new)
    BY <1>1, <1>3, <1>4 DEF Whole, Done
<1> QED BY <1>2, <1>3, <1>5 DEF Sound

\* A statement locks a row that nobody else has.
LEMMA StatementSound ==
    ASSUME TypeOK, Locks, NEW r \in Request, req[r] # None, NEW u \in Url, Statement(r, u)
    PROVE  Moves(r)
<1> DEFINE q == req[r]
           next == [q EXCEPT !.flush = @ \ {u}, !.held = @ \cup {u}]
           last == [next EXCEPT !.task = Flushed(q)]
<1>1. q \in Active /\ Whole(q)
    BY BusyIsActive DEF Locks
<1>2. u \in q.flush /\ Holders(u) \subseteq {r} /\ UNCHANGED <<uses, row, quiet, left>>
    BY DEF Statement
<1>3. CASE u \in q.held \/ Applies(q.write[u], u)
  <2>1. next \in Active
      BY <1>1 DEF Active
  <2>2. /\ next.flush = q.flush \ {u} /\ next.held = q.held \cup {u}
        /\ next.write = q.write /\ next.task = q.task /\ next.dirty = q.dirty
        /\ next.stage = q.stage
      BY <1>1 DEF Active
  <2>3. Flushed(q) \in [Url -> Task]
      BY <1>1 DEF Flushed, Active, Task
  <2>4. last \in Active
      BY <2>1, <2>3 DEF Active
  <2>5. /\ last.flush = next.flush /\ last.held = next.held /\ last.write = q.write
        /\ last.task = Flushed(q) /\ last.dirty = q.dirty /\ last.stage = q.stage
      BY <2>1, <2>2 DEF Active
  <2>6. q.task[u] \notin {"fetch", "write"}
      BY <1>1, <1>2 DEF Whole
  <2>7. Set(r, next) \/ Set(r, last)
      BY <1>3 DEF Statement
  <2> HIDE DEF next, last
  <2>8. Whole(next)
      BY <1>1, <2>2, <2>6 DEF Whole
  <2>9. Whole(last)
    <3>1. \A v \in Url : /\ Flushed(q)[v] \in {"fetch", "write"} => Flushed(q)[v] = q.task[v]
                         /\ q.task[v] \in Done => Flushed(q)[v] \in Done
        BY DEF Flushed, Done
    <3> QED BY <1>1, <2>2, <2>5, <2>6, <3>1 DEF Whole
  <2>10. q.write[u] \in Inserts => row[u] = "none" \/ u \in q.held
      BY <1>3 DEF Applies, Inserts
  <2>11. Sound(r, next) /\ Sound(r, last)
      BY <1>2, <2>1, <2>2, <2>4, <2>5, <2>8, <2>9, <2>10 DEF Sound
  <2> QED BY <1>2, <2>7, <2>11 DEF Moves
<1>4. CASE ~(u \in q.held \/ Applies(q.write[u], u))
  <2>1. Set(r, Rolled(q))
      BY <1>4 DEF Statement
  <2> QED BY <1>2, <2>1, RolledSound DEF Moves
<1> QED BY <1>3, <1>4

\* A fetch that has looked for the row has its write ready.
LEMMA LookSound ==
    ASSUME TypeOK, Locks, NEW r \in Request, req[r] # None, NEW u \in Url, Look(r, u)
    PROVE  Moves(r)
<1> DEFINE q == req[r]
           next(got) == [q EXCEPT
               !.task[u] = IF ~q.lost THEN "write" ELSE IF got THEN "lost" ELSE "failed",
               !.write[u] = IF q.lost THEN "nothing" ELSE WriteFor(row[u] # "none", got),
               !.got = IF got THEN @ \cup {u} ELSE @]
<1>1. q \in Active /\ Whole(q)
    BY BusyIsActive DEF Locks
<1>2. PICK got \in BOOLEAN : Set(r, next(got))
    BY DEF Look
<1>3. q.task[u] = "fetch" /\ UNCHANGED <<uses, row, quiet, left>>
    BY DEF Look
<1> DEFINE new == next(got)
<1>4. WriteFor(row[u] # "none", got) \in Write
    BY DEF WriteFor, Write
<1>5. new \in Active
    BY <1>1, <1>4 DEF Active, Task, Write
<1>6. /\ new.held = q.held /\ new.flush = q.flush /\ new.dirty = q.dirty
      /\ new.stage = q.stage
      /\ \A v \in Url \ {u} : new.task[v] = q.task[v] /\ new.write[v] = q.write[v]
    BY <1>1 DEF Active
<1>7. u \notin q.held /\ u \notin q.flush /\ u \notin q.dirty /\ q.stage # "purge"
    BY <1>1, <1>3 DEF Whole, Done
<1> HIDE DEF next
<1>8. Whole(new)
    BY <1>1, <1>6, <1>7 DEF Whole
<1>9. new.held \subseteq Url
    BY <1>5 DEF Active
<1>10. Sound(r, new)
    BY <1>5, <1>6, <1>7, <1>8, <1>9 DEF Sound
<1> QED BY <1>2, <1>3, <1>10 DEF Moves

\* A flush takes what is written, or is refused.
LEMMA FlushSound ==
    ASSUME TypeOK, Locks, NEW r \in Request, req[r] # None, NEW u \in Url, Flush(r, u)
    PROVE  Moves(r)
<1> DEFINE q == req[r]
<1>1. q \in Active /\ Whole(q)
    BY BusyIsActive DEF Locks
<1>2. q.task[u] = "write" /\ UNCHANGED <<uses, row, quiet, left>>
    BY DEF Flush
<1>3. q.stage # "purge"
    BY <1>1, <1>2 DEF Whole, Done
<1>4. ASSUME NEW t \in Task \ {"fetch", "write"}, NEW dirty \in SUBSET Url,
             NEW flush \in SUBSET Url, dirty \cup flush \subseteq q.dirty \cup q.flush \cup {u},
             Set(r, [q EXCEPT !.task[u] = t, !.dirty = dirty, !.flush = flush])
      PROVE  Moves(r)
  <2> DEFINE new == [q EXCEPT !.task[u] = t, !.dirty = dirty, !.flush = flush]
  <2>1. new \in Active
      BY <1>1 DEF Active
  <2>2. /\ new.held = q.held /\ new.flush = flush /\ new.dirty = dirty
        /\ new.write = q.write /\ new.stage = q.stage
        /\ new.task[u] = t /\ \A v \in Url \ {u} : new.task[v] = q.task[v]
      BY <1>1 DEF Active
  <2>3. Set(r, new) BY <1>4
  <2> HIDE DEF new
  <2>4. Whole(new)
    <3>1. \A v \in Url : new.task[v] \in {"fetch", "write"} =>
              v # u /\ q.task[v] \in {"fetch", "write"}
        BY <2>2, <1>4
    <3> QED BY <1>1, <1>3, <1>4, <2>2, <3>1 DEF Whole
  <2>5. Sound(r, new)
      BY <2>1, <2>2, <2>4, SameLocks
  <2> QED BY <1>2, <2>3, <2>5 DEF Moves
<1>5. CASE q.lost
  <2> DEFINE t == IF u \in q.got THEN "lost" ELSE "failed"
  <2>1. Set(r, [q EXCEPT !.task[u] = t])
      BY <1>5 DEF Flush
  <2>2. [q EXCEPT !.task[u] = t] = [q EXCEPT !.task[u] = t, !.dirty = q.dirty, !.flush = q.flush]
      BY <1>1 DEF Active
  <2>3. t \in Task \ {"fetch", "write"} /\ q.dirty \in SUBSET Url /\ q.flush \in SUBSET Url
      BY <1>1 DEF Task, Active
  <2> QED BY <1>4, <2>1, <2>2, <2>3
<1>6. CASE ~q.lost /\ q.flush # {}
  <2> DEFINE t == IF u \in q.got THEN "clashed" ELSE "failed"
             dirty == IF q.write[u] \in Inserts THEN q.dirty \cup {u} ELSE q.dirty
  <2>1. Set(r, [q EXCEPT !.task[u] = t, !.dirty = dirty])
      BY <1>1, <1>6 DEF Flush, Active
  <2>2. [q EXCEPT !.task[u] = t, !.dirty = dirty]
            = [q EXCEPT !.task[u] = t, !.dirty = dirty, !.flush = q.flush]
      BY <1>1 DEF Active
  <2>3. t \in Task \ {"fetch", "write"} /\ dirty \in SUBSET Url /\ q.flush \in SUBSET Url
      BY <1>1 DEF Task, Active
  <2>4. dirty \cup q.flush \subseteq q.dirty \cup q.flush \cup {u}
      OBVIOUS
  <2>5. Set(r, [q EXCEPT !.task[u] = t, !.dirty = dirty, !.flush = q.flush])
      BY <2>1, <2>2
  <2> HIDE DEF t, dirty
  <2> QED BY <1>4, <2>3, <2>4, <2>5
<1>7. CASE ~q.lost /\ q.flush = {}
  <2>1. Set(r, [q EXCEPT !.task[u] = "flush", !.dirty = {}, !.flush = q.dirty \cup {u}])
      BY <1>1, <1>7 DEF Flush, Active
  <2> DEFINE dirty == {}
             flush == q.dirty \cup {u}
  <2>2. "flush" \in Task \ {"fetch", "write"} /\ dirty \in SUBSET Url /\ flush \in SUBSET Url
      BY <1>1 DEF Task, Active
  <2>3. dirty \cup flush \subseteq q.dirty \cup q.flush \cup {u}
      OBVIOUS
  <2>4. Set(r, [q EXCEPT !.task[u] = "flush", !.dirty = dirty, !.flush = flush])
      BY <2>1
  <2> HIDE DEF dirty, flush
  <2> QED BY <1>4, <2>2, <2>3, <2>4
<1> QED BY <1>5, <1>6, <1>7

\* The end of a request: sources to remove, cache rows to delete, the last flush.
LEMMA PurgeSound ==
    ASSUME TypeOK, Locks, NEW r \in Request, req[r] # None,
           Sweep(r) \/ FlushRest(r) \/ \E u \in Url : Purge(r, u)
    PROVE  Moves(r)
<1> DEFINE q == req[r]
<1>1. q \in Active /\ Whole(q)
    BY BusyIsActive DEF Locks
<1>2. UNCHANGED <<uses, row, quiet, left>>
    BY DEF Sweep, FlushRest, Purge
\* With every fetch over, what is left to flush and to delete is free.
<1>3. ASSUME \A u \in Url : q.task[u] \in Done, NEW new \in Active,
             new.task = q.task, new.held = q.held,
             \A u \in Url : new.write[u] \in Inserts => new.write[u] = q.write[u],
             Set(r, new)
      PROVE  Moves(r)
  <2>1. Whole(new)
      BY <1>3 DEF Whole, Done
  <2>2. new.held \subseteq Url
      BY <1>3 DEF Active
  <2>3. Sound(r, new)
      BY <1>3, <2>1, <2>2 DEF Sound
  <2> QED BY <1>2, <1>3, <2>3 DEF Moves
<1>4. CASE Sweep(r)
  <2> DEFINE gone == Refused(q)
             doomed == IF q.kind = "add" THEN q.doomed ELSE gone
             clean == Unique(gone)
             new == [q EXCEPT !.stage = "purge", !.doomed = doomed, !.clean = clean]
  <2>1. Set(r, new)
      BY <1>1, <1>4 DEF Sweep, Active
  <2>2. gone \in SUBSET Url
      BY <1>1 DEF Refused, Active
  <2>3. doomed \in SUBSET Url /\ clean \in SUBSET Url
      BY <1>1, <2>2 DEF Unique, Active
  <2> HIDE DEF doomed, clean
  <2>4. new \in Active
      BY <1>1, <2>3 DEF Active
  <2>5. new.task = q.task /\ new.held = q.held /\ new.write = q.write
      BY <1>1 DEF Active
  <2>6. \A u \in Url : q.task[u] \in Done
      BY <1>4 DEF Sweep, Fetched
  <2> QED BY <1>3, <2>1, <2>4, <2>5, <2>6
<1>5. CASE FlushRest(r)
  <2> DEFINE new == [q EXCEPT !.flush = q.dirty, !.dirty = {}]
  <2>1. Set(r, new) /\ \A u \in Url : q.task[u] \in Done
      BY <1>1, <1>5 DEF FlushRest, Whole
  <2>2. new \in Active
      BY <1>1 DEF Active
  <2>3. new.task = q.task /\ new.held = q.held /\ new.write = q.write
      BY <1>1 DEF Active
  <2> QED BY <1>3, <2>1, <2>2, <2>3
<1>6. ASSUME NEW u \in Url, Purge(r, u)
      PROVE  Moves(r)
  <2>1. \A v \in Url : q.task[v] \in Done
      BY <1>1, <1>6 DEF Purge, Whole
  <2>2. CASE Sees(q, u) = "none"
    <3> DEFINE new == [q EXCEPT !.clean = @ \ {u}]
    <3>1. Set(r, new)
        BY <1>6, <2>2 DEF Purge
    <3>2. new \in Active
        BY <1>1 DEF Active
    <3>3. new.task = q.task /\ new.held = q.held /\ new.write = q.write
        BY <1>1 DEF Active
    <3> QED BY <1>3, <2>1, <3>1, <3>2, <3>3
  <2>3. CASE Sees(q, u) # "none"
    <3> DEFINE new == [q EXCEPT !.clean = @ \ {u}, !.write[u] = "delete",
                                !.flush = q.dirty \cup {u}, !.dirty = {}]
    <3>1. Set(r, new)
        BY <1>6, <2>3 DEF Purge
    <3>2. new \in Active
        BY <1>1 DEF Active, Write
    <3>3. new.task = q.task /\ new.held = q.held /\ new.write = [q.write EXCEPT ![u] = "delete"]
        BY <1>1 DEF Active
    <3>4. \A v \in Url : new.write[v] \in Inserts => new.write[v] = q.write[v]
        BY <1>1, <3>3 DEF Active, Inserts
    <3> QED BY <1>3, <2>1, <3>1, <3>2, <3>3, <3>4
  <2> QED BY <2>2, <2>3
<1> QED BY <1>4, <1>5, <1>6

\* What a session sees is a row, and where it holds nothing what is committed.
LEMMA SeesRow ==
    ASSUME TypeOK, NEW r \in Request, req[r] # None, NEW u \in Url
    PROVE  /\ Sees(req[r], u) \in Row
           /\ u \notin req[r].held => Sees(req[r], u) = row[u]
           /\ Sees(req[r], u) = "blank" => row[u] = "blank" \/ (/\ u \in req[r].held
                                                               /\ req[r].write[u] \in Inserts)
BY BusyIsActive DEF Sees, TypeOK, Active, Write, Row, Inserts

LEMMA CommitKeeps ==
    ASSUME TypeOK, Locks, NEW r \in Request, req[r] # None, Commit(r)
    PROVE  TypeOK' /\ Locks'
<1> DEFINE q == req[r]
<1>1. q \in Active
    BY BusyIsActive
<1>2. /\ row' = [u \in Url |-> Sees(q, u)] /\ Close(r) /\ UNCHANGED quiet
      /\ uses' = [uses EXCEPT ![q.s] = IF q.kind = "add" THEN @ \cup q.doomed ELSE @ \ q.doomed]
      /\ left' \in SUBSET left
    BY DEF Commit
<1>3. req'[r] = None /\ \A x \in Request \ {r} : req'[x] = req[x]
    BY <1>2 DEF Close, Set, TypeOK
<1>4. req' \in [Request -> Active \cup {None}]
    BY <1>2 DEF Close, Set, TypeOK
<1>5. row' \in [Url -> Row]
    BY <1>2, SeesRow
<1>6. uses' \in [Subscription -> SUBSET Url]
    BY <1>1, <1>2 DEF TypeOK, Active
<1>7. \A x \in Request \ {r} : req[x] # None => \A u \in req[x].held : row'[u] = row[u]
  <2> SUFFICES ASSUME NEW x \in Request \ {r}, req[x] # None, NEW u \in req[x].held
               PROVE  row'[u] = row[u]
      OBVIOUS
  <2>1. u \in Url
      BY BusyIsActive DEF Active
  <2>2. u \notin q.held
      BY DEF Locks, Exclusive
  <2> QED BY <1>2, <2>1, <2>2, SeesRow
<1>8. Inserted'
    BY <1>3, <1>7 DEF Locks, Inserted
<1>9. Exclusive'
    BY <1>3 DEF Locks, Exclusive
<1>10. (\A x \in Request : req[x] # None => Whole(req[x]))'
    BY <1>3 DEF Locks, Whole
<1> QED BY <1>2, <1>4, <1>5, <1>6, <1>8, <1>9, <1>10 DEF TypeOK, Locks

\* A bulk deletion takes subscriptions away from the requests, and nothing else.
LEMMA Wiped ==
    ASSUME TypeOK, NEW r \in Request, Wipe(r)
    PROVE  /\ req' \in [Request -> Active \cup {None}]
           /\ uses' \in [Subscription -> SUBSET Url]
           /\ row' = row /\ left' \in SUBSET Url
           /\ quiet' = (quiet /\ Busy = {})
           /\ \A x \in Request :
                 /\ req[x] = None => req'[x] = None
                 /\ req[x] # None => \E s \in Subscription \cup {None} :
                                        req'[x] = [req[x] EXCEPT !.s = s] /\ req'[x] # None
<1>1. PICK gone \in Bulk :
          /\ uses' = [s \in Subscription |-> IF s \in gone THEN {} ELSE uses[s]]
          /\ req' = [x \in Request |->
                         IF req[x] # None /\ req[x].s \in gone THEN [req[x] EXCEPT !.s = None]
                                                              ELSE req[x]]
          /\ Overlap({u \in Url : Used(u) # {} /\ Used(u) \subseteq gone})
          /\ UNCHANGED row
    BY DEF Wipe
<1>2. ASSUME NEW x \in Request, req[x] # None
      PROVE  /\ req'[x] \in Active /\ req'[x] # None
             /\ \E s \in Subscription \cup {None} : req'[x] = [req[x] EXCEPT !.s = s]
  <2>1. req[x] \in Active
      BY <1>2, BusyIsActive
  <2>2. req[x] = [req[x] EXCEPT !.s = req[x].s] /\ req[x].s \in Subscription \cup {None}
      BY <2>1 DEF Active
  <2>3. [req[x] EXCEPT !.s = None] \in Active
      BY <2>1 DEF Active
  <2> QED BY <1>1, <2>1, <2>2, <2>3, NoneAssumption
<1>3. \A x \in Request : req[x] = None => req'[x] = None
    BY <1>1
<1>4. req' \in [Request -> Active \cup {None}]
    BY <1>1, <1>2, <1>3
<1>5. uses' \in [Subscription -> SUBSET Url]
    BY <1>1 DEF TypeOK
<1> QED BY <1>1, <1>2, <1>3, <1>4, <1>5 DEF Overlap, TypeOK

LEMMA WipeKeeps ==
    ASSUME TypeOK, Locks, NEW r \in Request, Wipe(r)
    PROVE  TypeOK' /\ Locks'
<1>1. \A x \in Request : req[x] # None =>
          /\ req'[x].held = req[x].held /\ req'[x].write = req[x].write
          /\ req'[x].task = req[x].task /\ req'[x].flush = req[x].flush
          /\ req'[x].dirty = req[x].dirty /\ req'[x].stage = req[x].stage
  <2> SUFFICES ASSUME NEW x \in Request, req[x] # None
               PROVE  /\ req'[x].held = req[x].held /\ req'[x].write = req[x].write
                      /\ req'[x].task = req[x].task /\ req'[x].flush = req[x].flush
                      /\ req'[x].dirty = req[x].dirty /\ req'[x].stage = req[x].stage
      OBVIOUS
  <2>1. PICK s \in Subscription \cup {None} : req'[x] = [req[x] EXCEPT !.s = s]
      BY Wiped
  <2> QED BY <2>1, BusyIsActive DEF Active
<1>2. \A x \in Request : req'[x] # None <=> req[x] # None
    BY Wiped
<1>3. TypeOK'
    BY Wiped DEF TypeOK
<1>4. row' = row
    BY Wiped
<1>5. Exclusive'
    BY <1>1, <1>2 DEF Locks, Exclusive
<1>6. Inserted'
    BY <1>1, <1>2, <1>4 DEF Locks, Inserted
<1>7. (\A x \in Request : req[x] # None => Whole(req[x]))'
    BY <1>1, <1>2 DEF Locks, Whole
<1> QED BY <1>3, <1>5, <1>6, <1>7 DEF Locks

LEMMA LocksInductive ==
    ASSUME TypeOK, Locks, [Next]_vars
    PROVE  TypeOK' /\ Locks'
<1>1. CASE UNCHANGED vars
    BY <1>1 DEF vars, TypeOK, Locks, Whole, Exclusive, Inserted
<1>2. ASSUME NEW r \in Request, Arrive(r) PROVE TypeOK' /\ Locks'
    BY <1>2, ArriveSound, SoundKeeps
<1>3. ASSUME NEW r \in Request, Abort(r) PROVE TypeOK' /\ Locks'
    BY <1>3, CloseKeeps DEF Abort
<1>4. ASSUME NEW r \in Request, Step(r) PROVE TypeOK' /\ Locks'
  <2>0. req[r] # None
      BY <1>4 DEF Step
  <2>1. CASE Moves(r)
    <3>1. quiet' \in BOOLEAN /\ left' \in SUBSET Url BY <2>1 DEF Moves, TypeOK
    <3> QED BY <2>1, <3>1, SoundKeeps DEF Moves
  <2>2. CASE \E u \in Url : Look(r, u) \/ Flush(r, u) \/ Statement(r, u) \/ Purge(r, u)
      BY <2>0, <2>1, <2>2, LookSound, FlushSound, StatementSound, PurgeSound
  <2>3. CASE Victim(r)
      BY <2>0, <2>1, <2>3, RolledSound DEF Victim, Moves
  <2>4. CASE Sweep(r) \/ FlushRest(r)
      BY <2>0, <2>1, <2>4, PurgeSound
  <2>5. CASE Commit(r)
      BY <2>0, <2>5, CommitKeeps
  <2>6. CASE GiveUp(r)
      BY <2>6, CloseKeeps DEF GiveUp
  <2> QED BY <1>4, <2>2, <2>3, <2>4, <2>5, <2>6 DEF Step
<1>5. ASSUME NEW r \in Request, Wipe(r) PROVE TypeOK' /\ Locks'
    BY <1>5, WipeKeeps
<1> QED BY <1>1, <1>2, <1>3, <1>4, <1>5 DEF Next

LEMMA LocksAlways == Spec => [](TypeOK /\ Locks)
<1>1. Init => TypeOK /\ Locks
  <2> SUFFICES ASSUME Init PROVE TypeOK /\ Locks
      OBVIOUS
  <2>1. TypeOK BY DEF Init, TypeOK, Row
  <2>2. Locks BY DEF Init, Locks, Exclusive, Inserted
  <2> QED BY <2>1, <2>2
<1>2. TypeOK /\ Locks /\ [Next]_vars => (TypeOK /\ Locks)'
    BY LocksInductive
<1> QED BY <1>1, <1>2, PTL DEF Spec

\* The rows and the records of the requests in flight stay well formed.
THEOREM TypeCorrect == Spec => []TypeOK
BY LocksAlways, PTL

\* Content that is stored stays content: it is replaced or deleted, and no failed
\* fetch, lost race of inserts or rolled back transaction turns it into an error
\* (create_or_update_cache).
THEOREM ContentAlwaysKept == Spec => ContentKept
<1>1. ASSUME TypeOK, Locks, [Next]_vars, NEW u \in Url, row[u] = "full"
      PROVE  row'[u] # "blank"
  <2>1. CASE UNCHANGED row
      BY <1>1, <2>1
  <2>2. ASSUME NEW r \in Request, req[r] # None, Commit(r) PROVE row'[u] # "blank"
    <3>1. row'[u] = Sees(req[r], u)
        BY <2>2 DEF Commit
    <3>2. u \in req[r].held /\ req[r].write[u] \in Inserts => row[u] = "none"
        BY <1>1, <2>2 DEF Locks, Inserted
    <3> QED BY <1>1, <2>2, <3>1, <3>2, SeesRow
  <2>3. ASSUME NEW r \in Request, Arrive(r) PROVE UNCHANGED row
      BY <1>1, <2>3, ArriveSound
  <2>4. ASSUME NEW r \in Request, Step(r) PROVE UNCHANGED row \/ (req[r] # None /\ Commit(r))
      BY <2>4 DEF Step, Look, Flush, Statement, Purge, Victim, Sweep, FlushRest, GiveUp
  <2>5. UNCHANGED row \/ \E r \in Request : req[r] # None /\ Commit(r)
      BY <1>1, <2>3, <2>4 DEF Next, vars, Abort, Wipe
  <2> QED BY <2>1, <2>2, <2>5
<1>2. TypeOK /\ Locks /\ [Next]_vars => [\A u \in Url : row[u] = "full" => row'[u] # "blank"]_vars
    BY <1>1
<1> QED BY <1>2, LocksAlways, PTL DEF Spec, ContentKept

-----------------------------------------------------------------------------
(* What a request knows of its fetches                                     *)

Running == {"write", "flush", "ok"}
Stored == {"insertFull", "content"}

\* As long as its transaction lives: a fetch that went well has content to write, one
\* that is through holds its row, one that was refused met the flush of another, and
\* what is removed and swept was not fetched well.
Fetches(q) ==
    /\ q.kind = "resolve" => q.stage = "fetch"
    /\ q.kind = "remove" => \A u \in Url : q.task[u] = "none"
    /\ ~q.lost =>
        /\ \A u \in Url :
            /\ q.task[u] # "lost"
            /\ q.task[u] \in {"none", "fetch", "failed"} => u \notin q.got
            /\ q.task[u] \in Running /\ u \in q.got => q.write[u] \in Stored
            /\ q.task[u] = "flush" => u \in q.flush \cup q.held
            /\ q.task[u] = "ok" => u \in q.got /\ u \in q.held
            /\ q.task[u] = "clashed" =>
                   \E v \in Url \ {u} : q.task[v] \in {"flush", "ok", "failed"}
        /\ q.stage = "fetch" /\ q.flush # {} => \E v \in Url : q.task[v] = "flush"
        /\ q.stage = "fetch" => q.clean = {}
        /\ \A u \in q.clean : q.task[u] # "ok"
        /\ q.stage = "purge" /\ q.kind = "refresh" =>
               q.doomed = {u \in Url : q.task[u] \in {"failed", "clashed"}}

\* The rows are what the sources need.
Served ==
    \A u \in Url :
        /\ row[u] = IF Used(u) = {} /\ u \notin left THEN "none" ELSE "full"
        /\ u \in left => Used(u) = {}

\* A request that is alone inserts the row of its new source only, updates rows in use
\* or that of its new source, and deletes those that its removals leave without use.
Solo(q) ==
    ~q.lost =>
        /\ \A u \in Url :
            /\ q.write[u] \in Inserts => q.kind = "add" /\ u \in q.doomed /\ Used(u) = {}
            /\ q.write[u] \in {"content", "error"} =>
                   Used(u) # {} \/ (q.kind = "add" /\ u \in q.doomed)
            /\ q.write[u] = "delete" =>
                   /\ q.stage = "purge" /\ q.kind \in {"refresh", "remove"}
                   /\ u \in q.doomed /\ Used(u) = {q.s}
            /\ q.task[u] # "none" /\ q.kind \in {"resolve", "refresh"} => Used(u) # {}
            /\ q.task[u] # "none" /\ q.kind = "refresh" => q.s \in Used(u)
            /\ u \in q.doomed /\ q.kind \in {"refresh", "remove"} => q.s \in Used(u)
            /\ q.kind = "add" /\ u \in q.doomed => (q.task[u] = "none" <=> Used(u) # {})
            /\ q.kind = "add" /\ u \notin q.doomed => q.task[u] = "none"
        /\ q.stage = "purge" /\ q.kind = "add" => \A u \in Url : q.task[u] \in {"none", "ok"}
        /\ q.clean \subseteq q.doomed /\ \A u \in q.clean : Used(u) = {q.s}
        /\ q.clean # {} => q.kind \in {"refresh", "remove"}
        /\ q.stage = "purge" /\ q.kind \in {"refresh", "remove"} =>
               \A u \in q.doomed : Used(u) = {q.s} =>
                   u \in q.clean \/ (q.write[u] = "delete" /\ u \in q.flush \cup q.held)

\* The request in slot r goes on as it should.
Goes(r) ==
    /\ UNCHANGED <<uses, row, quiet, left>>
    /\ \E new \in Active : /\ Set(r, new)
                           /\ Fetches(new)
                           /\ Served /\ Solo(req[r]) => Solo(new)

LEMMA ArriveGoes ==
    ASSUME TypeOK, NEW r \in Request, Arrive(r)
    PROVE  /\ UNCHANGED <<uses, row>> /\ Overlap({})
           /\ \E new \in Active : Set(r, new) /\ Fetches(new) /\ Solo(new)
<1>1. PICK kind \in Kind, s \in Subscription \cup {None},
           urls \in SUBSET Url, doomed \in SUBSET Url :
          /\ Begin(r, kind, s, urls, doomed)
          /\ kind = "remove" => urls = {} /\ s \in Subscription /\ doomed \subseteq uses[s]
          /\ kind = "refresh" => doomed = {} /\ s \in Subscription /\ urls \subseteq uses[s]
          /\ kind = "resolve" => \A u \in urls : Used(u) # {}
          /\ kind = "add" => \E u \in Url : /\ doomed = {u}
                                            /\ urls = IF Used(u) = {} THEN {u} ELSE {}
  <2>1. \A s \in Subscription : uses[s] \subseteq Url
      BY DEF TypeOK
  <2>2. PICK s \in Subscription :
            Resolve(r, s) \/ Refresh(r, s) \/ AddSource(r, s) \/ RemoveSource(r, s)
      BY DEF Arrive
  <2>3. CASE Resolve(r, s)
    <3>1. \A u \in uses[s] : Used(u) # {}
        BY DEF Used
    <3>2. Begin(r, "resolve", None, uses[s], {}) /\ uses[s] \in SUBSET Url
        BY <2>1, <2>3 DEF Resolve
    <3> QED BY <3>1, <3>2 DEF Kind
  <2>4. CASE Refresh(r, s)
      BY <2>1, <2>4 DEF Refresh, Kind
  <2>5. CASE AddSource(r, s)
    <3>1. PICK u \in Url : Begin(r, "add", s, IF Used(u) = {} THEN {u} ELSE {}, {u})
        BY <2>5 DEF AddSource
    <3> DEFINE urls == IF Used(u) = {} THEN {u} ELSE {}
    <3>2. urls \in SUBSET Url /\ {u} \in SUBSET Url /\ "add" \in Kind
        BY DEF Kind
    <3> QED BY <3>1, <3>2
  <2>6. CASE RemoveSource(r, s)
      BY <2>1, <2>6 DEF RemoveSource, Kind
  <2> QED BY <2>2, <2>3, <2>4, <2>5, <2>6
<1> DEFINE new == [kind |-> kind, s |-> s, stage |-> "fetch",
                   task |-> [u \in Url |-> IF u \in urls THEN "fetch" ELSE "none"],
                   got |-> {}, write |-> [u \in Url |-> "nothing"],
                   dirty |-> {}, flush |-> {}, held |-> {}, lost |-> FALSE,
                   doomed |-> doomed, clean |-> {}]
<1>2. new \in Active
    BY DEF Active, Task, Write
<1>3. /\ new.kind = kind /\ new.s = s /\ new.stage = "fetch" /\ new.doomed = doomed
      /\ new.got = {} /\ new.flush = {} /\ new.clean = {}
      /\ \A u \in Url : /\ new.task[u] = IF u \in urls THEN "fetch" ELSE "none"
                        /\ new.write[u] = "nothing"
    OBVIOUS
<1>4. Set(r, new) /\ UNCHANGED <<uses, row>> /\ Overlap({})
    BY <1>1 DEF Begin, Set
<1> HIDE DEF new
<1>5. Fetches(new)
    BY <1>1, <1>3 DEF Fetches, Running
<1>6. Solo(new)
  <2>1. \A u \in Url : /\ u \in urls /\ kind = "refresh" => s \in Used(u)
                       /\ u \in urls /\ kind = "resolve" => Used(u) # {}
                       /\ u \in doomed /\ kind \in {"refresh", "remove"} => s \in Used(u)
      BY <1>1 DEF Used
  <2> QED BY <1>1, <1>3, <2>1 DEF Solo, Inserts
<1> QED BY <1>2, <1>4, <1>5, <1>6

LEMMA RolledGoes ==
    ASSUME TypeOK, NEW r \in Request, req[r] # None, Fetches(req[r]),
           Set(r, Rolled(req[r])), UNCHANGED <<uses, row, quiet, left>>
    PROVE  Goes(r)
<1> DEFINE q == req[r]
           new == Rolled(q)
<1>1. q \in Active
    BY BusyIsActive
<1>2. new \in Active
    BY <1>1 DEF Rolled, Active, Task, Write
<1>3. new.lost = TRUE /\ new.kind = q.kind /\ new.stage = q.stage
    BY <1>1 DEF Rolled, Active
<1>4. new.task = [u \in Url |-> IF q.task[u] = "flush" THEN "lost" ELSE q.task[u]]
    BY <1>1 DEF Rolled, Active
<1>5. Fetches(new) /\ Solo(new)
    BY <1>3, <1>4 DEF Fetches, Solo
<1> QED BY <1>2, <1>5 DEF Goes

LEMMA StatementGoes ==
    ASSUME TypeOK, Locks, NEW r \in Request, req[r] # None, Fetches(req[r]),
           NEW u \in Url, Statement(r, u)
    PROVE  Goes(r)
<1> DEFINE q == req[r]
           next == [q EXCEPT !.flush = @ \ {u}, !.held = @ \cup {u}]
           last == [next EXCEPT !.task = Flushed(q)]
<1>1. q \in Active /\ Whole(q)
    BY BusyIsActive DEF Locks
<1>2. u \in q.flush /\ UNCHANGED <<uses, row, quiet, left>>
    BY DEF Statement
<1>3. CASE u \in q.held \/ Applies(q.write[u], u)
  <2>1. next \in Active /\ Flushed(q) \in [Url -> Task]
      BY <1>1 DEF Active, Flushed, Task
  <2>2. last \in Active
      BY <2>1 DEF Active
  <2>3. /\ next.kind = q.kind /\ next.s = q.s /\ next.stage = q.stage /\ next.task = q.task
        /\ next.got = q.got /\ next.write = q.write /\ next.flush = q.flush \ {u}
        /\ next.held = q.held \cup {u} /\ next.lost = q.lost /\ next.doomed = q.doomed
        /\ next.clean = q.clean
      BY <1>1 DEF Active
  <2>4. /\ last.kind = q.kind /\ last.s = q.s /\ last.stage = q.stage
        /\ last.task = Flushed(q)
        /\ last.got = q.got /\ last.write = q.write /\ last.flush = q.flush \ {u}
        /\ last.held = q.held \cup {u} /\ last.lost = q.lost /\ last.doomed = q.doomed
        /\ last.clean = q.clean
      BY <2>1, <2>3 DEF Active
  <2>5. Set(r, IF next.flush = {} THEN last ELSE next)
      BY <1>3 DEF Statement
  <2> HIDE DEF next, last
  <2>6. \A v \in Url : /\ q.task[v] # "flush" => Flushed(q)[v] = q.task[v]
                       /\ q.task[v] = "flush" =>
                              Flushed(q)[v] = IF v \in q.got THEN "ok" ELSE "failed"
      BY DEF Flushed
  <2>7. Fetches(next) /\ (Solo(q) => Solo(next))
    <3>1. Fetches(next) BY <1>2, <2>3 DEF Fetches
    <3>2. Solo(q) => Solo(next) BY <1>2, <2>3 DEF Solo
    <3> QED BY <3>1, <3>2
  <2>8. CASE next.flush = {}
    <3>1. Fetches(last)
      <4>1. \A v \in Url : q.task[v] = "flush" /\ ~q.lost =>
                v \in last.held /\ (v \in q.got => q.write[v] \in Stored)
          BY <2>3, <2>4, <2>8 DEF Fetches, Running
      <4>2. \A v \in Url : q.task[v] \in {"flush", "ok", "failed"} =>
                Flushed(q)[v] \in {"flush", "ok", "failed"}
          BY <2>6
      <4>3. q.stage = "purge" => Flushed(q) = q.task
          BY <1>1 DEF Whole, Done, Flushed, Active
      <4> DEFINE t == Flushed(q)
      <4>4. \A v \in Url : t[v] \in {"none", "fetch", "lost", "clashed", "write"} => t[v] = q.task[v]
          BY <2>6
      <4>5. ~q.lost => \A v \in Url :
                /\ t[v] # "lost" /\ t[v] # "flush"
                /\ t[v] \in {"none", "fetch", "failed"} => v \notin q.got
                /\ t[v] \in Running /\ v \in q.got => q.write[v] \in Stored
                /\ t[v] = "ok" => v \in q.got /\ v \in last.held
          BY <2>3, <2>4, <2>6, <4>1, <4>4 DEF Fetches, Running
      <4>6. ~q.lost => \A v \in Url : t[v] = "clashed" =>
                \E w \in Url \ {v} : t[w] \in {"flush", "ok", "failed"}
          BY <4>2, <4>4 DEF Fetches
      <4>7. ~q.lost => \A v \in q.clean : t[v] # "ok"
        <5>1. q.stage \in {"fetch", "purge"} /\ q.clean \subseteq Url
            BY <1>1 DEF Active
        <5> QED BY <4>3, <5>1 DEF Fetches
      <4>8. q.kind = "remove" => \A v \in Url : t[v] = "none"
          BY <2>6 DEF Fetches
      <4>9. ~q.lost /\ q.stage = "purge" /\ q.kind = "refresh" =>
                q.doomed = {v \in Url : t[v] \in {"failed", "clashed"}}
          BY <4>3 DEF Fetches
      <4> HIDE DEF t
      <4>10. last.task = t BY <2>4 DEF t
      <4> QED BY <2>3, <2>4, <2>8, <4>5, <4>6, <4>7, <4>8, <4>9, <4>10 DEF Fetches
    <3>2. ASSUME Solo(q) PROVE Solo(last)
      <4>1. \A v \in Url : Flushed(q)[v] = "none" <=> q.task[v] = "none"
          BY <2>6
      <4>2. q.stage = "purge" => Flushed(q) = q.task
          BY <1>1 DEF Whole, Done, Flushed, Active
      <4> QED BY <1>2, <2>4, <3>2, <4>1, <4>2 DEF Solo
    <3> QED BY <1>2, <2>2, <2>5, <2>8, <3>1, <3>2 DEF Goes
  <2> QED BY <1>2, <2>1, <2>5, <2>7, <2>8 DEF Goes
<1>4. CASE ~(u \in q.held \/ Applies(q.write[u], u))
  <2>1. Set(r, Rolled(q))
      BY <1>4 DEF Statement
  <2> QED BY <1>2, <2>1, RolledGoes
<1> QED BY <1>3, <1>4

LEMMA LookGoes ==
    ASSUME TypeOK, Locks, NEW r \in Request, req[r] # None, Fetches(req[r]),
           NEW u \in Url, Look(r, u)
    PROVE  Goes(r)
<1> DEFINE q == req[r]
           next(got) == [q EXCEPT
               !.task[u] = IF ~q.lost THEN "write" ELSE IF got THEN "lost" ELSE "failed",
               !.write[u] = IF q.lost THEN "nothing" ELSE WriteFor(row[u] # "none", got),
               !.got = IF got THEN @ \cup {u} ELSE @]
<1>1. q \in Active /\ Whole(q)
    BY BusyIsActive DEF Locks
<1>2. PICK got \in BOOLEAN : Set(r, next(got))
    BY DEF Look
<1>3. q.task[u] = "fetch" /\ UNCHANGED <<uses, row, quiet, left>>
    BY DEF Look
<1> DEFINE new == next(got)
           wrote == WriteFor(row[u] # "none", got)
<1>4. /\ wrote \in Write \ {"nothing", "delete"}
      /\ got <=> wrote \in Stored
      /\ wrote \in Inserts <=> row[u] = "none"
    BY DEF WriteFor, Write, Stored, Inserts
<1> HIDE DEF wrote
<1>5. new \in Active
    BY <1>1, <1>4 DEF Active, Task, Write, wrote
<1>6. /\ new.kind = q.kind /\ new.s = q.s /\ new.stage = q.stage /\ new.flush = q.flush
      /\ new.held = q.held /\ new.lost = q.lost /\ new.doomed = q.doomed
      /\ new.clean = q.clean
      /\ new.got = IF got THEN q.got \cup {u} ELSE q.got
      /\ ~q.lost => new.task[u] = "write" /\ new.write[u] = wrote
      /\ \A v \in Url \ {u} : new.task[v] = q.task[v] /\ new.write[v] = q.write[v]
    BY <1>1 DEF Active, wrote
<1>7. q.stage # "purge" /\ q.stage \in {"fetch", "purge"}
    BY <1>1, <1>3 DEF Whole, Done, Active
<1> HIDE DEF next
<1>8. Fetches(new)
  <2>1. q.kind # "remove"
      BY <1>3 DEF Fetches
  <2>2. ~q.lost => \A v \in Url :
            /\ new.task[v] # "lost"
            /\ new.task[v] \in {"none", "fetch", "failed"} => v \notin new.got
            /\ new.task[v] \in Running /\ v \in new.got => new.write[v] \in Stored
            /\ new.task[v] = "flush" => v \in new.flush \cup new.held
            /\ new.task[v] = "ok" => v \in new.got /\ v \in new.held
      BY <1>3, <1>4, <1>6 DEF Fetches, Running
  <2>3. \A v \in Url : q.task[v] \in {"flush", "ok", "failed"} => new.task[v] = q.task[v]
      BY <1>3, <1>6
  <2>4. ~q.lost => \A v \in Url : new.task[v] = "clashed" =>
            \E w \in Url \ {v} : new.task[w] \in {"flush", "ok", "failed"}
      BY <1>6, <2>3 DEF Fetches
  <2>5. ~q.lost /\ q.flush # {} => \E v \in Url : new.task[v] = "flush"
      BY <1>7, <2>3 DEF Fetches
  <2> QED BY <1>6, <1>7, <2>1, <2>2, <2>4, <2>5 DEF Fetches
<1>9. ASSUME Served, Solo(q) PROVE Solo(new)
  <2> SUFFICES ASSUME ~q.lost PROVE Solo(new)
      BY <1>6 DEF Solo
  <2>1. Used(u) # {} => row[u] # "none"
      BY <1>9 DEF Served
  <2>2. q.kind \in {"resolve", "refresh", "add"}
      BY <1>1, <1>3 DEF Fetches, Active, Kind
  <2>3. CASE q.kind = "add"
    <3>1. u \in q.doomed /\ Used(u) = {} /\ wrote # "delete"
        BY <1>3, <1>4, <1>9, <2>3 DEF Solo
    <3> QED BY <1>3, <1>6, <1>7, <1>9, <2>3, <3>1 DEF Solo
  <2>4. CASE q.kind \in {"resolve", "refresh"}
    <3>1. Used(u) # {} /\ wrote \notin Inserts /\ wrote # "delete"
        BY <1>3, <1>4, <1>9, <2>1, <2>4 DEF Solo
    <3> QED BY <1>3, <1>6, <1>7, <1>9, <2>4, <3>1 DEF Solo
  <2> QED BY <2>2, <2>3, <2>4
<1> QED BY <1>2, <1>3, <1>5, <1>8, <1>9 DEF Goes

LEMMA FlushGoes ==
    ASSUME TypeOK, Locks, NEW r \in Request, req[r] # None, Fetches(req[r]),
           NEW u \in Url, Flush(r, u)
    PROVE  Goes(r)
<1> DEFINE q == req[r]
<1>1. q \in Active /\ Whole(q)
    BY BusyIsActive DEF Locks
<1>2. q.task[u] = "write" /\ UNCHANGED <<uses, row, quiet, left>>
    BY DEF Flush
<1>3. q.stage = "fetch" /\ q.kind # "remove"
    BY <1>1, <1>2 DEF Whole, Done, Active, Fetches
\* Whatever becomes of the task, its write and those of the others stay.
<1>4. ASSUME NEW t \in Task \ {"none", "fetch", "write", "ok"}, NEW new \in Active,
             Set(r, new), new.kind = q.kind, new.s = q.s, new.stage = q.stage,
             new.got = q.got, new.write = q.write, new.held = q.held,
             new.lost = q.lost, new.doomed = q.doomed, new.clean = q.clean,
             new.task[u] = t, \A v \in Url \ {u} : new.task[v] = q.task[v],
             ~q.lost => /\ t \in {"flush", "failed", "clashed"}
                        /\ t = "failed" => u \notin q.got
                        /\ IF t = "flush" THEN q.flush = {} /\ u \in new.flush
                                          ELSE new.flush = q.flush /\ q.flush # {}
      PROVE  Goes(r)
  <2>1. Fetches(new)
    <3> SUFFICES ASSUME ~q.lost PROVE Fetches(new)
        BY <1>3, <1>4 DEF Fetches
    <3>1. q.flush # {} => \E v \in Url \ {u} : q.task[v] = "flush"
        BY <1>2, <1>3 DEF Fetches
    <3>2. new.flush # {} => \E v \in Url : new.task[v] = "flush"
        BY <1>4, <3>1
    <3>3. \A v \in Url : q.task[v] \in {"flush", "ok", "failed"} => new.task[v] = q.task[v]
        BY <1>2, <1>4
    <3>4. \A v \in Url : new.task[v] = "clashed" =>
              \E w \in Url \ {v} : new.task[w] \in {"flush", "ok", "failed"}
      <4>1. CASE t = "clashed"
          BY <1>4, <3>1, <3>3, <4>1 DEF Fetches
      <4>2. CASE t # "clashed"
          BY <1>4, <3>3, <4>2 DEF Fetches
      <4> QED BY <4>1, <4>2
    <3>5. \A v \in Url :
              /\ new.task[v] # "lost"
              /\ new.task[v] \in {"none", "fetch", "failed"} => v \notin new.got
              /\ new.task[v] \in Running /\ v \in new.got => new.write[v] \in Stored
              /\ new.task[v] = "flush" => v \in new.flush \cup new.held
              /\ new.task[v] = "ok" => v \in new.got /\ v \in new.held
        BY <1>2, <1>4 DEF Fetches, Running
    <3> QED BY <1>3, <1>4, <3>2, <3>4, <3>5 DEF Fetches
  <2>2. Solo(q) => Solo(new)
      BY <1>2, <1>3, <1>4 DEF Solo
  <2> QED BY <1>2, <1>4, <2>1, <2>2 DEF Goes
<1>5. CASE q.lost
  <2> DEFINE t == IF u \in q.got THEN "lost" ELSE "failed"
             new == [q EXCEPT !.task[u] = t]
  <2>1. Set(r, new)
      BY <1>5 DEF Flush
  <2>2. t \in Task \ {"none", "fetch", "write", "ok"}
      BY DEF Task
  <2>3. new \in Active
      BY <1>1, <2>2 DEF Active
  <2>4. /\ new.kind = q.kind /\ new.s = q.s /\ new.stage = q.stage
        /\ new.got = q.got /\ new.write = q.write /\ new.held = q.held
        /\ new.lost = q.lost /\ new.doomed = q.doomed /\ new.clean = q.clean
        /\ new.task[u] = t /\ \A v \in Url \ {u} : new.task[v] = q.task[v]
      BY <1>1 DEF Active
  <2> HIDE DEF t, new
  <2> QED BY <1>4, <1>5, <2>1, <2>2, <2>3, <2>4
<1>6. CASE ~q.lost /\ q.flush # {}
  <2> DEFINE t == IF u \in q.got THEN "clashed" ELSE "failed"
             dirty == IF q.write[u] \in Inserts THEN q.dirty \cup {u} ELSE q.dirty
             new == [q EXCEPT !.task[u] = t, !.dirty = dirty]
  <2>1. Set(r, new)
      BY <1>1, <1>6 DEF Flush, Active
  <2>2. t \in Task \ {"none", "fetch", "write", "ok"} /\ dirty \in SUBSET Url
      BY <1>1 DEF Task, Active
  <2>3. t \in {"flush", "failed", "clashed"} /\ (t = "failed" => u \notin q.got) /\ t # "flush"
      OBVIOUS
  <2> HIDE DEF t, dirty
  <2>4. new \in Active
      BY <1>1, <2>2 DEF Active
  <2>5. /\ new.kind = q.kind /\ new.s = q.s /\ new.stage = q.stage
        /\ new.got = q.got /\ new.write = q.write /\ new.held = q.held
        /\ new.lost = q.lost /\ new.doomed = q.doomed /\ new.clean = q.clean
        /\ new.task[u] = t /\ \A v \in Url \ {u} : new.task[v] = q.task[v]
        /\ new.flush = q.flush
      BY <1>1 DEF Active
  <2> HIDE DEF new
  <2> QED BY <1>4, <1>6, <2>1, <2>2, <2>3, <2>4, <2>5
<1>7. CASE ~q.lost /\ q.flush = {}
  <2> DEFINE new == [q EXCEPT !.task[u] = "flush", !.flush = q.dirty \cup {u}, !.dirty = {}]
  <2>1. Set(r, new)
      BY <1>1, <1>7 DEF Flush, Active
  <2>2. "flush" \in Task \ {"none", "fetch", "write", "ok"}
      BY DEF Task
  <2>3. new \in Active
      BY <1>1, <2>2 DEF Active
  <2>4. /\ new.kind = q.kind /\ new.s = q.s /\ new.stage = q.stage
        /\ new.got = q.got /\ new.write = q.write /\ new.held = q.held
        /\ new.lost = q.lost /\ new.doomed = q.doomed /\ new.clean = q.clean
        /\ new.task[u] = "flush" /\ \A v \in Url \ {u} : new.task[v] = q.task[v]
        /\ u \in new.flush
      BY <1>1 DEF Active
  <2> HIDE DEF new
  <2> QED BY <1>4, <1>7, <2>1, <2>2, <2>3, <2>4
<1> QED BY <1>5, <1>6, <1>7

LEMMA SweepGoes ==
    ASSUME TypeOK, NEW r \in Request, req[r] # None, Fetches(req[r]), Sweep(r)
    PROVE  Goes(r)
<1> DEFINE q == req[r]
           gone == Refused(q)
           doomed == IF q.kind = "add" THEN q.doomed ELSE gone
           clean == Unique(gone)
           new == [q EXCEPT !.stage = "purge", !.doomed = doomed, !.clean = clean]
<1>1. q \in Active
    BY BusyIsActive
<1>2. /\ Set(r, new) /\ UNCHANGED <<uses, row, quiet, left>>
      /\ q.stage = "fetch" /\ ~q.lost /\ q.kind # "resolve"
      /\ \A u \in Url : q.task[u] \in Done
      /\ q.kind = "add" => \A u \in Url : q.task[u] \in {"none", "ok"}
    BY <1>1 DEF Sweep, Fetched, Spoilt, Active
<1>3. /\ q.kind = "refresh" => gone = {u \in Url : q.task[u] \in {"failed", "clashed"}}
      /\ q.kind = "remove" => gone = q.doomed
      /\ q.kind = "add" => gone = {}
      /\ gone \in SUBSET Url
    BY <1>1, <1>2 DEF Refused, Fetches, Active
<1>4. doomed \in SUBSET Url /\ clean \in SUBSET Url
    BY <1>1, <1>3 DEF Unique, Active
<1>5. clean = {u \in gone : \E s \in Subscription : Used(u) = {s}}
    BY DEF Unique
<1> HIDE DEF gone, clean
<1>6. new \in Active
    BY <1>1, <1>4 DEF Active
<1>7. /\ new.kind = q.kind /\ new.s = q.s /\ new.stage = "purge" /\ new.task = q.task
      /\ new.got = q.got /\ new.write = q.write /\ new.flush = q.flush
      /\ new.held = q.held /\ new.lost = q.lost /\ new.clean = clean
      /\ new.doomed = IF q.kind = "add" THEN q.doomed ELSE gone
    BY <1>1 DEF Active
<1> HIDE DEF new
<1>8. q.kind \in {"refresh", "remove", "add"}
    BY <1>1, <1>2 DEF Active, Kind
<1>9. Fetches(new)
  <2>1. \A u \in clean : q.task[u] # "ok"
      BY <1>1, <1>3, <1>5, <1>8 DEF Fetches, Active
  <2>2. q.kind = "refresh" => new.doomed = {u \in Url : q.task[u] \in {"failed", "clashed"}}
      BY <1>3, <1>7
  <2> QED BY <1>2, <1>7, <2>1, <2>2 DEF Fetches
<1>10. ASSUME Solo(q) PROVE Solo(new)
  <2>1. \A u \in Url : q.write[u] # "delete"
      BY <1>2, <1>10 DEF Solo
  <2>0. q.kind \in {"refresh", "remove"} => \A u \in gone : q.s \in Used(u)
    <3>1. q.kind = "remove" => \A u \in gone : q.s \in Used(u)
        BY <1>2, <1>3, <1>10 DEF Solo
    <3>2. q.kind = "refresh" => \A u \in gone : q.s \in Used(u)
        BY <1>2, <1>3, <1>10 DEF Solo
    <3> QED BY <3>1, <3>2
  <2>2. clean \subseteq new.doomed /\ \A u \in clean : Used(u) = {q.s}
      BY <1>3, <1>5, <1>7, <1>8, <2>0
  <2>3. q.kind = "add" => clean = {}
      BY <1>3, <1>5
  <2>4. q.kind \in {"refresh", "remove"} => \A u \in new.doomed : Used(u) = {q.s} => u \in clean
      BY <1>5, <1>7 DEF Used
  <2>5. q.kind = "add" => new.doomed = q.doomed
      BY <1>7
  <2> QED BY <1>2, <1>7, <1>8, <1>10, <2>0, <2>1, <2>2, <2>3, <2>4, <2>5 DEF Solo, Inserts
<1> QED BY <1>2, <1>6, <1>9, <1>10 DEF Goes

LEMMA FlushRestGoes ==
    ASSUME TypeOK, NEW r \in Request, req[r] # None, Fetches(req[r]), FlushRest(r)
    PROVE  Goes(r)
<1> DEFINE q == req[r]
           new == [q EXCEPT !.flush = q.dirty, !.dirty = {}]
<1>1. q \in Active
    BY BusyIsActive
<1>2. /\ Set(r, new) /\ UNCHANGED <<uses, row, quiet, left>>
      /\ q.stage = "purge" /\ q.flush = {} /\ q.clean = {}
    BY DEF FlushRest
<1>3. new \in Active
    BY <1>1 DEF Active
<1>4. /\ new.kind = q.kind /\ new.s = q.s /\ new.stage = q.stage /\ new.task = q.task
      /\ new.got = q.got /\ new.write = q.write
      /\ new.held = q.held /\ new.lost = q.lost /\ new.clean = q.clean
      /\ new.doomed = q.doomed
    BY <1>1 DEF Active
<1> HIDE DEF new
<1>5. Fetches(new)
    BY <1>2, <1>4 DEF Fetches
<1>6. Solo(q) => Solo(new)
    BY <1>2, <1>4 DEF Solo
<1> QED BY <1>2, <1>3, <1>5, <1>6 DEF Goes

\* A row that is not seen needs no delete; otherwise its delete is on the way.
LEMMA PurgeGoes ==
    ASSUME TypeOK, Locks, NEW r \in Request, req[r] # None, Fetches(req[r]),
           NEW u \in Url, Purge(r, u)
    PROVE  Goes(r)
<1> DEFINE q == req[r]
<1>1. q \in Active /\ Whole(q)
    BY BusyIsActive DEF Locks
<1>2. /\ UNCHANGED <<uses, row, quiet, left>>
      /\ q.stage = "purge" /\ q.flush = {} /\ u \in q.clean
      /\ \A v \in Url : q.task[v] \in Done
    BY <1>1 DEF Purge, Whole
<1>3. CASE Sees(q, u) = "none"
  <2> DEFINE new == [q EXCEPT !.clean = @ \ {u}]
  <2>1. Set(r, new)
      BY <1>3 DEF Purge
  <2>2. new \in Active
      BY <1>1 DEF Active
  <2>3. /\ new.kind = q.kind /\ new.s = q.s /\ new.stage = q.stage /\ new.task = q.task
        /\ new.got = q.got /\ new.write = q.write /\ new.flush = q.flush
        /\ new.held = q.held /\ new.lost = q.lost /\ new.clean = q.clean \ {u}
        /\ new.doomed = q.doomed
      BY <1>1 DEF Active
  <2> HIDE DEF new
  <2>4. Fetches(new)
      BY <1>2, <2>3 DEF Fetches
  <2>5. Served /\ Used(u) # {} => row[u] = "full"
      BY DEF Served
  <2>6. row[u] = "full" => u \in q.held /\ q.write[u] = "delete"
      BY <1>3 DEF Sees
  <2>7. Served /\ Solo(q) => Solo(new)
    <3> SUFFICES ASSUME Served, Solo(q), ~q.lost PROVE Solo(new)
        BY <2>3 DEF Solo
    <3>1. q.kind \in {"refresh", "remove"} =>
              \A v \in q.doomed : Used(v) = {q.s} =>
                  v \in new.clean \/ (q.write[v] = "delete" /\ v \in q.flush \cup q.held)
        BY <1>2, <2>3, <2>5, <2>6 DEF Solo
    <3> QED BY <1>2, <2>3, <3>1 DEF Solo
  <2> QED BY <1>2, <2>1, <2>2, <2>4, <2>7 DEF Goes
<1>4. CASE Sees(q, u) # "none"
  <2> DEFINE new == [q EXCEPT !.clean = @ \ {u}, !.write[u] = "delete",
                              !.flush = q.dirty \cup {u}, !.dirty = {}]
  <2>1. Set(r, new)
      BY <1>4 DEF Purge
  <2>2. new \in Active
      BY <1>1 DEF Active, Write
  <2>3. /\ new.kind = q.kind /\ new.s = q.s /\ new.stage = q.stage /\ new.task = q.task
        /\ new.got = q.got /\ new.write[u] = "delete" /\ u \in new.flush
        /\ \A v \in Url \ {u} : new.write[v] = q.write[v]
        /\ new.held = q.held /\ new.lost = q.lost /\ new.clean = q.clean \ {u}
        /\ new.doomed = q.doomed
      BY <1>1 DEF Active
  <2> HIDE DEF new
  <2>4. Fetches(new)
    <3> SUFFICES ASSUME ~q.lost PROVE Fetches(new)
        BY <1>2, <2>3 DEF Fetches
    <3>1. q.task[u] \notin Running
        BY <1>2 DEF Fetches, Running, Done
    <3>2. \A v \in Url : /\ new.task[v] # "flush"
                         /\ new.task[v] \in Running /\ v \in new.got => new.write[v] \in Stored
        BY <1>2, <2>3, <3>1 DEF Fetches, Done
    <3> QED BY <1>2, <2>3, <3>2 DEF Fetches
  <2>5. Solo(q) => Solo(new)
    <3> SUFFICES ASSUME Solo(q), ~q.lost PROVE Solo(new)
        BY <2>3 DEF Solo
    <3>1. u \in q.doomed /\ Used(u) = {q.s} /\ q.kind \in {"refresh", "remove"}
        BY <1>2 DEF Solo
    <3>2. \A v \in q.doomed : Used(v) = {q.s} =>
              v \in new.clean \/ (new.write[v] = "delete" /\ v \in new.flush \cup new.held)
      <4> SUFFICES ASSUME NEW v \in q.doomed, v # u, Used(v) = {q.s}
                   PROVE  v \in new.clean \/ (new.write[v] = "delete" /\ v \in new.flush \cup new.held)
          BY <2>3
      <4>1. v \in Url BY <1>1 DEF Active
      <4>2. v \in q.clean \/ (q.write[v] = "delete" /\ v \in q.flush \cup q.held)
          BY <1>2, <3>1 DEF Solo
      <4> QED BY <1>2, <2>3, <4>1, <4>2
    <3>3. "delete" \notin Inserts BY DEF Inserts
    <3> QED BY <1>2, <2>3, <3>1, <3>2, <3>3 DEF Solo
  <2> QED BY <1>2, <2>1, <2>2, <2>4, <2>5 DEF Goes
<1> QED BY <1>3, <1>4

AllFetches == \A r \in Request : req[r] # None => Fetches(req[r])
Alone ==
    quiet => /\ Served
             /\ \A r, x \in Request : req[r] # None /\ req[x] # None => r = x
             /\ \A r \in Request : req[r] # None => Solo(req[r])

\* A request that commits alone leaves the rows as the sources need them.
LEMMA CommitServes ==
    ASSUME TypeOK, Locks, NEW r \in Request, req[r] # None, Fetches(req[r]), Solo(req[r]),
           Served, Commit(r)
    PROVE  Served'
<1> DEFINE q == req[r]
<1>1. q \in Active /\ Whole(q)
    BY BusyIsActive DEF Locks
<1>2. /\ q.stage = "purge" /\ q.clean = {} /\ q.flush = {} /\ ~q.lost
      /\ uses' = [uses EXCEPT ![q.s] = IF q.kind = "add" THEN @ \cup q.doomed ELSE @ \ q.doomed]
      /\ row' = [u \in Url |-> Sees(q, u)]
      /\ left' = {u \in left : Used(u)' = {}}
      /\ q.s # None
    BY DEF Commit, Spoilt, Orphan
<1>3. q.kind \in {"refresh", "remove", "add"} /\ q.s \in Subscription
    BY <1>1, <1>2 DEF Fetches, Active, Kind
<1> SUFFICES ASSUME NEW u \in Url
             PROVE  Sees(q, u) = IF Used(u)' = {} /\ u \notin left THEN "none" ELSE "full"
  <2> SUFFICES \A u \in Url :
                   /\ row'[u] = IF Used(u)' = {} /\ u \notin left' THEN "none" ELSE "full"
                   /\ u \in left' => Used(u)' = {}
      BY DEF Served
  <2> QED BY <1>2
<1>4. /\ u \notin q.doomed => Used(u)' = Used(u)
      /\ u \in q.doomed /\ q.kind = "add" => Used(u)' # {}
      /\ u \in q.doomed /\ q.kind # "add" => Used(u)' = Used(u) \ {q.s}
    BY <1>2, <1>3 DEF Used, TypeOK
<1>5. /\ row[u] = IF Used(u) = {} /\ u \notin left THEN "none" ELSE "full"
      /\ u \in left => Used(u) = {}
    BY DEF Served
<1>6. /\ q.write[u] \in Inserts => q.kind = "add" /\ u \in q.doomed /\ Used(u) = {}
      /\ q.write[u] \in {"content", "error"} =>
             Used(u) # {} \/ (q.kind = "add" /\ u \in q.doomed)
      /\ q.write[u] = "delete" => /\ q.kind # "add" /\ u \in q.doomed
                                  /\ Used(u) = {q.s}
    BY <1>2 DEF Solo
<1>7. q.kind # "add" /\ u \in q.doomed /\ Used(u) = {q.s} =>
          u \in q.held /\ q.write[u] = "delete"
    BY <1>2, <1>3 DEF Solo
<1>8. q.kind = "add" /\ u \in q.doomed /\ Used(u) = {} =>
          u \in q.held /\ q.write[u] \in Stored
  <2> SUFFICES ASSUME q.kind = "add", u \in q.doomed, Used(u) = {}
               PROVE  u \in q.held /\ q.write[u] \in Stored
      OBVIOUS
  <2>1. q.task[u] = "ok"
      BY <1>2 DEF Solo
  <2>2. u \in q.held /\ q.write[u] \in Stored
      BY <1>2, <2>1 DEF Fetches, Running
  <2> QED BY <2>2
<1>9. q.write[u] \in Write
    BY <1>1 DEF Active
<1>10. q.write[u] = "insertBlank" => q.kind = "add" /\ u \in q.doomed /\ Used(u) = {}
    BY <1>6 DEF Inserts
<1>11. q.write[u] = "insertFull" => q.kind = "add" /\ u \in q.doomed /\ Used(u) = {}
    BY <1>6 DEF Inserts
<1>12. CASE u \notin q.held
  <2>1. Sees(q, u) = row[u]
      BY <1>12 DEF Sees
  <2> QED BY <1>4, <1>5, <1>7, <1>8, <1>12, <2>1
<1>13. CASE u \in q.held
  <2>1. CASE q.write[u] = "insertFull"
    <3>1. Sees(q, u) = "full" BY <1>13, <2>1 DEF Sees
    <3> QED BY <1>4, <1>11, <2>1, <3>1
  <2>2. CASE q.write[u] = "content"
    <3>1. Sees(q, u) = "full" BY <1>13, <2>2 DEF Sees
    <3> QED BY <1>4, <1>6, <1>7, <2>2, <3>1
  <2>3. CASE q.write[u] = "insertBlank"
      BY <1>8, <1>10, <2>3 DEF Stored
  <2>4. CASE q.write[u] = "delete"
    <3>1. Sees(q, u) = "none" BY <1>13, <2>4 DEF Sees
    <3> QED BY <1>4, <1>5, <1>6, <2>4, <3>1
  <2>5. CASE q.write[u] \in {"nothing", "error"}
    <3>1. Sees(q, u) = row[u] BY <1>13, <2>5 DEF Sees
    <3> QED BY <1>4, <1>5, <1>7, <1>8, <2>5, <3>1 DEF Stored
  <2> QED BY <1>9, <2>1, <2>2, <2>3, <2>4, <2>5 DEF Write
<1> QED BY <1>12, <1>13

\* A step of a request lets it go on, closes it without a trace, or commits.
LEMMA StepGoes ==
    ASSUME TypeOK, Locks, AllFetches, NEW r \in Request, Step(r)
    PROVE  /\ req[r] # None
           /\ \/ Goes(r)
              \/ Close(r) /\ UNCHANGED <<uses, row, quiet, left>>
              \/ Commit(r)
<1>1. req[r] # None /\ Fetches(req[r])
    BY DEF Step, AllFetches
<1>2. CASE \E u \in Url : Look(r, u) \/ Flush(r, u) \/ Statement(r, u) \/ Purge(r, u)
    BY <1>1, <1>2, LookGoes, FlushGoes, StatementGoes, PurgeGoes
<1>3. CASE Victim(r)
    BY <1>1, <1>3, RolledGoes DEF Victim
<1>4. CASE Sweep(r) \/ FlushRest(r)
    BY <1>1, <1>4, SweepGoes, FlushRestGoes
<1>5. CASE GiveUp(r)
    BY <1>1, <1>5 DEF GiveUp
<1> QED BY <1>1, <1>2, <1>3, <1>4, <1>5 DEF Step

\* A bulk deletion that is alone leaves the rows that it takes the last use of.
LEMMA WipeGoes ==
    ASSUME TypeOK, AllFetches, Alone, NEW r \in Request, Wipe(r)
    PROVE  AllFetches' /\ Alone'
<1>1. \A x \in Request : req'[x] # None <=> req[x] # None
    BY Wiped
<1>2. ASSUME NEW x \in Request, req[x] # None PROVE Fetches(req'[x])
  <2>1. PICK s \in Subscription \cup {None} : req'[x] = [req[x] EXCEPT !.s = s]
      BY <1>2, Wiped
  <2>2. req[x] \in Active /\ Fetches(req[x])
      BY <1>2, BusyIsActive DEF AllFetches
  <2> DEFINE q == req[x]
             new == req'[x]
  <2>3. /\ new.kind = q.kind /\ new.stage = q.stage /\ new.task = q.task
        /\ new.got = q.got /\ new.write = q.write /\ new.flush = q.flush
        /\ new.held = q.held /\ new.lost = q.lost /\ new.clean = q.clean
        /\ new.doomed = q.doomed
      BY <2>1, <2>2 DEF Active
  <2> HIDE DEF new
  <2>4. Fetches(new)
      BY <2>2, <2>3 DEF Fetches
  <2> QED BY <2>4 DEF new
<1>3. AllFetches'
    BY <1>1, <1>2 DEF AllFetches, Fetches
<1>4. quiet' => quiet /\ \A x \in Request : req'[x] = None
    BY <1>1, Wiped DEF Busy
<1>5. quiet' => Served'
  <2> SUFFICES ASSUME quiet', NEW u \in Url
               PROVE  /\ row'[u] = IF Used(u)' = {} /\ u \notin left' THEN "none" ELSE "full"
                      /\ u \in left' => Used(u)' = {}
      BY DEF Served
  <2>1. PICK gone \in Bulk :
            /\ uses' = [s \in Subscription |-> IF s \in gone THEN {} ELSE uses[s]]
            /\ Overlap({v \in Url : Used(v) # {} /\ Used(v) \subseteq gone})
            /\ UNCHANGED row
      BY DEF Wipe
  <2>2. Used(u)' = Used(u) \ gone
      BY <2>1 DEF Used
  <2>3. left' = left \cup {v \in Url : Used(v) # {} /\ Used(v) \subseteq gone}
      BY <2>1 DEF Overlap
  <2>4. /\ row[u] = IF Used(u) = {} /\ u \notin left THEN "none" ELSE "full"
        /\ u \in left => Used(u) = {}
      BY <1>4 DEF Alone, Served
  <2>5. row'[u] = row[u]
      BY <2>1
  <2> QED BY <2>2, <2>3, <2>4, <2>5
<1> QED BY <1>3, <1>4, <1>5 DEF Alone

LEMMA AloneInductive ==
    ASSUME TypeOK, Locks, AllFetches, Alone, [Next]_vars
    PROVE  AllFetches' /\ Alone'
<1>1. CASE UNCHANGED vars
    BY <1>1 DEF vars, AllFetches, Fetches, Alone, Served, Solo, Used
<1>2. ASSUME NEW r \in Request, Arrive(r) PROVE AllFetches' /\ Alone'
  <2>1. PICK new \in Active : Set(r, new) /\ Fetches(new) /\ Solo(new)
      BY <1>2, ArriveGoes
  <2>2. UNCHANGED <<uses, row>> /\ quiet' = (quiet /\ Busy = {}) /\ (quiet' => left' = left)
      BY <1>2, ArriveGoes DEF Overlap
  <2>3. req'[r] = new /\ \A x \in Request \ {r} : req'[x] = req[x]
      BY <2>1 DEF Set, TypeOK
  <2>4. AllFetches'
      BY <2>1, <2>3 DEF AllFetches, Fetches
  <2>5. \A x \in Request \ {r} : quiet' => req'[x] = None
      BY <2>2, <2>3 DEF Busy
  <2>6. quiet' => Served'
      BY <2>2 DEF Alone, Served, Used
  <2>7. Solo(req[r])'
      BY <2>1, <2>2, <2>3 DEF Solo, Used
  <2> QED BY <2>4, <2>5, <2>6, <2>7 DEF Alone
<1>3. ASSUME NEW r \in Request, Close(r), UNCHANGED <<uses, row, quiet, left>>
      PROVE  AllFetches' /\ Alone'
  <2>1. req'[r] = None /\ \A x \in Request \ {r} : req'[x] = req[x]
      BY <1>3 DEF Close, Set, TypeOK
  <2>2. AllFetches'
      BY <2>1 DEF AllFetches, Fetches
  <2>3. quiet' => Served'
      BY <1>3 DEF Alone, Served, Used
  <2>4. \A x \in Request : quiet /\ req'[x] # None => Solo(req[x])'
      BY <1>3, <2>1 DEF Alone, Solo, Used
  <2> QED BY <1>3, <2>1, <2>2, <2>3, <2>4 DEF Alone
<1>4. ASSUME NEW r \in Request, req[r] # None, Goes(r) PROVE AllFetches' /\ Alone'
  <2>1. PICK new \in Active : /\ Set(r, new) /\ Fetches(new)
                              /\ Served /\ Solo(req[r]) => Solo(new)
      BY <1>4 DEF Goes
  <2>2. UNCHANGED <<uses, row, quiet, left>>
      BY <1>4 DEF Goes
  <2>3. req'[r] = new /\ \A x \in Request \ {r} : req'[x] = req[x]
      BY <2>1 DEF Set, TypeOK
  <2>4. AllFetches'
      BY <2>1, <2>3 DEF AllFetches, Fetches
  <2>5. quiet' => Served'
      BY <2>2 DEF Alone, Served, Used
  <2>6. \A x \in Request \ {r} : quiet => req'[x] = None
      BY <1>4, <2>3 DEF Alone
  <2>7. quiet => Solo(new)
      BY <1>4, <2>1 DEF Alone
  <2>8. quiet => Solo(req[r])'
      BY <2>2, <2>3, <2>7 DEF Solo, Used
  <2> QED BY <2>2, <2>4, <2>5, <2>6, <2>8 DEF Alone
<1>5. ASSUME NEW r \in Request, req[r] # None, Commit(r) PROVE AllFetches' /\ Alone'
  <2>1. Close(r) /\ UNCHANGED quiet
      BY <1>5 DEF Commit
  <2>2. req'[r] = None /\ \A x \in Request \ {r} : req'[x] = req[x]
      BY <2>1 DEF Close, Set, TypeOK
  <2>3. AllFetches'
      BY <2>2 DEF AllFetches, Fetches
  <2>4. quiet => Served'
      BY <1>5, CommitServes DEF Alone, AllFetches
  <2>5. \A x \in Request : quiet => req'[x] = None
      BY <1>5, <2>2 DEF Alone
  <2> QED BY <2>1, <2>3, <2>4, <2>5 DEF Alone
<1>6. ASSUME NEW r \in Request, Step(r) PROVE AllFetches' /\ Alone'
    BY <1>3, <1>4, <1>5, <1>6, StepGoes
<1>7. ASSUME NEW r \in Request, Abort(r) PROVE AllFetches' /\ Alone'
    BY <1>3, <1>7 DEF Abort
<1>8. ASSUME NEW r \in Request, Wipe(r) PROVE AllFetches' /\ Alone'
    BY <1>8, WipeGoes
<1> QED BY <1>1, <1>2, <1>6, <1>7, <1>8 DEF Next

LEMMA AloneAlways == Spec => [](AllFetches /\ Alone)
<1>1. Init => AllFetches /\ Alone
  <2> SUFFICES ASSUME Init PROVE AllFetches /\ Alone
      OBVIOUS
  <2>1. \A r \in Request : req[r] = None
      BY DEF Init
  <2>2. Served
      BY DEF Init, Served, Used
  <2> QED BY <2>1, <2>2 DEF AllFetches, Alone
<1>2. TypeOK /\ Locks /\ AllFetches /\ Alone /\ [Next]_vars => (AllFetches /\ Alone)'
    BY AloneInductive
<1> QED BY <1>1, <1>2, LocksAlways, PTL DEF Spec

\* Requests that come one after the other leave stored content behind every source,
\* whatever fetches fail, flushes clash and requests are cut off, and no row without a
\* source but those that a bulk deletion left (refresh_subscription, remove_sources,
\* _add_external_source).
THEOREM CacheAlwaysServesUse == Spec => []CacheServesUse
<1>1. Alone => CacheServesUse
    BY DEF Alone, Served, CacheServesUse
<1> QED BY <1>1, AloneAlways, PTL

\* A refresh stores what it fetched and kept, and takes away a source that it fetched
\* only for a clash of flushes, whatever other requests write meanwhile.
THEOREM RefreshAlwaysSettles == Spec => RefreshSettles
<1> DEFINE Settles(r) ==
        LET q == req[r]
        IN  q # None /\ req'[r] = None /\ <<uses, row>>' # <<uses, row>> /\ q.kind = "refresh"
            => /\ \A u \in q.got \cap uses'[q.s] : row'[u] = "full"
               /\ \A u \in (uses[q.s] \ uses'[q.s]) \cap q.got :
                      \E v \in Url \ {u} : q.task[u] = "clashed" /\ q.task[v] \in {"ok", "failed"}
<1>1. ASSUME TypeOK, Locks, AllFetches, [Next]_vars, NEW r \in Request,
             req[r] # None, req'[r] = None, <<uses, row>>' # <<uses, row>>
      PROVE  Commit(r)
  <2>1. ASSUME NEW x \in Request, Commit(x) PROVE x = r
      BY <1>1, <2>1 DEF Commit, Close, Set, TypeOK
  <2>2. ASSUME NEW x \in Request, Arrive(x) PROVE FALSE
      BY <1>1, <2>2, ArriveGoes
  <2>3. ASSUME NEW x \in Request, Step(x) PROVE Commit(x)
      BY <1>1, <2>3, StepGoes DEF Goes
  <2>4. ASSUME NEW x \in Request, Abort(x) PROVE FALSE
      BY <1>1, <2>4 DEF Abort
  <2>5. ASSUME NEW x \in Request, Wipe(x) PROVE FALSE
      BY <1>1, <2>5, Wiped
  <2> QED BY <1>1, <2>1, <2>2, <2>3, <2>4, <2>5 DEF Next, vars
<1>2. ASSUME TypeOK, Locks, AllFetches, [Next]_vars, NEW r \in Request,
             req[r] # None, Commit(r), req[r].kind = "refresh"
      PROVE  /\ \A u \in req[r].got \cap uses'[req[r].s] : row'[u] = "full"
             /\ \A u \in (uses[req[r].s] \ uses'[req[r].s]) \cap req[r].got :
                    \E v \in Url \ {u} :
                        req[r].task[u] = "clashed" /\ req[r].task[v] \in {"ok", "failed"}
  <2> DEFINE q == req[r]
  <2>1. q \in Active /\ Whole(q) /\ Fetches(q)
      BY <1>2, BusyIsActive DEF Locks, AllFetches
  <2>2. /\ q.stage = "purge" /\ ~q.lost
        /\ uses' = [uses EXCEPT ![q.s] = @ \ q.doomed]
        /\ row' = [u \in Url |-> Sees(q, u)]
      BY <1>2 DEF Commit, Spoilt
  <2>3. uses'[q.s] = uses[q.s] \ q.doomed /\ uses[q.s] \subseteq Url
    <3>1. q.s \in Subscription
        BY <1>2, <2>1 DEF Commit, Orphan, Active
    <3> QED BY <1>2, <2>2, <3>1 DEF TypeOK
  <2>4. q.doomed = {u \in Url : q.task[u] \in {"failed", "clashed"}}
      BY <1>2, <2>1, <2>2 DEF Fetches
  <2>5. \A u \in Url : q.task[u] \in Done
      BY <2>1, <2>2 DEF Whole
  <2>6. ASSUME NEW u \in q.got, u \in uses'[q.s] PROVE row'[u] = "full"
    <3>1. u \in Url /\ u \notin q.doomed
        BY <2>3, <2>6
    <3>2. q.task[u] = "ok"
        BY <2>1, <2>2, <2>4, <2>5, <3>1 DEF Fetches, Done
    <3>3. u \in q.held /\ q.write[u] \in {"insertFull", "content"}
        BY <2>1, <2>2, <3>1, <3>2 DEF Fetches, Running, Stored
    <3>4. Sees(q, u) = "full"
        BY <3>3 DEF Sees
    <3> QED BY <2>2, <3>1, <3>4
  <2>7. ASSUME NEW u \in q.got, u \in uses[q.s] \ uses'[q.s]
        PROVE  \E v \in Url \ {u} : q.task[u] = "clashed" /\ q.task[v] \in {"ok", "failed"}
    <3>1. u \in Url /\ q.task[u] \in {"failed", "clashed"}
        BY <2>3, <2>4, <2>7
    <3>2. q.task[u] = "clashed"
        BY <2>1, <2>2, <2>7, <3>1 DEF Fetches
    <3>3. PICK v \in Url \ {u} : q.task[v] \in {"flush", "ok", "failed"}
        BY <2>1, <2>2, <3>1, <3>2 DEF Fetches
    <3> QED BY <2>5, <3>2, <3>3 DEF Done
  <2> QED BY <2>6, <2>7
<1>3. TypeOK /\ Locks /\ AllFetches /\ [Next]_vars => \A r \in Request : Settles(r)
    BY <1>1, <1>2
<1>4. TypeOK /\ Locks /\ AllFetches /\ [Next]_vars => [\A r \in Request : Settles(r)]_vars
    BY <1>3
<1> QED BY <1>4, LocksAlways, AloneAlways, PTL DEF Spec, RefreshSettles

=============================================================================
