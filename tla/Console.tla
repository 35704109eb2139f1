-------------------------------- MODULE Console --------------------------------
(***************************************************************************)
(* The query cache of the web client at work: how the cached result of one *)
(* query, any of them, follows the server while the user moves between     *)
(* pages and presses their buttons and while others change the same data.  *)
(* The server's side is the number of changes so far to the facts that the *)
(* query is computed from, and a result is that number when it was read.   *)
(*                                                                         *)
(* The cache is that of @tanstack/react-query, with the options of App.tsx *)
(* and as client.ts uses it.  A page is what it shows and offers of the    *)
(* query, and a mutation is what it does to the query; Screens has them.   *)
(***************************************************************************)
EXTENDS Naturals, FiniteSets

CONSTANTS
    Site,        \* the queries, each with its pages, see Screens
    MaxChanges,  \* bound on the changes of the facts
    MaxPending,  \* bound on the requests that are pending at once
    None,        \* nothing cached, or nothing fetched
    Asked        \* fetching, not yet read by the server

VARIABLES
    query,    \* the query that is considered
    page,     \* the page that is shown
    changed,  \* server: changes of the facts
    entry,    \* cache: the result, whether it is out of date, and the fetch under way
    ops,      \* mutations that are pending, with the change they made, if they did
              \* already, and what an optimistic one found in the cache
    promised  \* the last change that the user was told of and that has to be seen

vars == <<query, page, changed, entry, ops, promised>>

----------------------------------------------------------------------------

Entry == [data : 0 .. MaxChanges \cup {None}, stale : BOOLEAN,
          fetch : 0 .. MaxChanges \cup {None, Asked}]

Effects == [writes : BOOLEAN, overlooked : BOOLEAN, invalidates : BOOLEAN,
            sets : BOOLEAN, prefetches : BOOLEAN, optimistic : BOOLEAN]

\* A change that the user, once told of it, has to see.
Counts(effect) == effect.writes /\ ~effect.overlooked

\* What the pages of a query do to it: a mutation that changes what its own page shows
\* invalidates it, unless that is known to be overlooked; a query into which mutations
\* put results is marked, and they invalidate it, too, unless nothing else does; an
\* optimistic one always does.
QueryOK(q) ==
    LET offered == UNION {p.offers : p \in Site[q].pages}
    IN  /\ offered \subseteq Effects
        /\ \A p \in Site[q].pages :
              p.shown => \A effect \in p.offers : Counts(effect) => effect.invalidates
        /\ \A effect \in offered :
              /\ effect.sets \/ effect.optimistic => Site[q].put
              /\ effect.sets => \/ effect.invalidates
                                \/ \A e \in offered : Counts(e) => ~e.invalidates
              /\ effect.optimistic => effect.invalidates

TypeOK ==
    /\ query \in DOMAIN Site /\ QueryOK(query) /\ page \in Site[query].pages
    /\ changed \in 0 .. MaxChanges
    /\ entry \in Entry
    /\ \A op \in ops : /\ op.here => op.does \in page.offers
                       /\ op.at \in 0 .. changed \cup {None}
                       /\ op.previous \in 0 .. changed \cup {None}
    /\ promised \in 0 .. changed
    /\ entry.data = None => entry.stale

----------------------------------------------------------------------------
(* The query cache *)

\* A component mounts: a result that is missing or out of date is fetched, unless a fetch
\* is under way.
Mount(e) == IF e.stale /\ e.fetch = None THEN [e EXCEPT !.fetch = Asked] ELSE e

\* invalidateQueries: a query that is shown is fetched anew.  A first fetch goes on, a
\* later one is cancelled.
Invalidate(e) ==
    LET anew == page.shown /\ (e.data # None \/ e.fetch = None)
    IN  [e EXCEPT !.stale = TRUE, !.fetch = IF anew THEN Asked ELSE @]

\* setQueryData
Put(e, at) == [e EXCEPT !.data = at, !.stale = FALSE]

\* What a mutation does when it succeeded: prefetchQuery is like a component that mounts.
Settle(e, op) ==
    LET put == IF op.does.sets THEN Put(e, op.at) ELSE e
        after == IF op.does.invalidates THEN Invalidate(put) ELSE put
    IN  IF op.does.prefetches THEN Mount(after) ELSE after

Fresh == [data |-> None, stale |-> TRUE, fetch |-> None]

Init ==
    /\ query \in DOMAIN Site
    /\ page \in Site[query].pages
    /\ changed = 0
    /\ entry = IF page.shown THEN Mount(Fresh) ELSE Fresh
    /\ ops = {}
    /\ promised = 0

EntryStep == UNCHANGED <<query, page, changed, ops, promised>>

\* staleTime has passed.
GoesStale == ~entry.stale /\ entry' = [entry EXCEPT !.stale = TRUE] /\ EntryStep

\* A poll, a reconnect, or the user tries again.
Refetch ==
    /\ page.shown /\ entry.fetch = None
    /\ entry' = [entry EXCEPT !.fetch = Asked]
    /\ EntryStep

ServerReads ==
    entry.fetch = Asked /\ entry' = [entry EXCEPT !.fetch = changed] /\ EntryStep

FetchReturns ==
    /\ entry.fetch \notin {None, Asked}
    /\ entry' = [data |-> entry.fetch, stale |-> FALSE, fetch |-> None]
    /\ EntryStep

\* Also after the retry of App.tsx; what is cached stays.
FetchFails ==
    entry.fetch # None /\ entry' = [entry EXCEPT !.fetch = None] /\ EntryStep

----------------------------------------------------------------------------
(* The user, and others *)

\* A mutation goes on when its page is left.
Navigate(p) ==
    /\ page' = p
    /\ entry' = IF p.shown /\ ~page.shown THEN Mount(entry) ELSE entry
    /\ ops' = {[op EXCEPT !.here = FALSE] : op \in ops}
    /\ UNCHANGED <<query, changed, promised>>

\* onMutate of an optimistic mutation ends a fetch, so that it does not undo the change,
\* and puts the change into what is cached, which counts as current then.
Change(e) == [IF e.data = None THEN e ELSE Put(e, e.data) EXCEPT !.fetch = None]

Press(effect) ==
    /\ Cardinality(ops) < MaxPending
    /\ ops' = ops \cup {[does |-> effect, at |-> None, here |-> TRUE,
                         previous |-> IF effect.optimistic THEN entry.data ELSE None]}
    /\ entry' = IF effect.optimistic THEN Change(entry) ELSE entry
    /\ UNCHANGED <<query, page, changed, promised>>

ServerApplies(op) ==
    /\ op.at = None
    /\ changed' = IF op.does.writes THEN changed + 1 ELSE changed
    /\ changed' <= MaxChanges
    /\ ops' = (ops \ {op}) \cup {[op EXCEPT !.at = changed']}
    /\ UNCHANGED <<query, page, entry, promised>>

\* A fetch that the server has answered hides what it did since, if invalidating does not
\* renew it: a first one, and that of a query that is not shown.
MaySee == entry.fetch \in {None, Asked} \/ (page.shown /\ entry.data # None)

MutationReturns(op) ==
    /\ op.at # None
    /\ ops' = ops \ {op}
    /\ entry' = Settle(entry, op)
    /\ promised' = IF /\ op.does.writes /\ ~op.does.overlooked
                      /\ MaySee /\ op.at > promised
                      /\ op.does.invalidates \/ (op.here /\ page.shown)
                   THEN op.at ELSE promised
    /\ UNCHANGED <<query, page, changed>>

\* onError of an optimistic mutation puts back what it found, and what was fetched since
\* is lost; then it invalidates the query all the same.
Undo(e, op) == Invalidate(IF op.previous = None THEN e ELSE Put(e, op.previous))

\* Refused, or the answer is lost.
MutationFails(op) ==
    /\ ops' = ops \ {op}
    /\ entry' = IF op.does.optimistic THEN Undo(entry, op) ELSE entry
    /\ UNCHANGED <<query, page, changed, promised>>

OthersChange ==
    /\ Site[query].changes /\ changed < MaxChanges
    /\ changed' = changed + 1
    /\ UNCHANGED <<query, page, entry, ops, promised>>

Next ==
    \/ GoesStale \/ Refetch \/ ServerReads \/ FetchReturns \/ FetchFails \/ OthersChange
    \/ \E p \in Site[query].pages : Navigate(p)
    \/ \E effect \in page.offers : Press(effect)
    \/ \E op \in ops : ServerApplies(op) \/ MutationReturns(op) \/ MutationFails(op)

Spec == Init /\ [][Next]_vars

----------------------------------------------------------------------------
(* Properties *)

Optimistic == \E op \in ops : op.does.optimistic

\* Read your writes: a page that shows a result as current shows every change that the
\* user was told of, if it was shown when the change was made or is invalidated by it.
\* Three cases are left out: what is Overlooked (Screens), changes of which MaySee says
\* that a fetch hid them, and the time while an optimistic mutation is pending, which makes
\* any result current that it finds.
ReadYourWrites ==
    page.shown /\ entry.fetch = None /\ ~entry.stale /\ ~Optimistic
        => entry.data >= promised

\* A page never goes back to an older state than it has shown already, whichever fetches
\* fail, are cancelled or overtaken; left out are the queries into whose result mutations
\* put something, or put something back (put, see PutByMutations of Screens).
MonotonicReads ==
    [][entry.data # None /\ ~Site[query].put => entry'.data >= entry.data]_vars

================================================================================
