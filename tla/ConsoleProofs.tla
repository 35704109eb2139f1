----------------------------- MODULE ConsoleProofs -----------------------------
(***************************************************************************)
(* Proofs about Console, for every client whose pages treat their queries  *)
(* as QueryOK says, any number of changes and of pending requests.         *)
(***************************************************************************)
EXTENDS Console, TLAPS

USE DEF vars

\* TLC evaluates it for the queries of Screens: it is part of TypeOK.
SiteOK ==
    /\ \A q \in DOMAIN Site : QueryOK(q)
    /\ MaxChanges \in Nat
    /\ None \notin Nat /\ Asked \notin Nat /\ None # Asked

Offered == UNION {p.offers : p \in Site[query].pages}

\* What is pending was offered by a page of the query.
Pending == [does : Offered, at : 0 .. changed \cup {None}, here : BOOLEAN,
            previous : 0 .. changed \cup {None}]
OpsOK == ops \subseteq Pending

Read == entry.fetch \notin {None, Asked}

\* Nothing that was read is ahead of the server, and what was read last counts: a fetch
\* under way, and a result that is not out of date, have every change that was promised,
\* unless an optimistic mutation is pending.
EntryOK ==
    /\ entry.data # None => entry.data \in 0 .. changed
    /\ Read => entry.fetch \in 0 .. changed /\ entry.fetch >= promised
    /\ ~entry.stale => entry.data # None /\ (entry.data >= promised \/ Optimistic)

\* Unless mutations put results into the cache, a fetch under way is no older than they are.
ReadsOK == ~Site[query].put /\ Read /\ entry.data # None => entry.fetch >= entry.data

\* A query that is put, and not invalidated, promises nothing.
PromiseOK ==
    (\A effect \in Offered : Counts(effect) => ~effect.invalidates) => promised = 0

ConsoleInv == TypeOK /\ OpsOK /\ EntryOK /\ ReadsOK /\ PromiseOK

----------------------------------------------------------------------------

LEMMA Numbers ==
  ASSUME SiteOK, TypeOK
  PROVE  /\ changed \in Nat /\ promised \in Nat /\ promised <= changed
         /\ 0 .. changed \subseteq 0 .. MaxChanges /\ 0 .. changed \subseteq Nat
         /\ entry.data \in Nat \cup {None} /\ entry.fetch \in Nat \cup {None, Asked}
         /\ entry.stale \in BOOLEAN
<1>1. MaxChanges \in Nat /\ changed \in 0 .. MaxChanges /\ promised \in 0 .. changed
  BY DEF SiteOK, TypeOK
<1>2. entry.data \in 0 .. MaxChanges \cup {None} /\ entry.fetch \in 0 .. MaxChanges \cup {None, Asked}
      /\ entry.stale \in BOOLEAN
  BY DEF TypeOK, Entry
<1>. QED BY <1>1, <1>2

\* A step of the cache alone: the page, the server and the mutations stay.
LEMMA EntryTypes ==
  ASSUME SiteOK, TypeOK, EntryStep, entry' \in Entry, entry'.data = None => entry'.stale
  PROVE  TypeOK'
BY DEF TypeOK, EntryStep, QueryOK

LEMMA OpsKept ==
  ASSUME OpsOK, UNCHANGED <<query, changed, ops>>
  PROVE  OpsOK' /\ Optimistic' = Optimistic
BY DEF OpsOK, Pending, Offered, Optimistic

LEMMA PromiseKept ==
  ASSUME PromiseOK, UNCHANGED <<query, promised>>
  PROVE  PromiseOK'
BY DEF PromiseOK, Offered

LEMMA CacheKeeps ==
  ASSUME SiteOK, ConsoleInv,
         GoesStale \/ Refetch \/ ServerReads \/ FetchReturns \/ FetchFails
  PROVE  ConsoleInv'
<1>1. EntryStep /\ UNCHANGED <<query, page, changed, ops, promised>>
  BY DEF GoesStale, Refetch, ServerReads, FetchReturns, FetchFails, EntryStep
<1>2. OpsOK' /\ PromiseOK'
  BY <1>1, OpsKept, PromiseKept DEF ConsoleInv
<1>0. Optimistic' = Optimistic
  BY <1>1 DEF Optimistic
<1>3. TypeOK /\ EntryOK /\ ReadsOK /\ entry \in Entry
  BY DEF ConsoleInv, TypeOK
<1>4. changed \in 0 .. MaxChanges
  BY <1>3 DEF TypeOK
<1>5. /\ entry' \in Entry /\ (entry'.data = None => entry'.stale)
      /\ EntryOK' /\ ReadsOK'
  <2>1. CASE GoesStale
    <3>1. entry' = [entry EXCEPT !.stale = TRUE]
      BY <2>1 DEF GoesStale
    <3>2. entry' \in Entry /\ entry'.data = entry.data /\ entry'.fetch = entry.fetch /\ entry'.stale
      BY <1>3, <3>1 DEF Entry
    <3>. QED BY <1>0, <1>1, <1>3, <3>2 DEF EntryOK, ReadsOK, Read
  <2>2. CASE Refetch \/ FetchFails
    <3>1. PICK f \in {None, Asked} : entry' = [entry EXCEPT !.fetch = f]
      BY <2>2 DEF Refetch, FetchFails
    <3>2. entry' \in Entry /\ entry'.data = entry.data /\ entry'.fetch = f /\ entry'.stale = entry.stale
      BY <1>3, <3>1 DEF Entry
    <3>. QED BY <1>0, <1>1, <1>3, <3>1, <3>2 DEF EntryOK, ReadsOK, Read, TypeOK
  <2>3. CASE ServerReads
    <3>1. entry' = [entry EXCEPT !.fetch = changed]
      BY <2>3 DEF ServerReads
    <3>2. entry' \in Entry /\ entry'.data = entry.data /\ entry'.fetch = changed /\ entry'.stale = entry.stale
      BY <1>3, <1>4, <3>1 DEF Entry
    <3>. QED BY <1>0, <1>1, <1>3, <3>2, Numbers DEF EntryOK, ReadsOK, Read, TypeOK
  <2>4. CASE FetchReturns
    <3>1. Read /\ entry' = [data |-> entry.fetch, stale |-> FALSE, fetch |-> None]
      BY <2>4 DEF FetchReturns, Read
    <3>2. entry.fetch \in 0 .. changed /\ entry.fetch >= promised /\ entry.fetch # None
      BY <1>3, <3>1 DEF EntryOK, Read
    <3>3. entry' \in Entry
      BY <1>3, <3>1, <3>2, Numbers DEF Entry
    <3>. QED BY <1>1, <3>1, <3>2, <3>3 DEF EntryOK, ReadsOK, Read
  <2>. QED BY <2>1, <2>2, <2>3, <2>4
<1>. QED BY <1>1, <1>2, <1>3, <1>5, EntryTypes DEF ConsoleInv

----------------------------------------------------------------------------
(* The user, and others *)

\* Invalidating: what is cached stays and is out of date, and a page that shows it asks.
LEMMA InvalidateIs ==
  ASSUME NEW e \in Entry
  PROVE  /\ Invalidate(e) \in Entry /\ Invalidate(e).data = e.data /\ Invalidate(e).stale
         /\ Invalidate(e).fetch \in {e.fetch, Asked}
         /\ page.shown /\ (e.data # None \/ e.fetch = None) => Invalidate(e).fetch = Asked
<1>. DEFINE anew == page.shown /\ (e.data # None \/ e.fetch = None)
            f == IF anew THEN Asked ELSE e.fetch
<1>1. f \in 0 .. MaxChanges \cup {None, Asked}
  BY DEF Entry
<1>2. Invalidate(e) = [e EXCEPT !.stale = TRUE, !.fetch = f]
  BY DEF Invalidate
<1>. HIDE DEF f
<1>3. /\ Invalidate(e) \in Entry /\ Invalidate(e).data = e.data /\ Invalidate(e).stale
      /\ Invalidate(e).fetch = f
  BY <1>1, <1>2 DEF Entry
<1>. QED BY <1>3 DEF f

\* What the page of a pending mutation treats as QueryOK says.
LEMMA OpEffect ==
  ASSUME SiteOK, TypeOK, OpsOK, NEW op \in ops
  PROVE  /\ op.does \in Offered /\ op.does \in Effects /\ op.here \in BOOLEAN
         /\ op.at \in 0 .. changed \cup {None} /\ op.previous \in 0 .. changed \cup {None}
         /\ Counts(op.does) /\ op.here /\ page.shown => op.does.invalidates
         /\ op.does.sets => /\ Site[query].put
                            /\ op.does.invalidates
                               \/ \A e \in Offered : Counts(e) => ~e.invalidates
         /\ op.does.optimistic => op.does.invalidates /\ Site[query].put
<1>1. QueryOK(query) /\ page \in Site[query].pages /\ (op.here => op.does \in page.offers)
  BY DEF TypeOK
<1>2. /\ op.does \in Offered /\ op.here \in BOOLEAN /\ op.at \in 0 .. changed \cup {None}
      /\ op.previous \in 0 .. changed \cup {None}
  BY DEF OpsOK, Pending
<1>. QED BY <1>1, <1>2 DEF QueryOK, Offered

LEMMA MountIs ==
  ASSUME NEW e \in Entry
  PROVE  /\ Mount(e) \in Entry /\ Mount(e).data = e.data /\ Mount(e).stale = e.stale
         /\ Mount(e).fetch \in {e.fetch, Asked}
BY DEF Mount, Entry

LEMMA NavigateKeeps ==
  ASSUME SiteOK, ConsoleInv, NEW p \in Site[query].pages, Navigate(p)
  PROVE  ConsoleInv'
<1>1. TypeOK /\ OpsOK /\ EntryOK /\ ReadsOK /\ PromiseOK /\ entry \in Entry
  BY DEF ConsoleInv, TypeOK
<1>2. page' = p /\ UNCHANGED <<query, changed, promised>>
  BY DEF Navigate
<1>3. /\ entry' \in Entry /\ entry'.data = entry.data /\ entry'.stale = entry.stale
      /\ entry'.fetch \in {entry.fetch, Asked}
  <2>1. PICK f \in {entry.fetch, Asked} : entry' = [entry EXCEPT !.fetch = f]
    <3>1. CASE entry' = entry
      BY <3>1, <1>1 DEF Entry
    <3>2. CASE entry' = [entry EXCEPT !.fetch = Asked]
      BY <3>2
    <3>. QED BY <3>1, <3>2 DEF Navigate, Mount
  <2>. QED BY <1>1, <2>1 DEF Entry
<1>4. \A op \in ops' : \E o \in ops : op = [o EXCEPT !.here = FALSE]
  BY DEF Navigate
<1>5. \A op \in ops' : op \in Pending /\ ~op.here
  BY <1>1, <1>4 DEF OpsOK, Pending
<1>6. OpsOK' /\ PromiseOK'
  BY <1>1, <1>2, <1>5 DEF OpsOK, Pending, Offered, PromiseOK
<1>7. EntryOK' /\ ReadsOK'
  <2>1. Optimistic => Optimistic'
    <3>. SUFFICES ASSUME NEW op \in ops, op.does.optimistic PROVE Optimistic'
      BY DEF Optimistic
    <3>1. op \in Pending /\ [op EXCEPT !.here = FALSE] \in ops'
      BY <1>1 DEF OpsOK, Navigate
    <3>2. [op EXCEPT !.here = FALSE].does = op.does
      BY <3>1 DEF Pending
    <3>. QED BY <3>1, <3>2 DEF Optimistic
  <2>. QED BY <1>1, <1>2, <1>3, <2>1 DEF EntryOK, ReadsOK, Read
<1>8. TypeOK'
  BY <1>1, <1>2, <1>3, <1>5 DEF TypeOK, QueryOK, Pending
<1>. QED BY <1>6, <1>7, <1>8 DEF ConsoleInv

LEMMA PressKeeps ==
  ASSUME SiteOK, ConsoleInv, NEW effect \in page.offers, Press(effect)
  PROVE  ConsoleInv'
<1>. DEFINE found == IF effect.optimistic THEN entry.data ELSE None
            new == [does |-> effect, at |-> None, here |-> TRUE, previous |-> found]
<1>1. TypeOK /\ OpsOK /\ EntryOK /\ ReadsOK /\ PromiseOK /\ entry \in Entry
  BY DEF ConsoleInv, TypeOK
<1>2. UNCHANGED <<query, page, changed, promised>> /\ ops' = ops \cup {new}
  BY DEF Press
<1>3. /\ entry' \in Entry /\ entry'.data = entry.data
      /\ entry'.fetch \in {entry.fetch, None}
      /\ entry'.stale # entry.stale => effect.optimistic /\ entry.data # None
  <2>1. CASE entry' = entry
    BY <2>1, <1>1
  <2>2. ASSUME entry' = Change(entry), effect.optimistic
        PROVE  /\ entry' \in Entry /\ entry'.data = entry.data /\ entry'.fetch = None
               /\ entry'.stale # entry.stale => entry.data # None
    <3>1. CASE entry.data = None
      <4>1. entry' = [entry EXCEPT !.fetch = None]
        BY <2>2, <3>1 DEF Change
      <4>. QED BY <1>1, <4>1 DEF Entry
    <3>2. CASE entry.data # None
      <4>1. entry' = [[entry EXCEPT !.data = entry.data, !.stale = FALSE] EXCEPT !.fetch = None]
        BY <2>2, <3>2 DEF Change, Put
      <4>. QED BY <1>1, <3>2, <4>1 DEF Entry
    <3>. QED BY <3>1, <3>2
  <2>. QED BY <2>1, <2>2 DEF Press
<1>4. effect \in Offered /\ Offered' = Offered
  BY <1>1, <1>2 DEF TypeOK, Offered
<1>5. found \in 0 .. changed \cup {None}
  BY <1>1 DEF EntryOK
<1>. HIDE DEF found
<1>6. new \in Pending
  BY <1>4, <1>5 DEF Pending
<1>7. OpsOK' /\ PromiseOK'
  BY <1>1, <1>2, <1>4, <1>6 DEF OpsOK, Pending, PromiseOK
<1>8. (Optimistic => Optimistic') /\ (effect.optimistic => Optimistic')
  <2>1. new.does = effect /\ new \in ops' /\ ops \subseteq ops'
    BY <1>2
  <2>. HIDE DEF new
  <2>. QED BY <2>1 DEF Optimistic
<1>9. EntryOK' /\ ReadsOK'
  BY <1>1, <1>2, <1>3, <1>8 DEF EntryOK, ReadsOK, Read
<1>10. TypeOK'
  BY <1>1, <1>2, <1>3, <1>5 DEF TypeOK, QueryOK
<1>. QED BY <1>7, <1>9, <1>10 DEF ConsoleInv

LEMMA ServerKeeps ==
  ASSUME SiteOK, ConsoleInv, OthersChange \/ \E op \in ops : ServerApplies(op)
  PROVE  ConsoleInv'
<1>1. TypeOK /\ OpsOK /\ EntryOK /\ ReadsOK /\ PromiseOK
  BY DEF ConsoleInv
<1>2. UNCHANGED <<query, page, entry, promised>>
  BY DEF OthersChange, ServerApplies
<1>3. changed' \in {changed, changed + 1} /\ changed' <= MaxChanges
  BY <1>1, Numbers DEF OthersChange, ServerApplies, SiteOK
<1>4. changed' \in 0 .. MaxChanges /\ 0 .. changed \subseteq 0 .. changed'
  BY <1>1, <1>3, Numbers DEF SiteOK
<1>5. \A op \in ops' : \/ op \in ops
                       \/ \E o \in ops : op = [o EXCEPT !.at = changed']
  BY DEF OthersChange, ServerApplies
<1>6. \A op \in ops' : op \in Pending' /\ (op.here => op.does \in page.offers)
  <2>. SUFFICES ASSUME NEW op \in ops'
                PROVE  op \in Pending' /\ (op.here => op.does \in page.offers)
    OBVIOUS
  <2>1. \A o \in ops : o \in Pending /\ (o.here => o.does \in page.offers)
    BY <1>1 DEF OpsOK, TypeOK
  <2>2. Offered' = Offered /\ changed' \in 0 .. changed'
    BY <1>2, <1>4 DEF Offered
  <2>3. CASE op \in ops
    BY <2>1, <2>2, <2>3, <1>4 DEF Pending
  <2>4. ASSUME NEW o \in ops, op = [o EXCEPT !.at = changed'] PROVE
          op \in Pending' /\ (op.here => op.does \in page.offers)
    BY <2>1, <2>2, <2>4, <1>4 DEF Pending
  <2>. QED BY <1>5, <2>3, <2>4
<1>7. OpsOK' /\ PromiseOK'
  BY <1>1, <1>2, <1>6 DEF OpsOK, Offered, PromiseOK
<1>8. Optimistic => Optimistic'
  <2>. SUFFICES ASSUME NEW o \in ops, o.does.optimistic PROVE Optimistic'
    BY DEF Optimistic
  <2>1. o \in Pending
    BY <1>1 DEF OpsOK
  <2>2. CASE o \in ops'
    BY <2>2 DEF Optimistic
  <2>3. CASE o \notin ops'
    <3>1. [o EXCEPT !.at = changed'] \in ops'
      BY <2>3 DEF OthersChange, ServerApplies
    <3>2. [o EXCEPT !.at = changed'].does = o.does
      BY <2>1 DEF Pending
    <3>. QED BY <3>1, <3>2 DEF Optimistic
  <2>. QED BY <2>2, <2>3
<1>9. EntryOK' /\ ReadsOK'
  BY <1>1, <1>2, <1>4, <1>8 DEF EntryOK, ReadsOK, Read
<1>10. TypeOK'
  BY <1>1, <1>2, <1>4, <1>6 DEF TypeOK, QueryOK, Entry, Pending
<1>. QED BY <1>7, <1>9, <1>10 DEF ConsoleInv

\* What a mutation does to the cache when it returns, and when it may raise the promise.
LEMMA SettleIs ==
  ASSUME SiteOK, ConsoleInv, NEW op \in ops, MutationReturns(op)
  PROVE  /\ entry' \in Entry /\ op.at \in 0 .. changed
         /\ IF op.does.sets THEN entry'.data = op.at ELSE entry'.data = entry.data
         /\ IF op.does.invalidates
            THEN /\ entry'.stale /\ entry'.fetch \in {entry.fetch, Asked}
                 /\ MaySee => entry'.fetch \in {None, Asked}
            ELSE /\ entry'.fetch \in {entry.fetch, Asked}
                 /\ ~entry'.stale => op.does.sets \/ ~entry.stale
         /\ promised' # promised => /\ promised' = op.at /\ promised' > promised /\ MaySee
                                    /\ Counts(op.does) /\ op.does.invalidates
<1>1. TypeOK /\ OpsOK /\ entry \in Entry
  BY DEF ConsoleInv, TypeOK
<1>2. op.at \in 0 .. changed
  BY <1>1, OpEffect DEF MutationReturns
<1>3. op.at \in 0 .. MaxChanges /\ op.at # None /\ op.at \in Nat
  BY <1>1, <1>2, Numbers DEF SiteOK
<1>. DEFINE put == IF op.does.sets THEN Put(entry, op.at) ELSE entry
<1>4. /\ put \in Entry /\ put.fetch = entry.fetch
      /\ put.data = IF op.does.sets THEN op.at ELSE entry.data
      /\ ~put.stale => op.does.sets \/ ~entry.stale
  <2>1. CASE op.does.sets
    <3>1. put = [entry EXCEPT !.data = op.at, !.stale = FALSE]
      BY <2>1 DEF Put
    <3>. QED BY <1>1, <1>3, <2>1, <3>1 DEF Entry
  <2>2. CASE ~op.does.sets
    BY <1>1, <2>2
  <2>. QED BY <2>1, <2>2
<1>. DEFINE after == IF op.does.invalidates THEN Invalidate(put) ELSE put
<1>5. entry' = IF op.does.prefetches THEN Mount(after) ELSE after
  BY DEF MutationReturns, Settle
<1>6. promised' # promised => /\ promised' = op.at /\ promised' > promised /\ MaySee
                              /\ Counts(op.does) /\ op.does.invalidates
  <2>1. CASE promised' = promised
    BY <2>1
  <2>2. ASSUME promised' # promised
        PROVE  /\ promised' = op.at /\ op.at > promised /\ MaySee /\ Counts(op.does)
               /\ op.does.invalidates \/ (op.here /\ page.shown)
    BY <2>2 DEF MutationReturns, Counts
  <2>. QED BY <1>1, <2>1, <2>2, OpEffect
<1>. HIDE DEF put
<1>7. after \in Entry
  BY <1>4, InvalidateIs
<1>8. /\ entry' \in Entry /\ entry'.data = after.data /\ entry'.stale = after.stale
      /\ entry'.fetch \in {after.fetch, Asked}
  <2>1. CASE op.does.prefetches
    BY <1>5, <1>7, <2>1, MountIs
  <2>2. CASE ~op.does.prefetches
    BY <1>5, <1>7, <2>2
  <2>. QED BY <2>1, <2>2
<1>9. CASE op.does.invalidates
  <2>1. /\ after.data = put.data /\ after.stale /\ after.fetch \in {put.fetch, Asked}
        /\ page.shown /\ (put.data # None \/ put.fetch = None) => after.fetch = Asked
    BY <1>4, <1>9, InvalidateIs
  <2>2. MaySee => after.fetch \in {None, Asked}
    BY <1>3, <1>4, <2>1 DEF MaySee
  <2>. QED BY <1>2, <1>4, <1>6, <1>8, <1>9, <2>1, <2>2
<1>10. CASE ~op.does.invalidates
  <2>1. after = put
    BY <1>10
  <2>. HIDE DEF after
  <2>. QED BY <1>2, <1>4, <1>6, <1>8, <1>10, <2>1
<1>. QED BY <1>9, <1>10

LEMMA ReturnKeeps ==
  ASSUME SiteOK, ConsoleInv, NEW op \in ops, MutationReturns(op)
  PROVE  ConsoleInv'
<1>1. TypeOK /\ OpsOK /\ EntryOK /\ ReadsOK /\ PromiseOK
  BY DEF ConsoleInv
<1>2. UNCHANGED <<query, page, changed>> /\ ops' \subseteq ops /\ Offered' = Offered
  BY DEF MutationReturns, Offered
<1>3. op.at \in Nat /\ op.at <= changed /\ op.at # None
  BY <1>1, SettleIs, Numbers DEF MutationReturns
<1>4. promised' \in 0 .. changed /\ promised' >= promised
  BY <1>1, <1>3, SettleIs, Numbers
<1>5. OpsOK' /\ (Optimistic /\ ~Optimistic' => op.does.optimistic)
  BY <1>1, <1>2 DEF OpsOK, Pending, MutationReturns, Optimistic
<1>6. PromiseOK'
  <2>1. CASE promised' = promised
    BY <1>1, <1>2, <2>1 DEF PromiseOK
  <2>2. CASE promised' # promised
    <3>1. op.does \in Offered /\ Counts(op.does) /\ op.does.invalidates
      BY <1>1, <2>2, SettleIs, OpEffect
    <3>. QED BY <1>2, <3>1 DEF PromiseOK
  <2>. QED BY <2>1, <2>2
\* Put into a query without being invalidated: nothing was promised of it.
<1>7. op.does.sets /\ ~op.does.invalidates => promised = 0 /\ promised' = 0
  BY <1>1, OpEffect, SettleIs DEF PromiseOK
<1>8. EntryOK'
  <2>1. entry'.data # None => entry'.data \in 0 .. changed
    BY <1>1, SettleIs DEF EntryOK
  <2>2. Read' => entry'.fetch \in 0 .. changed /\ entry'.fetch >= promised'
    <3>. SUFFICES ASSUME Read' PROVE entry'.fetch \in 0 .. changed /\ entry'.fetch >= promised'
      OBVIOUS
    <3>1. entry'.fetch = entry.fetch /\ promised' = promised
      BY SettleIs DEF Read
    <3>. QED BY <1>1, <3>1 DEF EntryOK, Read
  <2>3. ~entry'.stale => entry'.data # None /\ (entry'.data >= promised' \/ Optimistic')
    <3>. SUFFICES ASSUME ~entry'.stale
                  PROVE  entry'.data # None /\ (entry'.data >= promised' \/ Optimistic')
      OBVIOUS
    <3>1. /\ ~op.does.invalidates /\ promised' = promised
          /\ Optimistic => Optimistic'
      BY <1>1, <1>5, SettleIs, OpEffect
    <3>2. CASE op.does.sets
      BY <1>3, <1>7, <3>1, <3>2, SettleIs
    <3>3. CASE ~op.does.sets
      BY <1>1, <3>1, <3>3, SettleIs DEF EntryOK
    <3>. QED BY <3>2, <3>3
  <2>. QED BY <1>2, <2>1, <2>2, <2>3 DEF EntryOK
<1>9. ReadsOK'
  <2>. SUFFICES ASSUME ~Site[query].put, Read', entry'.data # None
                PROVE  entry'.fetch >= entry'.data
    BY <1>2 DEF ReadsOK
  <2>1. ~op.does.sets
    BY <1>1, OpEffect
  <2>2. entry'.fetch = entry.fetch /\ entry'.data = entry.data
    BY <2>1, SettleIs DEF Read
  <2>. QED BY <1>1, <2>2 DEF ReadsOK, Read
<1>10. TypeOK'
  <2>1. entry'.data = None => entry'.stale
    BY <1>1, <1>3, SettleIs DEF TypeOK
  <2>. QED BY <1>1, <1>2, <1>4, <2>1, SettleIs DEF TypeOK, QueryOK
<1>. QED BY <1>5, <1>6, <1>8, <1>9, <1>10 DEF ConsoleInv

LEMMA FailureKeeps ==
  ASSUME SiteOK, ConsoleInv, NEW op \in ops, MutationFails(op)
  PROVE  ConsoleInv'
<1>1. TypeOK /\ OpsOK /\ EntryOK /\ ReadsOK /\ PromiseOK /\ entry \in Entry
  BY DEF ConsoleInv, TypeOK
<1>2. UNCHANGED <<query, page, changed, promised>> /\ ops' \subseteq ops /\ Offered' = Offered
  BY DEF MutationFails, Offered
<1>3. CASE ~op.does.optimistic
  <2>1. entry' = entry /\ Optimistic' = Optimistic
    BY <1>3 DEF MutationFails, Optimistic
  <2>. QED BY <1>1, <1>2, <2>1
           DEF ConsoleInv, TypeOK, QueryOK, OpsOK, Pending, EntryOK, ReadsOK, Read, PromiseOK
<1>4. CASE op.does.optimistic
  <2>. DEFINE back == IF op.previous = None THEN entry ELSE Put(entry, op.previous)
  <2>1. op.previous \in 0 .. changed \cup {None} /\ Site[query].put
    BY <1>1, <1>4, OpEffect
  <2>2. /\ back \in Entry /\ back.fetch = entry.fetch
        /\ back.data \in {entry.data, op.previous}
    <3>1. CASE op.previous = None
      BY <1>1, <3>1
    <3>2. CASE op.previous # None
      <4>1. back = [entry EXCEPT !.data = op.previous, !.stale = FALSE]
        BY <3>2 DEF Put
      <4>2. op.previous \in 0 .. MaxChanges
        BY <1>1, <2>1, <3>2, Numbers
      <4>. QED BY <1>1, <4>1, <4>2 DEF Entry
    <3>. QED BY <3>1, <3>2
  <2>3. entry' = Invalidate(back)
    BY <1>4 DEF MutationFails, Undo
  <2>. HIDE DEF back
  <2>4. /\ entry' \in Entry /\ entry'.data = back.data /\ entry'.stale
        /\ entry'.fetch \in {entry.fetch, Asked}
    BY <2>2, <2>3, InvalidateIs
  <2>5. OpsOK' /\ PromiseOK'
    BY <1>1, <1>2 DEF OpsOK, Pending, PromiseOK
  <2>6. EntryOK'
    BY <1>1, <1>2, <2>1, <2>2, <2>4 DEF EntryOK, Read
  <2>7. ReadsOK'
    BY <1>2, <2>1 DEF ReadsOK
  <2>8. TypeOK'
    BY <1>1, <1>2, <2>4 DEF TypeOK, QueryOK
  <2>. QED BY <2>5, <2>6, <2>7, <2>8 DEF ConsoleInv
<1>. QED BY <1>3, <1>4

LEMMA InitHolds ==
  ASSUME SiteOK, Init
  PROVE  ConsoleInv
<1>1. /\ query \in DOMAIN Site /\ page \in Site[query].pages
      /\ changed = 0 /\ ops = {} /\ promised = 0
  BY DEF Init
<1>2. /\ entry \in Entry /\ entry.data = None /\ entry.stale
      /\ entry.fetch \in {None, Asked}
  BY DEF Init, Mount, Fresh, Entry
<1>. QED BY <1>1, <1>2 DEF ConsoleInv, TypeOK, OpsOK, EntryOK, ReadsOK, Read, PromiseOK, SiteOK

LEMMA StepKeeps ==
  ASSUME SiteOK, ConsoleInv, [Next]_vars
  PROVE  ConsoleInv'
<1>1. CASE UNCHANGED vars
  BY <1>1 DEF ConsoleInv, TypeOK, QueryOK, OpsOK, Pending, Offered, EntryOK, Optimistic,
              ReadsOK, Read, PromiseOK
<1>2. CASE Next
  BY <1>2, CacheKeeps, ServerKeeps, NavigateKeeps, PressKeeps, ReturnKeeps, FailureKeeps
     DEF Next
<1>. QED BY <1>1, <1>2

\* What is cached, being fetched, pending and promised fits together at all times, for
\* every client whose pages are as QueryOK says.
THEOREM ConsoleInvariant == SiteOK => (Spec => []ConsoleInv)
<1>. SUFFICES ASSUME SiteOK
              PROVE  Spec => []ConsoleInv
  OBVIOUS
<1>1. Init => ConsoleInv
  BY InitHolds
<1>2. ConsoleInv /\ [Next]_vars => ConsoleInv'
  BY StepKeeps
<1>. QED BY <1>1, <1>2, PTL DEF Spec

\* Every variable of the console has its type: what is pending on a page was offered
\* there, and has been applied no later than now.
THEOREM TypeCorrect == SiteOK => (Spec => []TypeOK)
<1>1. ConsoleInv => TypeOK
  BY DEF ConsoleInv
<1>. QED BY <1>1, ConsoleInvariant, PTL

\* Read your writes: a page that shows a cached result as current shows every change that
\* its user was told of, whichever fetches were overtaken, cancelled or failed meanwhile
\* (the invalidations of client.ts).
THEOREM WritesAreRead == SiteOK => (Spec => []ReadYourWrites)
<1>1. ConsoleInv => ReadYourWrites
  BY DEF ConsoleInv, EntryOK, ReadYourWrites
<1>. QED BY <1>1, ConsoleInvariant, PTL

\* A page never goes back to an older state than it has shown: a fetch that was read
\* before a newer result was cached never replaces it, unless mutations put results there.
THEOREM ReadsAreMonotonic == SiteOK => (Spec => MonotonicReads)
<1>. SUFFICES ASSUME SiteOK
              PROVE  Spec => MonotonicReads
  OBVIOUS
<1>1. ConsoleInv /\ [Next]_vars =>
        [entry.data # None /\ ~Site[query].put => entry'.data >= entry.data]_vars
  <2>. SUFFICES ASSUME ConsoleInv, Next, entry.data # None, ~Site[query].put
                PROVE  entry'.data >= entry.data
    OBVIOUS
  <2>1. TypeOK /\ OpsOK /\ ReadsOK /\ entry \in Entry /\ entry.data \in Nat
    BY Numbers DEF ConsoleInv, TypeOK
  <2>2. CASE FetchReturns
    BY <2>1, <2>2 DEF FetchReturns, ReadsOK, Read
  <2>3. ASSUME NEW op \in ops, MutationReturns(op) PROVE entry'.data = entry.data
    BY <2>1, <2>3, SettleIs, OpEffect
  <2>4. ASSUME NEW op \in ops, MutationFails(op) PROVE entry'.data = entry.data
    <3>1. ~op.does.optimistic
      BY <2>1, <2>4, OpEffect
    <3>. QED BY <2>4, <3>1 DEF MutationFails
  <2>5. ASSUME NEW effect \in page.offers, Press(effect) PROVE entry'.data = entry.data
    <3>1. ~effect.optimistic
      BY <2>1, <2>5 DEF TypeOK, QueryOK
    <3>. QED BY <2>5, <3>1 DEF Press
  <2>6. CASE \/ GoesStale \/ Refetch \/ ServerReads \/ FetchFails \/ OthersChange
             \/ \E p \in Site[query].pages : Navigate(p)
             \/ \E op \in ops : ServerApplies(op)
    BY <2>1, <2>6
       DEF GoesStale, Refetch, ServerReads, FetchFails, OthersChange, Navigate, Mount,
           ServerApplies, Entry
  <2>. QED BY <2>1, <2>2, <2>3, <2>4, <2>5, <2>6 DEF Next
<1>. QED BY <1>1, ConsoleInvariant, PTL DEF Spec, MonotonicReads

================================================================================
