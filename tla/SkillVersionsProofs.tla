------------------------- MODULE SkillVersionsProofs -------------------------
(***************************************************************************)
(* Proofs about SkillVersions, for any number of writers, any contents and *)
(* any files.                                                              *)
(*                                                                         *)
(* Only CommitVersion changes what is stored; every other step moves one   *)
(* request.  The lemmas of the first section say what a step leaves alone, *)
(* those of the second what a commit adds to the history, and the last     *)
(* section proves the inductive invariant VersionsInv action by action.    *)
(***************************************************************************)
EXTENDS SkillVersions, Sequences, FiniteSetTheorems, TLAPS

USE DEF vars

Others(w) == \A u \in Requests \ {w} : request'[u] = request[u]

\* Of request w nothing but its program counter changes.
Moves(w, pc) ==
    /\ version' = version
    /\ Others(w)
    /\ request'[w].pc = pc
    /\ request'[w].payload = request[w].payload
    /\ request'[w].latest = request[w].latest
    /\ request'[w].draft = request[w].draft

LEMMA GotoMoves ==
  ASSUME request \in [Requests -> Request], NEW w \in Requests,
         NEW pc \in RequestPC, Goto(w, pc), version' = version
  PROVE  Moves(w, pc) /\ request' \in [Requests -> Request]
BY DEF Goto, Moves, Others, Request

\* What is read from the tables depends on the tables only.
LEMMA SameRows ==
  ASSUME version' = version
  PROVE  /\ Committed' = Committed
         /\ \A n : ResolveFiles(n)' = ResolveFiles(n)
         /\ FilesOK => FilesOK'
         /\ \A n : Taken(n)' = Taken(n)
         /\ \A v : Number(v)' = Number(v)
         /\ \A n, tree : ComputeFileDelta(n, tree)' = ComputeFileDelta(n, tree)
BY DEF Committed, ResolveFiles, ResolveFile, FileHistory, Taken, Number,
       ComputeFileDelta, FilesOK, IsNewest

\* What a request would insert depends on its payload and the version it locked.
LEMMA SameDraft ==
  ASSUME version' = version, NEW w,
         request'[w].payload = request[w].payload,
         request'[w].latest = request[w].latest
  PROVE  Draft(w)' = Draft(w)
<1>1. /\ Asks(w, "revert")' = Asks(w, "revert")
      /\ Latest(w)' = Latest(w) /\ Target(w)' = Target(w)
  BY DEF Asks, Latest, Target
<1>2. Submitted(w)' = Submitted(w)
  BY <1>1, SameRows DEF Submitted
<1>. QED BY <1>1, <1>2, SameRows DEF Draft

LEMMA UnmovedRequestOK ==
  ASSUME version' = version, NEW w \in Requests, Others(w),
         NEW u \in Requests \ {w}, RequestOK(u),
         At(w, "inserted")' /\ At(u, "inserted") =>
             request'[w].draft.number # request[u].draft.number
  PROVE  RequestOK(u)'
<1>1. request'[u] = request[u]
  BY DEF Others
<1>2. Draft(u)' = Draft(u)
  BY <1>1, SameDraft
<1>3. \A v \in Requests \ {w} : request'[v] = request[v]
  BY DEF Others
<1>. QED BY <1>1, <1>2, <1>3, SameRows DEF RequestOK, At, Asks, Target, Latest

LEMMA VersionAsRequestedKept ==
  ASSUME version' = version, VersionAsRequested, NEW w \in Requests, Others(w),
         w \in Committed => request'[w].payload = request[w].payload
  PROVE  VersionAsRequested'
<1>1. \A v \in Committed : request'[v].payload = request[v].payload
  BY DEF Others, Committed
<1>. QED BY <1>1, SameRows DEF VersionAsRequested

\* A step of request w that stores nothing keeps the invariant if it keeps the
\* types and the invariant of w, and takes no number another one holds.
LEMMA Keeps ==
  ASSUME VersionsInv, version' = version, NEW w \in Requests, Others(w),
         request' \in [Requests -> Request],
         w \in Committed => request'[w].payload = request[w].payload,
         RequestOK(w)',
         At(w, "inserted")' => \A u \in Requests \ {w} : At(u, "inserted") =>
             request'[w].draft.number # request[u].draft.number
  PROVE  VersionsInv'
<1>1. TypeOK'
  BY SameRows DEF VersionsInv, TypeOK
<1>2. \A u \in Requests : RequestOK(u)'
  <2>1. \A u \in Requests \ {w} : RequestOK(u)'
    BY UnmovedRequestOK DEF VersionsInv
  <2>. QED BY <2>1
<1>3. NumbersContiguous'
  BY SameRows DEF VersionsInv, NumbersContiguous
<1>4. VersionAsRequested'
  BY VersionAsRequestedKept DEF VersionsInv
<1>5. FilesOK'
  BY SameRows DEF VersionsInv
<1>. QED BY <1>1, <1>2, <1>3, <1>4, <1>5 DEF VersionsInv

\* Giving up, and moving on without inserting, keep the invariant.
LEMMA MoveKeeps ==
  ASSUME VersionsInv, NEW w \in Requests, NEW pc \in RequestPC,
         pc \notin {"inserted", "created", "idle"},
         ~At(w, "created"), ~At(w, "idle"),
         pc \in {"waiting", "locked"} => request[w].pc \in {"waiting", "locked"},
         Goto(w, pc), version' = version
  PROVE  VersionsInv'
<1>1. Moves(w, pc) /\ request' \in [Requests -> Request]
  BY GotoMoves DEF VersionsInv, TypeOK
<1>2. RequestOK(w)
  BY DEF VersionsInv
<1>3. RequestOK(w)'
  BY <1>1, <1>2, SameRows DEF RequestOK, Moves, At, Asks, Target, Latest
<1>. QED BY <1>1, <1>3, Keeps DEF Moves, At

----------------------------------------------------------------------------
(* What a commit adds *)

LEMMA EmptyHistory == TypeOK => \A p \in Paths : FileHistory(p, 0) = {}
BY DEF TypeOK, FileHistory, Committed, VersionRow

\* The tree of the version a transaction locked, or the empty one before the first.
LEMMA BaseTree ==
  ASSUME TypeOK, FilesOK, NEW v \in Committed \cup {None}
  PROVE  /\ Number(v) \in Nat
         /\ \A p \in Paths : FileHistory(p, Number(v)) # {} =>
              \E u \in FileHistory(p, Number(v)) : IsNewest(u, FileHistory(p, Number(v)))
         /\ ResolveFiles(Number(v)) \in Trees
<1>1. Number(v) \in Nat
  BY DEF Number, TypeOK, VersionRow, Committed
<1>2. ASSUME NEW p \in Paths, FileHistory(p, Number(v)) # {}
      PROVE  \E u \in FileHistory(p, Number(v)) : IsNewest(u, FileHistory(p, Number(v)))
  BY <1>2, EmptyHistory DEF Number, FilesOK
<1>3. ASSUME NEW p \in Paths
      PROVE  ResolveFile(p, Number(v)) \in Blobs \cup {NoFile}
  <2>1. CASE FileHistory(p, Number(v)) = {}
    BY <2>1 DEF ResolveFile
  <2>2. CASE FileHistory(p, Number(v)) # {}
    <3>. DEFINE u == CHOOSE x \in FileHistory(p, Number(v)) :
                       IsNewest(x, FileHistory(p, Number(v)))
    <3>1. u \in FileHistory(p, Number(v))
      BY <1>2, <2>2
    <3>2. version[u].files \in FileRows /\ version[u].files[p] # NoRow
      BY <3>1 DEF FileHistory, Committed, TypeOK, VersionRow
    <3>3. ResolveFile(p, Number(v)) = version[u].files[p]
      BY <2>2 DEF ResolveFile
    <3>. HIDE DEF u
    <3>. QED BY <3>2, <3>3 DEF FileRows
  <2>. QED BY <2>1, <2>2
<1>. QED BY <1>1, <1>2, <1>3 DEF ResolveFiles, Trees

LEMMA DeltaType ==
  ASSUME NEW n, NEW tree \in Trees
  PROVE  ComputeFileDelta(n, tree) \in FileRows
BY DEF ComputeFileDelta, Trees, FileRows

LEMMA SubmittedType ==
  ASSUME VersionsInv, NEW w \in Requests, ~At(w, "idle")
  PROVE  /\ Submitted(w) \in Trees \cup {Unsubmitted}
         /\ Asks(w, "revert") => Submitted(w) # Unsubmitted
<1>1. RequestOK(w) /\ TypeOK /\ FilesOK
  BY DEF VersionsInv
<1>2. CASE Asks(w, "revert")
  <2>1. Submitted(w) \in Trees
    BY <1>1, <1>2, BaseTree DEF RequestOK, Submitted
  <2>. QED BY <2>1, MarkersAssumption DEF Trees
<1>3. CASE ~Asks(w, "revert")
  BY <1>1, <1>3 DEF Submitted, TypeOK, Request, Payload
<1>. QED BY <1>2, <1>3

LEMMA DraftType ==
  ASSUME VersionsInv, NEW w \in Requests,
         request[w].pc \in {"locked", "inserted"}
  PROVE  /\ Draft(w) \in VersionRow
         /\ Draft(w).number \in Nat \ {0}
         /\ Draft(w).content \in Contents
<1>1. RequestOK(w) /\ TypeOK /\ FilesOK
  BY DEF VersionsInv
<1>2. Number(Latest(w)) \in Nat
  BY <1>1, BaseTree DEF RequestOK
<1>3. Target(w) \in Committed \cup {None}
  BY <1>1 DEF RequestOK
<1>4. Number(Target(w)) \in Nat
  BY <1>1, <1>3, BaseTree
<1>5. Draft(w).content \in Contents
  <2>1. CASE Asks(w, "revert")
    BY <1>1, <2>1 DEF RequestOK, Draft, TypeOK
  <2>2. CASE ~Asks(w, "revert")
    <3>1. request[w].payload.content \in Contents
      BY <1>1, <2>2 DEF RequestOK, At
    <3>. QED BY <2>2, <3>1, SanitizedAssumption DEF Draft
  <2>. QED BY <2>1, <2>2
<1>6. Draft(w).files \in FileRows
  <2>1. Submitted(w) \in Trees \cup {Unsubmitted}
    BY SubmittedType DEF At
  <2>2. CASE Submitted(w) = Unsubmitted
    BY <2>2 DEF Draft, FileRows
  <2>3. CASE Submitted(w) # Unsubmitted
    BY <2>1, <2>3, DeltaType DEF Draft
  <2>. QED BY <2>2, <2>3
<1>7. Draft(w).number \in Nat \ {0} /\ Draft(w).from \in Nat
  BY <1>2, <1>4 DEF Draft
<1>. QED BY <1>5, <1>6, <1>7 DEF Draft, VersionRow

\* A commit that stores row, with a number above all others.
Appends(w, row) ==
    /\ w \in Requests /\ w \notin Committed
    /\ row \in VersionRow /\ row.number > 0
    /\ \A v \in Committed : version[v].number < row.number
    /\ version' = [version EXCEPT ![w] = row]

LEMMA AppendedRows ==
  ASSUME TypeOK, NEW w, NEW row, Appends(w, row)
  PROVE  /\ Committed' = Committed \cup {w}
         /\ version'[w] = row
         /\ \A v \in Committed : v # w /\ version'[v] = version[v]
         /\ \A v \in Committed \cup {None} : Number(v)' = Number(v)
         /\ \A v \in Committed \cup {None} : Number(v) < row.number
BY MarkersAssumption DEF Appends, TypeOK, Committed, VersionRow, Number

\* A file depends on the rows that its path has.
LEMMA SameFile ==
  ASSUME NEW p, NEW n, NEW m, FileHistory(p, n)' = FileHistory(p, m),
         \A u \in FileHistory(p, m) : version'[u] = version[u],
         FileHistory(p, m) # {} =>
             \E u \in FileHistory(p, m) : IsNewest(u, FileHistory(p, m))
  PROVE  ResolveFile(p, n)' = ResolveFile(p, m)
<1>. DEFINE rows == FileHistory(p, m)
            newest == CHOOSE u \in rows : IsNewest(u, rows)
<1>1. CASE rows = {}
  BY <1>1 DEF ResolveFile
<1>2. CASE rows # {}
  <2>. DEFINE newest2 == CHOOSE u \in FileHistory(p, n) : IsNewest(u, FileHistory(p, n))
  <2>1. newest \in rows
    BY <1>2
  <2>2. newest2' = newest
    BY DEF IsNewest
  <2>3. ResolveFile(p, m) = version[newest].files[p]
    BY <1>2 DEF ResolveFile
  <2>4. ResolveFile(p, n)' = version'[newest2'].files[p]
    BY <1>2 DEF ResolveFile
  <2>. QED BY <2>1, <2>2, <2>3, <2>4
<1>. QED BY <1>1, <1>2

\* Earlier versions show the same files.
LEMMA EarlierFilesKept ==
  ASSUME TypeOK, FilesOK, NEW w, NEW row, Appends(w, row),
         NEW v \in Committed \cup {None}
  PROVE  /\ \A p \in Paths : FileHistory(p, Number(v))' = FileHistory(p, Number(v))
         /\ ResolveFiles(Number(v))' = ResolveFiles(Number(v))
<1>. DEFINE n == Number(v)
<1>1. n \in Nat /\ n < row.number /\ Number(v)' = n
  BY AppendedRows, BaseTree
<1>2. \A p : FileHistory(p, n)' = FileHistory(p, n)
  <2>1. \A u \in Committed : version'[u] = version[u]
    BY AppendedRows
  <2>2. Committed' = Committed \cup {w} /\ version'[w].number = row.number
    BY AppendedRows
  <2>3. row.number \in Nat
    BY DEF Appends, VersionRow
  <2>4. ~(row.number <= n)
    BY <1>1, <2>3
  <2>5. n' = n
    BY <1>1
  <2>. HIDE DEF n
  <2>. QED BY <2>1, <2>2, <2>4, <2>5 DEF FileHistory
<1>3. ASSUME NEW p \in Paths
      PROVE  ResolveFile(p, n)' = ResolveFile(p, n)
  <2>. PICK m : m = n
    OBVIOUS
  <2>1. FileHistory(p, m)' = FileHistory(p, m)
    BY <1>1, <1>2
  <2>2. ResolveFile(p, m)' = ResolveFile(p, m)
    <3>1. \A u \in FileHistory(p, m) : version'[u] = version[u]
      BY AppendedRows DEF FileHistory
    <3>2. FileHistory(p, m) # {} =>
            \E u \in FileHistory(p, m) : IsNewest(u, FileHistory(p, m))
      BY BaseTree
    <3>. QED BY <2>1, <3>1, <3>2, SameFile
  <2>. QED BY <1>1, <2>2
<1>. QED BY <1>1, <1>2, <1>3 DEF ResolveFiles

\* The new version shows its own rows over the files of the version before it.
LEMMA NewFiles ==
  ASSUME TypeOK, FilesOK, NEW w, NEW row, Appends(w, row),
         NEW b \in Committed \cup {None}, row.number = Number(b) + 1,
         NEW p \in Paths
  PROVE  /\ ResolveFile(p, row.number)' =
              IF row.files[p] = NoRow THEN ResolveFile(p, Number(b)) ELSE row.files[p]
         /\ row.files[p] # NoRow => IsNewest(w, FileHistory(p, row.number))'
         /\ row.files[p] = NoRow =>
              FileHistory(p, row.number)' = FileHistory(p, Number(b))
<1>. DEFINE k == row.number
<1>1. /\ Committed' = Committed \cup {w} /\ version'[w] = row
      /\ \A v \in Committed : v # w /\ version'[v] = version[v]
  BY AppendedRows
<1>2. /\ k \in Nat /\ Number(b) \in Nat
      /\ \A v \in Committed : version[v].number \in Nat /\ version[v].number < k
  BY BaseTree DEF Appends, VersionRow, TypeOK, Committed
<1>3. \A v \in Committed' : version'[v].number <= k /\ version[v].number \in Nat
  BY <1>1, <1>2 DEF Appends, TypeOK, VersionRow
<1>4. \A v \in Committed : version[v].number <= Number(b)
  BY <1>2
<1>5. FileHistory(p, k)' = {v \in Committed' : version'[v].files[p] # NoRow}
  BY <1>3 DEF FileHistory
<1>6. FileHistory(p, Number(b)) = {v \in Committed : version[v].files[p] # NoRow}
  BY <1>4 DEF FileHistory
<1>7. CASE row.files[p] = NoRow
  <2>1. FileHistory(p, k)' = FileHistory(p, Number(b))
    BY <1>1, <1>5, <1>6, <1>7
  <2>. PICK m : m = Number(b)
    OBVIOUS
  <2>2. /\ FileHistory(p, k)' = FileHistory(p, m)
        /\ \A u \in FileHistory(p, m) : version'[u] = version[u]
    BY <1>1, <2>1 DEF FileHistory
  <2>3. FileHistory(p, m) # {} =>
          \E u \in FileHistory(p, m) : IsNewest(u, FileHistory(p, m))
    BY BaseTree
  <2>. HIDE DEF k
  <2>4. ResolveFile(p, k)' = ResolveFile(p, m)
    BY <2>2, <2>3, SameFile
  <2>. QED BY <1>7, <2>1, <2>4 DEF k
<1>8. CASE row.files[p] # NoRow
  <2>. DEFINE rows == FileHistory(p, k)
              newest == CHOOSE v \in rows : IsNewest(v, rows)
  <2>1. w \in rows'
    BY <1>1, <1>5, <1>8
  <2>2. \A v \in rows' : version'[v].number <= version'[w].number
    BY <1>1, <1>3, <1>5
  <2>3. IsNewest(w, rows)'
    BY <2>1, <2>2 DEF IsNewest
  <2>4. \A v \in rows' : IsNewest(v, rows)' => v = w
    <3>. SUFFICES ASSUME NEW v \in rows', IsNewest(v, rows)', v # w
                  PROVE  FALSE
      OBVIOUS
    <3>1. v \in Committed /\ version'[w].number <= version'[v].number
      BY <1>1, <1>5, <2>1 DEF IsNewest
    <3>. QED BY <1>1, <1>2, <3>1
  <2>5. newest' = w
    BY <2>1, <2>3, <2>4
  <2>6. ResolveFile(p, k)' = version'[newest'].files[p]
    BY <2>1 DEF ResolveFile
  <2>. QED BY <1>1, <1>8, <2>3, <2>5, <2>6
<1>. QED BY <1>7, <1>8

\* What a transaction has inserted is newer than anything committed.
LEMMA InsertedIsNewest ==
  ASSUME VersionsInv, NEW w \in Requests, At(w, "inserted")
  PROVE  /\ w \notin Committed
         /\ request[w].draft = Draft(w) /\ Draft(w).number = Number(Latest(w)) + 1
         /\ Latest(w) \in Committed \cup {None} /\ Number(Latest(w)) \in Nat
         /\ \A v \in Committed : version[v].number < Draft(w).number
<1>1. RequestOK(w) /\ TypeOK /\ FilesOK
  BY DEF VersionsInv
<1>2. /\ w \notin Committed /\ request[w].draft = Draft(w)
      /\ Latest(w) \in Committed \cup {None}
      /\ Draft(w).number = Number(Latest(w)) + 1
  BY <1>1 DEF RequestOK, At, Draft
<1>3. Number(Latest(w)) \in Nat
  BY <1>1, <1>2, BaseTree
<1>4. \A v \in Committed : version[v].number <= Number(Latest(w))
  BY <1>1, <1>2 DEF RequestOK, At
<1>5. \A v \in Committed : version[v].number \in Nat
  BY <1>1 DEF TypeOK, VersionRow, Committed
<1>. QED BY <1>2, <1>3, <1>4, <1>5

LEMMA CommitAppends ==
  ASSUME VersionsInv, NEW w \in Requests, CommitVersion(w),
         NEW row, row = Draft(w)
  PROVE  /\ Appends(w, row) /\ TypeOK /\ FilesOK /\ TypeOK'
         /\ Others(w) /\ request'[w].pc = "created"
         /\ request'[w].payload = request[w].payload
<1>1. At(w, "inserted") /\ TypeOK /\ FilesOK
  BY DEF CommitVersion, VersionsInv
<1>2. Draft(w) \in VersionRow /\ Draft(w).number \in Nat \ {0}
      /\ Draft(w).content \in Contents
  BY <1>1, DraftType DEF At
<1>3. Appends(w, row)
  <2>1. version' = [version EXCEPT ![w] = row]
    BY <1>1, InsertedIsNewest DEF CommitVersion
  <2>2. row \in VersionRow /\ row.number > 0
    BY <1>2
  <2>3. w \notin Committed /\ \A v \in Committed : version[v].number < row.number
    BY <1>1, InsertedIsNewest
  <2>. QED BY <2>1, <2>2, <2>3 DEF Appends
<1>4. /\ request' \in [Requests -> Request] /\ Others(w)
      /\ request'[w].pc = "created" /\ request'[w].payload = request[w].payload
  BY <1>1 DEF CommitVersion, Goto, TypeOK, Request, RequestPC, Others
<1>5. TypeOK'
  <2>1. version' \in [Requests -> VersionRow]
    BY <1>1, <1>3 DEF Appends, TypeOK
  <2>2. \A v \in Committed' : version'[v].content \in Contents
    BY <1>1, <1>2, <1>3, AppendedRows DEF TypeOK
  <2>. QED BY <1>4, <2>1, <2>2 DEF TypeOK
<1>. QED BY <1>1, <1>3, <1>4, <1>5

\* A waiting or inserted request is not disturbed by the commit of another.
LEMMA DraftKept ==
  ASSUME TypeOK, FilesOK, NEW w, NEW row, Appends(w, row),
         NEW u \in Requests \ {w}, request'[u] = request[u], RequestOK(u),
         Latest(u) \in Committed \cup {None}
  PROVE  Draft(u)' = Draft(u)
<1>1. Latest(u)' = Latest(u) /\ Target(u)' = Target(u)
      /\ Asks(u, "revert")' = Asks(u, "revert")
  BY DEF Latest, Target, Asks
<1>2. Target(u) \in Committed \cup {None}
  BY DEF RequestOK
<1>. PICK l, t : l = Latest(u) /\ t = Target(u)
  OBVIOUS
<1>3. /\ Number(l)' = Number(l) /\ Number(t)' = Number(t)
      /\ ResolveFiles(Number(l))' = ResolveFiles(Number(l))
      /\ ResolveFiles(Number(t))' = ResolveFiles(Number(t))
  BY <1>2, AppendedRows, EarlierFilesKept
<1>4. /\ Number(Latest(u))' = Number(Latest(u))
      /\ Number(Target(u))' = Number(Target(u))
      /\ ResolveFiles(Number(Latest(u)))' = ResolveFiles(Number(Latest(u)))
      /\ ResolveFiles(Number(Target(u)))' = ResolveFiles(Number(Target(u)))
  <2>1. /\ Number(Latest(u))' = Number(l)' /\ Number(Target(u))' = Number(t)'
        /\ Number(Latest(u)) = Number(l) /\ Number(Target(u)) = Number(t)
    BY <1>1 DEF Number
  <2>2. /\ ResolveFiles(Number(Latest(u)))' = ResolveFiles(Number(l))'
        /\ ResolveFiles(Number(Target(u)))' = ResolveFiles(Number(t))'
    BY <2>1 DEF ResolveFiles, ResolveFile, FileHistory, IsNewest
  <2>. QED BY <1>3, <2>1, <2>2
<1>5. Submitted(u)' = Submitted(u)
  BY <1>1, <1>4 DEF Submitted
<1>6. Asks(u, "revert") => version'[Target(u)].content = version[Target(u)].content
  BY AppendedRows DEF RequestOK
<1>7. ComputeFileDelta(Number(Latest(u)), Submitted(u))'
      = ComputeFileDelta(Number(Latest(u)), Submitted(u))
  BY <1>4, <1>5 DEF ComputeFileDelta
<1>. QED BY <1>1, <1>4, <1>5, <1>6, <1>7 DEF Draft

LEMMA CommitKeepsRequests ==
  ASSUME VersionsInv, NEW w \in Requests, CommitVersion(w),
         NEW row, row = Draft(w)
  PROVE  \A u \in Requests : RequestOK(u)'
<1>1. /\ Appends(w, row) /\ TypeOK /\ FilesOK
      /\ Others(w) /\ request'[w].pc = "created"
      /\ request'[w].payload = request[w].payload
  BY CommitAppends
<1>2. At(w, "inserted") /\ \A u \in Requests : RequestOK(u)
  BY DEF CommitVersion, VersionsInv
<1>3. /\ Committed' = Committed \cup {w} /\ version'[w] = row
      /\ \A v \in Committed : v # w /\ version'[v] = version[v]
      /\ \A v \in Committed \cup {None} : Number(v)' = Number(v)
  BY <1>1, AppendedRows
<1>4. RequestOK(w)'
  BY <1>1, <1>2, <1>3 DEF RequestOK, At, Asks, Target
<1>5. ASSUME NEW u \in Requests \ {w}
      PROVE  RequestOK(u)'
  <2>1. request'[u] = request[u] /\ RequestOK(u)
    BY <1>1, <1>2 DEF Others
  <2>2. /\ At(u, "created")' <=> u \in Committed'
        /\ IF Asks(u, "revert")' THEN Target(u)' \in Committed'
           ELSE /\ Target(u)' = None
                /\ ~At(u, "idle")' => request'[u].payload.content \in Contents
    BY <1>3, <2>1 DEF RequestOK, At, Asks, Target
  <2>3. ASSUME request[u].pc \in {"waiting", "locked", "inserted"}
        PROVE  /\ Latest(u)' \in Committed' \cup {None}
               /\ \/ \A v \in Committed' : version'[v].number <= Number(Latest(u))'
                  \/ Taken(Number(Latest(u)) + 1)'
    <3>1. Latest(u) \in Committed \cup {None} /\ Latest(u)' = Latest(u)
      BY <2>1, <2>3 DEF RequestOK, Latest
    <3>. DEFINE n == Number(Latest(u))
    <3>2. n' = n /\ n \in Nat
      <4>. PICK l : l = Latest(u)
        OBVIOUS
      <4>1. Number(l)' = Number(l) /\ Number(l) \in Nat
        BY <1>1, <1>3, <3>1, BaseTree
      <4>. QED BY <3>1, <4>1 DEF Number
    <3>3. \/ \A v \in Committed : version[v].number <= n
          \/ \E v \in Committed : version[v].number = n + 1
      BY <2>1, <2>3 DEF RequestOK, Taken
    <3>4. Taken(n + 1)' <=> \E v \in Committed' : version'[v].number = n + 1
      BY <3>2 DEF Taken
    <3>5. CASE \E v \in Committed : version[v].number = n + 1
      BY <1>3, <3>1, <3>4, <3>5
    <3>6. CASE /\ \A v \in Committed : version[v].number <= n
               /\ row.number <= n
      BY <1>3, <3>1, <3>2, <3>6
    <3>7. CASE /\ \A v \in Committed : version[v].number <= n
               /\ ~(row.number <= n)
      <4>1. /\ Latest(w) \in Committed \cup {None} /\ Number(Latest(w)) \in Nat
            /\ row.number = Number(Latest(w)) + 1
        BY <1>2, InsertedIsNewest
      <4>2. Number(Latest(w)) <= n
        BY <3>2, <3>7, <4>1 DEF Number
      <4>3. row.number = n + 1
        BY <3>2, <3>7, <4>1, <4>2
      <4>. QED BY <1>3, <3>1, <3>4, <4>3
    <3>. QED BY <3>1, <3>3, <3>5, <3>6, <3>7
  <2>4. ASSUME At(u, "inserted")
        PROVE  /\ request'[u].draft = Draft(u)' /\ ~Taken(request[u].draft.number)'
               /\ \A x \in Requests \ {u} : At(x, "inserted")' =>
                    request'[x].draft.number # request'[u].draft.number
    <3>1. /\ Latest(u) \in Committed \cup {None} /\ request[u].draft = Draft(u)
      BY <2>4, InsertedIsNewest
    <3>2. Draft(u)' = Draft(u)
      BY <1>1, <2>1, <3>1, DraftKept
    <3>3. request[u].draft.number # row.number /\ ~Taken(request[u].draft.number)
      BY <1>2, <2>1, <2>4, InsertedIsNewest DEF RequestOK
    <3>4. ~Taken(request[u].draft.number)'
      BY <1>3, <2>1, <3>3 DEF Taken
    <3>5. \A x \in Requests \ {u} : At(x, "inserted")' =>
                    request'[x].draft.number # request'[u].draft.number
      BY <1>1, <2>1, <2>4 DEF RequestOK, At, Others
    <3>. QED BY <2>1, <3>1, <3>2, <3>4, <3>5
  <2>. QED BY <2>1, <2>2, <2>3, <2>4 DEF RequestOK, At, Asks, Target, Latest
<1>. QED BY <1>4, <1>5

LEMMA CommitKeepsNumbers ==
  ASSUME VersionsInv, NEW w \in Requests, CommitVersion(w),
         NEW row, row = Draft(w)
  PROVE  NumbersContiguous'
<1>1. Appends(w, row) /\ TypeOK /\ NumbersContiguous
  BY CommitAppends DEF VersionsInv
<1>2. /\ Committed' = Committed \cup {w} /\ version'[w] = row
      /\ \A v \in Committed : v # w /\ version'[v] = version[v]
  BY <1>1, AppendedRows
<1>3. \A v \in Committed : version[v].number # row.number
  BY <1>1 DEF Appends, TypeOK, VersionRow, Committed
<1>4. row.number = Number(Latest(w)) + 1 /\ Latest(w) \in Committed \cup {None}
  BY InsertedIsNewest DEF CommitVersion
<1>5. \/ row.number = 1
      \/ \E u \in Committed : version[u].number + 1 = row.number
  BY <1>4 DEF Number
<1>. QED BY <1>1, <1>2, <1>3, <1>5 DEF NumbersContiguous

LEMMA CommitKeepsFiles ==
  ASSUME VersionsInv, NEW w \in Requests, CommitVersion(w),
         NEW row, row = Draft(w)
  PROVE  FilesOK'
<1>1. Appends(w, row) /\ TypeOK /\ FilesOK
  BY CommitAppends
<1>2. /\ Committed' = Committed \cup {w} /\ version'[w] = row
      /\ \A v \in Committed : v # w /\ version'[v] = version[v]
  BY <1>1, AppendedRows
<1>. PICK b : b = Latest(w)
  OBVIOUS
<1>3. row.number = Number(b) + 1 /\ b \in Committed \cup {None}
  BY InsertedIsNewest DEF CommitVersion
<1>. DEFINE HasNewest(rows) == rows # {} => \E u \in rows : IsNewest(u, rows)
<1>4. ASSUME NEW p \in Paths, NEW v \in Committed \cup {None}, NEW k,
             FileHistory(p, k)' = FileHistory(p, Number(v))
      PROVE  HasNewest(FileHistory(p, k))'
  <2>1. HasNewest(FileHistory(p, Number(v)))
    BY <1>1, BaseTree
  <2>2. \A u \in FileHistory(p, Number(v)) : version'[u] = version[u]
    BY <1>2 DEF FileHistory
  <2>. QED BY <1>4, <2>1, <2>2 DEF IsNewest
<1>5. ASSUME NEW p \in Paths, NEW v \in Committed
      PROVE  HasNewest(FileHistory(p, version[v].number))'
  <2>. PICK k : k = version[v].number
    OBVIOUS
  <2>1. Number(v) = k /\ Number(v)' = k /\ version'[v].number = k
    BY <1>1, <1>2, AppendedRows, MarkersAssumption DEF Number, Committed
  <2>2. FileHistory(p, Number(v))' = FileHistory(p, Number(v))
    BY <1>1, EarlierFilesKept
  <2>3. FileHistory(p, k)' = FileHistory(p, Number(v))
    BY <2>1, <2>2 DEF FileHistory
  <2>4. HasNewest(FileHistory(p, k))'
    BY <1>4, <2>3
  <2>. QED BY <2>1, <2>4 DEF FileHistory, IsNewest
<1>6. ASSUME NEW p \in Paths
      PROVE  HasNewest(FileHistory(p, row.number))'
  <2>1. CASE row.files[p] = NoRow
    BY <1>1, <1>3, <1>4, <2>1, NewFiles
  <2>2. CASE row.files[p] # NoRow
    BY <1>1, <1>3, <2>2, NewFiles DEF IsNewest
  <2>. QED BY <2>1, <2>2
<1>7. ASSUME NEW p \in Paths
      PROVE  HasNewest(FileHistory(p, version[w].number))'
  BY <1>2, <1>6 DEF FileHistory, IsNewest
<1>. QED BY <1>2, <1>5, <1>7 DEF FilesOK

\* The tree of the new version is the one submitted, or the one of the version
\* before it.
LEMMA NewTree ==
  ASSUME VersionsInv, NEW w \in Requests, CommitVersion(w),
         NEW row, row = Draft(w), NEW b, b = Latest(w)
  PROVE  ResolveFiles(row.number)' =
           IF Submitted(w) = Unsubmitted THEN ResolveFiles(Number(b)) ELSE Submitted(w)
<1>1. Appends(w, row) /\ TypeOK /\ FilesOK
  BY CommitAppends
<1>2. At(w, "inserted") /\ ~At(w, "idle")
  BY DEF CommitVersion, At
<1>3. row.number = Number(b) + 1 /\ b \in Committed \cup {None}
  BY <1>2, InsertedIsNewest
<1>4. \A p \in Paths : ResolveFile(p, row.number)' =
        IF row.files[p] = NoRow THEN ResolveFile(p, Number(b)) ELSE row.files[p]
  BY <1>1, <1>3, NewFiles
<1>5. CASE Submitted(w) = Unsubmitted
  <2>1. \A p \in Paths : row.files[p] = NoRow
    BY <1>5 DEF Draft
  <2>. QED BY <1>4, <1>5, <2>1 DEF ResolveFiles
<1>6. CASE Submitted(w) # Unsubmitted
  <2>1. Submitted(w) \in Trees
    BY <1>2, <1>6, SubmittedType
  <2>2. \A p \in Paths : Submitted(w)[p] # NoRow
    BY <2>1, MarkersAssumption DEF Trees
  <2>3. \A p \in Paths : row.files[p] =
          IF ResolveFile(p, Number(b)) = Submitted(w)[p] THEN NoRow ELSE Submitted(w)[p]
    BY <1>6 DEF Draft, ComputeFileDelta, ResolveFiles
  <2>4. \A p \in Paths : ResolveFile(p, row.number)' = Submitted(w)[p]
    BY <1>4, <2>2, <2>3
  <2>. QED BY <1>6, <2>1, <2>4 DEF ResolveFiles, Trees
<1>. QED BY <1>5, <1>6

\* What VersionAsRequested says of one version.
AsRequested(v) ==
    LET payload == request[v].payload
        tree == ResolveFiles(version[v].number) IN
    IF payload.kind = "revert"
    THEN /\ tree = ResolveFiles(version[payload.target].number)
         /\ version[v].content = version[payload.target].content
    ELSE /\ version[v].content = Sanitized[payload.content]
         /\ tree = IF payload.files = Unsubmitted
                   THEN ResolveFiles(version[v].number - 1) ELSE payload.files

LEMMA CommitKeepsFormer ==
  ASSUME VersionsInv, NEW w \in Requests, CommitVersion(w),
         NEW row, row = Draft(w), NEW v \in Committed
  PROVE  AsRequested(v)'
<1>1. /\ Appends(w, row) /\ TypeOK /\ FilesOK /\ Others(w)
      /\ AsRequested(v) /\ RequestOK(v)
  BY CommitAppends DEF VersionsInv, VersionAsRequested, AsRequested, Committed
<1>2. v # w /\ version'[v] = version[v] /\ request'[v] = request[v]
  BY <1>1, AppendedRows DEF Others, Committed
<1>3. ASSUME NEW n, NEW x \in Committed \cup {None}, n = Number(x)
      PROVE  ResolveFiles(n)' = ResolveFiles(n)
  <2>1. Number(x)' = n
    BY <1>1, <1>3, AppendedRows
  <2>2. ResolveFiles(Number(x))' = ResolveFiles(Number(x))
    BY <1>1, EarlierFilesKept
  <2>3. ResolveFiles(n)' = ResolveFiles(Number(x))'
    BY <2>1 DEF ResolveFiles, ResolveFile, FileHistory, IsNewest
  <2>. QED BY <1>3, <2>2, <2>3
<1>. PICK n, t, m : n = version[v].number /\ t = request[v].payload.target
                   /\ m = version[t].number
  OBVIOUS
<1>4. ResolveFiles(n)' = ResolveFiles(n)
  BY <1>3, MarkersAssumption DEF Number, Committed
<1>5. ResolveFiles(n - 1)' = ResolveFiles(n - 1)
  <2>1. n \in Nat /\ (n = 1 \/ \E u \in Committed : version[u].number + 1 = n)
    BY DEF VersionsInv, NumbersContiguous, TypeOK, VersionRow, Committed
  <2>2. CASE n = 1
    <3>1. n - 1 = Number(None)
      BY <2>2 DEF Number
    <3>. QED BY <1>3, <3>1
  <2>3. CASE \E u \in Committed : version[u].number + 1 = n
    <3>1. PICK u \in Committed : version[u].number + 1 = n
      BY <2>3
    <3>2. version[u].number \in Nat /\ u # None
      BY <1>1, MarkersAssumption DEF TypeOK, VersionRow, Committed
    <3>3. n - 1 = Number(u)
      BY <3>1, <3>2, <2>1 DEF Number
    <3>. QED BY <1>3, <3>3
  <2>. QED BY <2>1, <2>2, <2>3
<1>6. CASE request[v].payload.kind = "revert"
  <2>1. t \in Committed /\ t # None
    BY <1>1, <1>6, MarkersAssumption DEF RequestOK, Asks, Target, Committed
  <2>2. ResolveFiles(m)' = ResolveFiles(m) /\ version'[t] = version[t]
    BY <1>1, <1>3, <2>1, AppendedRows DEF Number
  <2>3. /\ ResolveFiles(n) = ResolveFiles(m)
        /\ version[v].content = version[t].content
    BY <1>1, <1>6 DEF AsRequested
  <2>4. ResolveFiles(version[v].number)' = ResolveFiles(n)'
    BY <1>2 DEF ResolveFiles, ResolveFile, FileHistory, IsNewest
  <2>5. ResolveFiles(version[request[v].payload.target].number)' = ResolveFiles(m)'
    <3>1. version'[request'[v].payload.target].number = m
      BY <1>2, <2>2
    <3>. QED BY <3>1 DEF ResolveFiles, ResolveFile, FileHistory, IsNewest
  <2>6. version'[v].content = version'[request'[v].payload.target].content
    BY <1>2, <2>2, <2>3
  <2>. QED BY <1>2, <1>4, <1>6, <2>2, <2>3, <2>4, <2>5, <2>6 DEF AsRequested
<1>7. CASE request[v].payload.kind # "revert"
  <2>1. /\ ResolveFiles(version[v].number)' = ResolveFiles(n)'
        /\ ResolveFiles(version[v].number - 1)' = ResolveFiles(n - 1)'
    BY <1>2 DEF ResolveFiles, ResolveFile, FileHistory, IsNewest
  <2>. QED BY <1>1, <1>2, <1>4, <1>5, <1>7, <2>1 DEF AsRequested
<1>. QED BY <1>6, <1>7

LEMMA CommitKeepsNew ==
  ASSUME VersionsInv, NEW w \in Requests, CommitVersion(w),
         NEW row, row = Draft(w)
  PROVE  AsRequested(w)'
<1>1. /\ Appends(w, row) /\ TypeOK /\ FilesOK /\ RequestOK(w)
      /\ request'[w].payload = request[w].payload
  BY CommitAppends DEF VersionsInv
<1>. PICK b, t : b = Latest(w) /\ t = Target(w)
  OBVIOUS
<1>2. /\ row.number = Number(b) + 1 /\ b \in Committed \cup {None}
      /\ Number(b) \in Nat
  BY InsertedIsNewest DEF CommitVersion
<1>3. ResolveFiles(row.number)' =
        IF Submitted(w) = Unsubmitted THEN ResolveFiles(Number(b)) ELSE Submitted(w)
  BY NewTree
<1>4. version'[w] = row
  BY <1>1, AppendedRows
<1>5. ResolveFiles(version[w].number)' = ResolveFiles(row.number)'
  BY <1>4 DEF ResolveFiles, ResolveFile, FileHistory, IsNewest
<1>6. CASE Asks(w, "revert")
  <2>1. t \in Committed /\ t # None
    BY <1>1, <1>6, MarkersAssumption DEF RequestOK, Committed
  <2>2. /\ ResolveFiles(Number(t))' = ResolveFiles(Number(t))
        /\ version'[t] = version[t]
    BY <1>1, <2>1, AppendedRows, EarlierFilesKept
  <2>3. Submitted(w) = ResolveFiles(Number(t)) /\ Submitted(w) # Unsubmitted
    BY <1>6, SubmittedType DEF Submitted, CommitVersion, At
  <2>4. ResolveFiles(version[request[w].payload.target].number)' = ResolveFiles(Number(t))'
    <3>1. version'[request'[w].payload.target].number = Number(t)'
      BY <1>1, <2>1 DEF Target, Number
    <3>. QED BY <3>1 DEF ResolveFiles, ResolveFile, FileHistory, IsNewest
  <2>5. version'[w].content = version'[request'[w].payload.target].content
    BY <1>1, <1>4, <1>6, <2>2 DEF Draft, Target
  <2>. QED BY <1>1, <1>3, <1>5, <1>6, <2>2, <2>3, <2>4, <2>5 DEF AsRequested, Asks
<1>7. CASE ~Asks(w, "revert")
  <2>1. version'[w].content = Sanitized[request'[w].payload.content]
    BY <1>1, <1>4, <1>7 DEF Draft
  <2>2. Submitted(w) = request'[w].payload.files
    BY <1>1, <1>7 DEF Submitted
  <2>3. ASSUME NEW m, m = Number(b)
        PROVE  ResolveFiles(m)' = ResolveFiles(m)
    <3>1. Number(b)' = m
      BY <1>1, <1>2, <2>3, AppendedRows
    <3>2. ResolveFiles(Number(b))' = ResolveFiles(Number(b))
      BY <1>1, <1>2, EarlierFilesKept
    <3>3. ResolveFiles(m)' = ResolveFiles(Number(b))'
      BY <3>1 DEF ResolveFiles, ResolveFile, FileHistory, IsNewest
    <3>. QED BY <2>3, <3>2, <3>3
  <2>4. ResolveFiles(version[w].number - 1)' = ResolveFiles(Number(b))
    <3>. PICK n : n = row.number
      OBVIOUS
    <3>1. n - 1 = Number(b)
      BY <1>2
    <3>2. ResolveFiles(n - 1)' = ResolveFiles(Number(b))
      BY <2>3, <3>1
    <3>3. ResolveFiles(version[w].number - 1)' = ResolveFiles(n - 1)'
      BY <1>4 DEF ResolveFiles, ResolveFile, FileHistory, IsNewest
    <3>. QED BY <3>2, <3>3
  <2>. QED BY <1>1, <1>3, <1>5, <1>7, <2>1, <2>2, <2>4 DEF AsRequested, Asks
<1>. QED BY <1>6, <1>7

LEMMA CommitKeeps ==
  ASSUME VersionsInv, NEW w \in Requests, CommitVersion(w)
  PROVE  VersionsInv'
<1>. PICK row : row = Draft(w)
  OBVIOUS
<1>1. Appends(w, row) /\ TypeOK /\ TypeOK'
  BY CommitAppends
<1>2. Committed' = Committed \cup {w}
  BY <1>1, AppendedRows
<1>3. \A v \in Committed' : AsRequested(v)'
  BY <1>2, CommitKeepsFormer, CommitKeepsNew
<1>4. VersionAsRequested'
  BY <1>3 DEF VersionAsRequested, AsRequested
<1>. QED BY <1>1, <1>4, CommitKeepsRequests, CommitKeepsNumbers, CommitKeepsFiles
         DEF VersionsInv

----------------------------------------------------------------------------
(* The other actions *)

LEMMA ReceiveKeeps ==
  ASSUME VersionsInv, NEW w \in Requests, NEW kind \in Kinds,
         NEW content \in Contents \cup {None}, NEW files \in Trees \cup {Unsubmitted},
         NEW target \in Requests \cup {None},
         IF kind = "revert" THEN target \in Committed
         ELSE target = None /\ content \in Contents,
         Receive(w, kind, content, files, target)
  PROVE  VersionsInv'
<1>1. RequestOK(w) /\ TypeOK /\ At(w, "idle") /\ version' = version
  BY DEF VersionsInv, Receive
<1>. DEFINE payload == [kind |-> kind, content |-> content, files |-> files,
                        target |-> target]
<1>2. request' = [request EXCEPT ![w].pc = "begun", ![w].payload = payload]
  BY DEF Receive
<1>3. payload \in Payload
  BY DEF Payload
<1>4. /\ request' \in [Requests -> Request] /\ Others(w)
      /\ request'[w].pc = "begun" /\ request'[w].payload = payload
  <2>. HIDE DEF payload
  <2>. QED BY <1>1, <1>2, <1>3 DEF TypeOK, Request, RequestPC, Others
<1>5. w \notin Committed
  BY <1>1 DEF RequestOK, At
<1>6. RequestOK(w)'
  BY <1>1, <1>4, <1>5, SameRows DEF RequestOK, At, Asks, Target
<1>. QED BY <1>1, <1>4, <1>5, <1>6, Keeps DEF At

LEMMA SelectKeeps ==
  ASSUME VersionsInv, NEW w \in Requests, SelectLatest(w)
  PROVE  VersionsInv'
<1>1. RequestOK(w) /\ TypeOK /\ At(w, "begun") /\ version' = version
  BY DEF VersionsInv, SelectLatest
<1>2. PICK v \in Requests \cup {None} :
        /\ IF Committed = {} THEN v = None ELSE IsNewest(v, Committed)
        /\ request' = [request EXCEPT ![w].pc = "waiting", ![w].latest = v]
  BY DEF SelectLatest
<1>3. /\ request' \in [Requests -> Request] /\ Others(w)
      /\ request'[w].pc = "waiting" /\ request'[w].latest = v
      /\ request'[w].payload = request[w].payload
  BY <1>1, <1>2 DEF TypeOK, Request, RequestPC, Others
<1>4. /\ v \in Committed \cup {None}
      /\ \A u \in Committed : version[u].number <= Number(v)
  BY <1>2, MarkersAssumption DEF IsNewest, Number, Committed
<1>5. RequestOK(w)'
  <2>1. Latest(w)' = v /\ Number(Latest(w))' = Number(v)
    BY <1>1, <1>3 DEF Latest, Number
  <2>2. \A u \in Committed' : version'[u].number <= Number(Latest(w))'
    BY <1>1, <1>4, <2>1, SameRows
  <2>. QED BY <1>1, <1>3, <1>4, <2>1, <2>2, SameRows DEF RequestOK, At, Asks, Target
<1>. QED BY <1>1, <1>3, <1>5, Keeps DEF At

LEMMA InsertKeeps ==
  ASSUME VersionsInv, NEW w \in Requests, InsertVersion(w)
  PROVE  VersionsInv'
<1>1. RequestOK(w) /\ TypeOK /\ At(w, "locked") /\ version' = version
  BY DEF VersionsInv, InsertVersion, Accepts
<1>. PICK row : row = Draft(w)
  OBVIOUS
<1>2. row \in VersionRow
  BY <1>1, DraftType DEF At
<1>3. request' = [request EXCEPT ![w].pc = "inserted", ![w].draft = row]
  BY DEF InsertVersion
<1>4. /\ request' \in [Requests -> Request] /\ Others(w)
      /\ request'[w].pc = "inserted" /\ request'[w].latest = request[w].latest
      /\ request'[w].payload = request[w].payload /\ request'[w].draft = row
  BY <1>1, <1>2, <1>3 DEF TypeOK, Request, RequestPC, Others
<1>5. /\ ~Taken(row.number)
      /\ \A u \in Requests \ {w} : At(u, "inserted") => request[u].draft.number # row.number
  BY DEF InsertVersion, Reserved
<1>6. Draft(w)' = row
  BY <1>1, <1>4, SameDraft
<1>7. RequestOK(w)'
  <2>1. /\ Latest(w)' = Latest(w) /\ Number(Latest(w))' = Number(Latest(w))
        /\ Taken(Number(Latest(w)) + 1)' = Taken(Number(Latest(w)) + 1)
    BY <1>1, <1>4 DEF Latest, Number, Taken, Committed
  <2>2. ~Taken(request[w].draft.number)'
    BY <1>1, <1>4, <1>5 DEF Taken, Committed
  <2>3. \A u \in Requests \ {w} : At(u, "inserted")' =>
          request'[u].draft.number # request'[w].draft.number
    BY <1>4, <1>5 DEF Others, At
  <2>. QED BY <1>1, <1>4, <1>6, <2>1, <2>2, <2>3, SameRows
           DEF RequestOK, At, Asks, Target
<1>. QED BY <1>1, <1>4, <1>5, <1>7, Keeps DEF At

LEMMA InitInv == Init => VersionsInv
<1>. SUFFICES ASSUME Init PROVE VersionsInv
  OBVIOUS
<1>1. Committed = {}
  BY DEF Init, Committed, Uncommitted
<1>2. TypeOK
  <2>1. Uncommitted \in VersionRow
    BY DEF Uncommitted, VersionRow, FileRows
  <2>2. NoPayload \in Payload
    BY DEF NoPayload, Payload, Kinds
  <2>. QED BY <1>1, <2>1, <2>2 DEF Init, TypeOK, Request, RequestPC
<1>3. \A w \in Requests : RequestOK(w)
  BY <1>1 DEF Init, RequestOK, At, Asks, Target, NoPayload
<1>. QED BY <1>1, <1>2, <1>3
         DEF VersionsInv, FilesOK, NumbersContiguous, VersionAsRequested

LEMMA NextInv == VersionsInv /\ [Next]_vars => VersionsInv'
<1>. SUFFICES ASSUME VersionsInv, [Next]_vars PROVE VersionsInv'
  OBVIOUS
<1>1. CASE UNCHANGED vars
  <2>1. version' = version /\ request' = request
    BY <1>1
  <2>2. TypeOK' /\ NumbersContiguous' /\ VersionAsRequested' /\ FilesOK'
    BY <2>1, SameRows DEF VersionsInv, TypeOK, NumbersContiguous, VersionAsRequested
  <2>3. ASSUME NEW u \in Requests
        PROVE  RequestOK(u)'
    <3>1. Draft(u)' = Draft(u) /\ RequestOK(u)
      BY <2>1, SameDraft DEF VersionsInv
    <3>. QED BY <2>1, <3>1, SameRows DEF RequestOK, At, Asks, Target, Latest
  <2>. QED BY <2>2, <2>3 DEF VersionsInv
<1>2. ASSUME NEW w \in Requests, CreateVersion(w) \/ ImportSkill(w) \/ RevertVersion(w)
      PROVE  VersionsInv'
  <2>1. CASE CreateVersion(w)
    BY <2>1, ReceiveKeeps DEF CreateVersion, Kinds
  <2>2. CASE ImportSkill(w)
    BY <2>2, ReceiveKeeps DEF ImportSkill, Kinds
  <2>3. CASE RevertVersion(w)
    BY <2>3, ReceiveKeeps DEF RevertVersion, Kinds, Committed
  <2>. QED BY <1>2, <2>1, <2>2, <2>3
<1>3. ASSUME NEW w \in Requests, Proceed(w)
      PROVE  VersionsInv'
  <2>1. CASE SelectLatest(w)
    BY <2>1, SelectKeeps
  <2>2. CASE LockLatest(w)
    BY <2>2, MoveKeeps DEF LockLatest, RequestPC, At
  <2>3. CASE RefuseLatest(w)
    BY <2>3, MoveKeeps DEF RefuseLatest, RequestPC, At
  <2>4. CASE RefuseUnchanged(w)
    BY <2>4, MoveKeeps DEF RefuseUnchanged, RequestPC, At
  <2>5. CASE InsertVersion(w)
    BY <2>5, InsertKeeps
  <2>6. CASE InsertConflicts(w)
    BY <2>6, MoveKeeps DEF InsertConflicts, Accepts, RequestPC, At
  <2>7. CASE CommitVersion(w)
    BY <2>7, CommitKeeps
  <2>. QED BY <1>3, <2>1, <2>2, <2>3, <2>4, <2>5, <2>6, <2>7 DEF Proceed
<1>4. ASSUME NEW w \in Requests, WorkerDies(w)
      PROVE  VersionsInv'
  BY <1>4, MoveKeeps DEF WorkerDies, RequestPC, Open, At
<1>. QED BY <1>1, <1>2, <1>3, <1>4 DEF Next

----------------------------------------------------------------------------
(* Theorems *)

\* The inductive invariant: the types, what an open transaction knows of the
\* history, and the two properties below.
THEOREM VersionsInvariant == Spec => []VersionsInv
BY InitInv, NextInv, PTL DEF Spec

\* Versions are numbered without a gap and without a duplicate, whatever writers
\* interleave, die or start on a skill that has no version to lock yet.
THEOREM NumbersAreContiguous == Spec => []NumbersContiguous
BY VersionsInvariant, PTL DEF VersionsInv

\* Every version shows what its request asked for, at any later time, although only
\* its differences are stored.
THEOREM VersionsAreAsRequested == Spec => []VersionAsRequested
BY VersionsInvariant, PTL DEF VersionsInv

----------------------------------------------------------------------------
(* The history *)

\* The types of everything that is stored or under way.
THEOREM TypeCorrect == Spec => []TypeOK
BY VersionsInvariant, PTL DEF VersionsInv

Entry(n) == [content |-> version[Numbered(n)].content, tree |-> ResolveFiles(n),
             from |-> version[Numbered(n)].from]

Log == [n \in 1 .. Cardinality(Committed) |-> Entry(n)]

\* The versions are numbered by the first numbers there are.
CountOK ==
    /\ IsFiniteSet(Committed)
    /\ \A v \in Committed : version[v].number <= Cardinality(Committed)
    /\ \A n \in 1 .. Cardinality(Committed) :
           \E v \in Committed : version[v].number = n

\* Nobody inserts a revert to the version that is the latest.
AcceptedOK == \A w \in Requests : At(w, "inserted") => ~RevertsToLatest(w)

HistoryInv == VersionsInv /\ CountOK /\ AcceptedOK

LEMMA InitHistory == Init => CountOK /\ AcceptedOK
<1>. SUFFICES ASSUME Init PROVE CountOK /\ AcceptedOK
  OBVIOUS
<1>1. Committed = {}
  BY DEF Init, Committed, Uncommitted
<1>2. Cardinality(Committed) = 0 /\ IsFiniteSet(Committed)
  BY <1>1, FS_EmptySet
<1>. QED BY <1>1, <1>2 DEF Init, CountOK, AcceptedOK, At

\* An insert was accepted, and what it was accepted for is not changed any more.
LEMMA AcceptedNext ==
  ASSUME TypeOK, AcceptedOK, [Next]_vars
  PROVE  AcceptedOK'
<1>. SUFFICES ASSUME NEW u \in Requests, At(u, "inserted")'
              PROVE  ~RevertsToLatest(u)'
  BY DEF AcceptedOK
<1>. request \in [Requests -> Request]
  BY DEF TypeOK
<1>1. SUFFICES /\ At(u, "inserted") \/ Accepts(u)
               /\ request'[u].payload = request[u].payload
               /\ request'[u].latest = request[u].latest
  BY DEF AcceptedOK, Accepts, RevertsToLatest, Asks, Target, Latest
<1>2. CASE \E w \in Requests, pc \in RequestPC \ {"inserted"} : Goto(w, pc)
  BY <1>2 DEF Goto, At, Request
<1>3. CASE \E w \in Requests : \E kind, content, files, target :
              Receive(w, kind, content, files, target)
  BY <1>3 DEF Receive, At, Request
<1>4. CASE \E w \in Requests : SelectLatest(w)
  BY <1>4 DEF SelectLatest, At, Request
<1>5. CASE \E w \in Requests : InsertVersion(w)
  <2>1. PICK w \in Requests : InsertVersion(w)
    BY <1>5
  <2>. PICK row : row = Draft(w)
    OBVIOUS
  <2>2. /\ request' = [request EXCEPT ![w].pc = "inserted", ![w].draft = row]
        /\ Accepts(w)
    BY <2>1 DEF InsertVersion
  <2>. QED BY <2>2 DEF At, Request
<1>6. CASE UNCHANGED vars
  BY <1>6 DEF At
<1>. QED
  BY <1>2, <1>3, <1>4, <1>5, <1>6
  DEF Next, CreateVersion, ImportSkill, RevertVersion, Proceed, LockLatest, RefuseLatest,
      RefuseUnchanged, InsertConflicts, CommitVersion, WorkerDies, RequestPC

\* A commit adds the next number.
LEMMA CommitCounts ==
  ASSUME VersionsInv, CountOK, NEW w \in Requests, CommitVersion(w),
         NEW row, row = Draft(w)
  PROVE  /\ Cardinality(Committed) \in Nat
         /\ row.number = Cardinality(Committed) + 1
         /\ Cardinality(Committed') = Cardinality(Committed) + 1
         /\ CountOK'
<1>. DEFINE k == Cardinality(Committed)
<1>1. Appends(w, row) /\ TypeOK /\ w \notin Committed
  BY CommitAppends DEF Appends
<1>2. /\ Committed' = Committed \cup {w} /\ version'[w] = row
      /\ \A v \in Committed : v # w /\ version'[v] = version[v]
  BY <1>1, AppendedRows
<1>3. /\ k \in Nat /\ Cardinality(Committed') = k + 1 /\ IsFiniteSet(Committed')
  BY <1>1, <1>2, FS_AddElement, FS_CardinalityType DEF CountOK
<1>4. /\ row.number = Number(Latest(w)) + 1 /\ Number(Latest(w)) \in Nat
      /\ Latest(w) \in Committed \cup {None}
      /\ \A v \in Committed : version[v].number < row.number
  BY InsertedIsNewest DEF CommitVersion
<1>5. Number(Latest(w)) <= k
  BY <1>3, <1>4 DEF CountOK, Number
<1>6. k < row.number
  <2>1. CASE k = 0
    BY <1>4, <2>1
  <2>2. CASE k # 0
    <3>1. PICK v \in Committed : version[v].number = k
      BY <1>3, <2>2 DEF CountOK
    <3>. QED BY <1>4, <3>1
  <2>. QED BY <2>1, <2>2
<1>7. row.number = k + 1
  BY <1>3, <1>4, <1>5, <1>6
<1>8. \A v \in Committed' : version'[v].number <= k + 1
  <2>. SUFFICES ASSUME NEW v \in Committed PROVE version[v].number <= k + 1
    BY <1>2, <1>7, <1>3
  <2>1. version[v].number \in Nat /\ version[v].number <= k
    BY <1>1 DEF TypeOK, VersionRow, Committed, CountOK
  <2>. QED BY <1>3, <2>1
<1>9. \A n \in 1 .. k + 1 : \E v \in Committed' : version'[v].number = n
  <2>. SUFFICES ASSUME NEW n \in 1 .. k + 1
                PROVE  \E v \in Committed' : version'[v].number = n
    OBVIOUS
  <2>1. CASE n = k + 1
    BY <1>2, <1>7, <2>1
  <2>2. CASE n # k + 1
    <3>1. n \in 1 .. k
      BY <1>3, <2>2
    <3>2. PICK v \in Committed : version[v].number = n
      BY <3>1 DEF CountOK
    <3>. QED BY <1>2, <3>2
  <2>. QED BY <2>1, <2>2
<1>. QED BY <1>3, <1>7, <1>8, <1>9 DEF CountOK

LEMMA CountNext ==
  ASSUME VersionsInv, CountOK, [Next]_vars
  PROVE  CountOK'
<1>1. CASE \E w \in Requests : CommitVersion(w)
  BY <1>1, CommitCounts
<1>2. CASE version' = version
  BY <1>2, SameRows DEF CountOK
<1>. QED
  BY <1>1, <1>2
  DEF Next, CreateVersion, ImportSkill, RevertVersion, Receive, Proceed, SelectLatest,
      LockLatest, RefuseLatest, RefuseUnchanged, InsertVersion, InsertConflicts, WorkerDies

LEMMA NumberedIs ==
  ASSUME NumbersContiguous, NEW v \in Committed, NEW n, version[v].number = n
  PROVE  Numbered(n) = v
BY DEF Numbered, NumbersContiguous

\* What is stored of the versions there are stays as it is.
LEMMA EntriesKept ==
  ASSUME VersionsInv, VersionsInv', CountOK, NEW w \in Requests, CommitVersion(w),
         NEW n \in 1 .. Cardinality(Committed)
  PROVE  Entry(n)' = Entry(n)
<1>. PICK row : row = Draft(w)
  OBVIOUS
<1>1. Appends(w, row) /\ TypeOK /\ FilesOK
  BY CommitAppends
<1>2. PICK v \in Committed : version[v].number = n
  BY DEF CountOK
<1>3. /\ v \in Committed' /\ version'[v] = version[v] /\ v # None
      /\ Number(v) = n /\ Number(v)' = n
  BY <1>1, <1>2, AppendedRows, MarkersAssumption DEF Number, Committed
<1>4. Numbered(n) = v
  BY <1>2, NumberedIs DEF VersionsInv
<1>5. Numbered(n)' = v
  BY <1>2, <1>3 DEF VersionsInv, NumbersContiguous, Numbered
<1>6. ResolveFiles(n)' = ResolveFiles(n)
  <2>1. ResolveFiles(Number(v))' = ResolveFiles(Number(v))
    BY <1>1, EarlierFilesKept
  <2>2. ResolveFiles(n)' = ResolveFiles(Number(v))'
    BY <1>3 DEF ResolveFiles, ResolveFile, FileHistory, IsNewest
  <2>. QED BY <1>3, <2>1, <2>2
<1>. QED BY <1>3, <1>4, <1>5, <1>6 DEF Entry

\* The entry of a version that is committed.
LEMMA EntryAdded ==
  ASSUME VersionsInv, VersionsInv', CountOK, NEW w \in Requests, CommitVersion(w),
         NEW row, row = Draft(w)
  PROVE  Entry(row.number)' =
           [content |-> row.content,
            tree |-> IF Submitted(w) = Unsubmitted THEN ResolveFiles(Number(Latest(w)))
                     ELSE Submitted(w),
            from |-> row.from]
<1>1. Appends(w, row) /\ TypeOK
  BY CommitAppends
<1>2. w \in Committed' /\ version'[w] = row
  BY <1>1, AppendedRows
<1>3. Numbered(row.number)' = w
  BY <1>2 DEF VersionsInv, NumbersContiguous, Numbered
<1>4. ResolveFiles(row.number)' =
        IF Submitted(w) = Unsubmitted THEN ResolveFiles(Number(Latest(w)))
        ELSE Submitted(w)
  BY NewTree
<1>. QED BY <1>2, <1>3, <1>4 DEF Entry

\* A commit appends to the history, whoever else is under way.
LEMMA CommitAppendsEntry ==
  ASSUME VersionsInv, VersionsInv', CountOK, NEW w \in Requests, CommitVersion(w),
         NEW row, row = Draft(w)
  PROVE  Log' = Append(Log, Entry(row.number)')
<1>. DEFINE k == Cardinality(Committed)
<1>1. k \in Nat /\ row.number = k + 1 /\ Cardinality(Committed') = k + 1
  BY CommitCounts
<1>2. \A n \in 1 .. k : Entry(n)' = Entry(n)
  BY EntriesKept
<1>3. Log' = [n \in 1 .. k + 1 |-> Entry(n)']
  BY <1>1 DEF Log
<1>4. Log = [n \in 1 .. k |-> Entry(n)]
  BY DEF Log
<1>. QED BY <1>1, <1>2, <1>3, <1>4

\* What a revert commits is the entry of its target, which is not the latest.
LEMMA RevertImplements ==
  ASSUME HistoryInv, HistoryInv', NEW w \in Requests, CommitVersion(w), Asks(w, "revert")
  PROVE  \E n \in 1 .. Len(Log) - 1 : Log' = Append(Log, [Log[n] EXCEPT !.from = n])
<1>. DEFINE k == Cardinality(Committed)
            n == Number(Target(w))
<1>. PICK row : row = Draft(w)
  OBVIOUS
<1>1. /\ VersionsInv /\ VersionsInv' /\ CountOK /\ TypeOK /\ RequestOK(w)
      /\ At(w, "inserted")
  BY DEF HistoryInv, VersionsInv, CommitVersion
<1>2. k \in Nat /\ row.number = k + 1
  BY <1>1, CommitCounts
<1>3. Target(w) \in Committed /\ Target(w) # None
  BY <1>1, MarkersAssumption DEF RequestOK, Committed
<1>4. n = version[Target(w)].number /\ n \in 1 .. k
  BY <1>1, <1>3 DEF Number, CountOK, TypeOK, VersionRow, Committed
<1>5. n # k
  <2>1. Number(Latest(w)) = k /\ Latest(w) \in Committed \cup {None}
    BY <1>1, <1>2, InsertedIsNewest
  <2>2. Target(w) # Latest(w)
    BY <1>1 DEF HistoryInv, AcceptedOK, RevertsToLatest
  <2>3. CASE Latest(w) = None
    BY <1>4, <2>1, <2>3 DEF Number
  <2>4. CASE Latest(w) \in Committed
    <3>1. version[Latest(w)].number = k
      BY <2>1, <2>4, MarkersAssumption DEF Number, Committed
    <3>. QED BY <1>1, <1>3, <1>4, <2>2, <2>4, <3>1 DEF VersionsInv, NumbersContiguous
  <2>. QED BY <2>1, <2>3, <2>4
<1>6. Entry(n) = [content |-> version[Target(w)].content, tree |-> ResolveFiles(n),
                  from |-> version[Target(w)].from]
  <2>1. Numbered(n) = Target(w)
    BY <1>1, <1>3, <1>4, NumberedIs DEF VersionsInv
  <2>. QED BY <2>1 DEF Entry
<1>7. Entry(row.number)' = [content |-> version[Target(w)].content,
                            tree |-> ResolveFiles(n), from |-> n]
  <2>1. /\ row.content = version[Target(w)].content /\ row.from = n
        /\ Submitted(w) = ResolveFiles(n)
    BY DEF Draft, Submitted
  <2>2. Submitted(w) # Unsubmitted
    BY <1>1, SubmittedType DEF At
  <2>. QED BY <1>1, <2>1, <2>2, EntryAdded
<1>. HIDE DEF n
<1>8. Log[n] = Entry(n) /\ Len(Log) = k
  BY <1>2, <1>4 DEF Log
<1>9. Entry(row.number)' = [Log[n] EXCEPT !.from = n]
  BY <1>6, <1>7, <1>8
<1>10. Log' = Append(Log, Entry(row.number)')
  BY <1>1, CommitAppendsEntry
<1>11. n \in 1 .. Len(Log) - 1
  BY <1>2, <1>4, <1>5, <1>8
<1>12. Log' = Append(Log, [Log[n] EXCEPT !.from = n])
  BY <1>9, <1>10
<1>. QED BY <1>11, <1>12

\* What another request commits is content and a tree of its own.
LEMMA WriteImplements ==
  ASSUME HistoryInv, HistoryInv', NEW w \in Requests, CommitVersion(w), ~Asks(w, "revert")
  PROVE  \E content \in Contents, tree \in Trees :
           Log' = Append(Log, [content |-> content, tree |-> tree, from |-> 0])
<1>. PICK row, b : row = Draft(w) /\ b = Latest(w)
  OBVIOUS
<1>1. /\ VersionsInv /\ VersionsInv' /\ CountOK /\ TypeOK /\ FilesOK /\ RequestOK(w)
      /\ At(w, "inserted")
  BY DEF HistoryInv, VersionsInv, CommitVersion
<1>. DEFINE tree == IF Submitted(w) = Unsubmitted THEN ResolveFiles(Number(b))
                    ELSE Submitted(w)
<1>2. row.content \in Contents
  BY <1>1, DraftType DEF At
<1>3. tree \in Trees
  <2>1. b \in Committed \cup {None}
    BY <1>1, InsertedIsNewest
  <2>2. ResolveFiles(Number(b)) \in Trees
    BY <1>1, <2>1, BaseTree
  <2>3. Submitted(w) \in Trees \cup {Unsubmitted}
    BY <1>1, SubmittedType DEF At
  <2>. QED BY <2>2, <2>3
<1>4. row.from = 0
  BY <1>1 DEF RequestOK, Draft, Number
<1>5. Entry(row.number)' = [content |-> row.content, tree |-> tree, from |-> 0]
  BY <1>1, <1>4, EntryAdded
<1>6. Log' = Append(Log, Entry(row.number)')
  BY <1>1, CommitAppendsEntry
<1>. QED BY <1>2, <1>3, <1>5, <1>6

LEMMA StepImplements ==
  ASSUME HistoryInv, HistoryInv', [Next]_vars
  PROVE  \/ \E content \in Contents, tree \in Trees :
              Log' = Append(Log, [content |-> content, tree |-> tree, from |-> 0])
         \/ \E n \in 1 .. Len(Log) - 1 : Log' = Append(Log, [Log[n] EXCEPT !.from = n])
         \/ Log' = Log
<1>1. CASE \E w \in Requests : CommitVersion(w)
  BY <1>1, RevertImplements, WriteImplements
<1>2. CASE version' = version
  <2>1. /\ Committed' = Committed /\ \A n : Numbered(n)' = Numbered(n)
        /\ \A n : ResolveFiles(n)' = ResolveFiles(n)
    BY <1>2, SameRows DEF Numbered
  <2>. QED BY <1>2, <2>1 DEF Log, Entry
<1>. QED
  BY <1>1, <1>2
  DEF Next, CreateVersion, ImportSkill, RevertVersion, Receive, Proceed, SelectLatest,
      LockLatest, RefuseLatest, RefuseUnchanged, InsertVersion, InsertConflicts, WorkerDies

\* The versions of a skill are an append-only history, for any number of writers that
\* wait, conflict or die, over any contents and files: a version never changes, and a
\* revert adds a copy of one that is not the latest.
THEOREM VersionsImplementHistory == Spec => ImplementsHistory
<1>1. Init => History!Init
  <2>. SUFFICES ASSUME Init PROVE History!Init
    OBVIOUS
  <2>1. Committed = {}
    BY DEF Init, Committed, Uncommitted
  <2>2. Cardinality(Committed) = 0
    BY <2>1, FS_EmptySet
  <2>. QED BY <2>2 DEF History!Init
<1>2. HistoryInv /\ HistoryInv' /\ [Next]_vars => [History!Next]_Log
  BY StepImplements DEF History!Next, History!Write, History!Revert, Log, Entry
<1>3. Spec => []HistoryInv
  <2>1. Init => CountOK /\ AcceptedOK
    BY InitHistory
  <2>2. VersionsInv /\ CountOK /\ AcceptedOK /\ [Next]_vars => CountOK' /\ AcceptedOK'
    BY CountNext, AcceptedNext DEF VersionsInv
  <2>. QED BY <2>1, <2>2, VersionsInvariant, PTL DEF Spec, HistoryInv
<1>. QED BY <1>1, <1>2, <1>3, PTL DEF Spec, ImplementsHistory, History!Spec, Log, Entry

=============================================================================
