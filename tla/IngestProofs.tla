----------------------------- MODULE IngestProofs -----------------------------
(***************************************************************************)
(* Theorems about Ingest, for any number of pollers, sources, articles and  *)
(* faults, and any page size.                                               *)
(***************************************************************************)
EXTENDS Ingest, TLAPS

-----------------------------------------------------------------------------
(* The invariant. *)

\* A page begins where its poller was told to and ends within the offer.
PagesOffered ==
  \A p \in Pollers : page[p] # NoPage =>
    /\ page[p].from = claimed[p][page[p].source]
    /\ page[p].to <= offered[page[p].source]

\* No article is without its job: both are inserted in one transaction.
AllQueued == articles \subseteq queued

IngestInv == TypeOK /\ PagesOffered /\ AllQueued /\ NothingSkipped

\* A poller is rid of source s, and of no other.
LEMMA DropEffect ==
  ASSUME TypeOK, NEW p \in Pollers, NEW s, Drop(p, s)
  PROVE  /\ DOMAIN claimed' = Pollers
         /\ DOMAIN claimed'[p] = DOMAIN claimed[p] \ {s}
         /\ \A r \in DOMAIN claimed'[p] : claimed'[p][r] = claimed[p][r]
         /\ \A q \in Pollers \ {p} : claimed'[q] = claimed[q]
  BY DEF Drop, TypeOK

\* A page that is stored is all that its poller has asked for, and its poller
\* has asked for nothing that the cursor had not passed.
LEMMA StoredPage ==
  ASSUME IngestInv, NEW p \in Pollers, page[p] # NoPage
  PROVE  /\ page[p] \in Page /\ page[p].source \in Sources
         /\ page[p].from \in Nat /\ page[p].to \in Nat
         /\ page[p].from <= pageIdFrom[page[p].source]
         /\ page[p].to <= offered[page[p].source]
         /\ pageIdFrom[page[p].source] \in Nat
<1>1. /\ page[p] \in Page /\ page[p].source \in DOMAIN claimed[p]
      /\ \A s \in DOMAIN claimed[p] : claimed[p][s] \in 0 .. pageIdFrom[s]
      /\ pageIdFrom \in [Sources -> Nat]
  BY DEF IngestInv, TypeOK
<1>2. /\ page[p].source \in Sources
      /\ page[p].from \in Nat /\ page[p].to \in Nat
  BY <1>1 DEF Page
<1>3. pageIdFrom[page[p].source] \in Nat
  BY <1>1, <1>2
<1>4. page[p].from \in 0 .. pageIdFrom[page[p].source]
  BY <1>1 DEF IngestInv, PagesOffered
<1>. QED
  BY <1>1, <1>2, <1>3, <1>4 DEF IngestInv, PagesOffered

\* The transaction that stores a page.
LEMMA StoreStep ==
  ASSUME IngestInv, NEW p \in Pollers, Store(p)
  PROVE  IngestInv'
<1> DEFINE q == page[p]
           s == q.source
<1>1. /\ q \in Page /\ s \in Sources /\ q.from \in Nat /\ q.to \in Nat
      /\ q.from <= pageIdFrom[s] /\ q.to <= offered[s] /\ pageIdFrom[s] \in Nat
  BY StoredPage DEF Store
<1>2. /\ DOMAIN claimed' = Pollers
      /\ DOMAIN claimed'[p] = DOMAIN claimed[p] \ {s}
      /\ \A r \in DOMAIN claimed'[p] : claimed'[p][r] = claimed[p][r]
      /\ \A o \in Pollers \ {p} : claimed'[o] = claimed[o]
  BY DropEffect DEF Store, IngestInv
<1>3. /\ articles' = articles \cup Items(q)
      /\ queued' = queued \cup (Items(q) \ articles)
      /\ pageIdFrom' = [pageIdFrom EXCEPT ![s] = Cursor(q)]
      /\ page' = [page EXCEPT ![p] = NoPage]
      /\ UNCHANGED <<offered, due, faults>>
  BY DEF Store
<1>4. /\ Cursor(q) \in Nat /\ Cursor(q) >= pageIdFrom[s]
      /\ Cursor(q) = pageIdFrom[s] \/ Cursor(q) = q.to
  BY <1>1 DEF Cursor
<1>5. /\ pageIdFrom' \in [Sources -> Nat]
      /\ \A r \in Sources : pageIdFrom'[r] >= pageIdFrom[r]
      /\ \A r \in Sources \ {s} : pageIdFrom'[r] = pageIdFrom[r]
      /\ pageIdFrom'[s] = Cursor(q)
  BY <1>1, <1>3, <1>4 DEF IngestInv, TypeOK
<1>6. \A x \in Items(q) : \E i \in q.from + 1 .. q.to : x = <<s, i>>
  BY DEF Items
<1> HIDE DEF q, s
<1>7. \A x \in articles' : x \in Sources \X Nat /\ x[2] \in 1 .. offered'[x[1]]
  <2>1. \A x \in Items(q) : x \in Sources \X Nat /\ x[2] \in 1 .. offered[x[1]]
    BY <1>1, <1>6 DEF IngestInv, TypeOK
  <2>. QED
    BY <1>3, <2>1 DEF IngestInv, TypeOK
<1>8. \A o \in Pollers : page'[o] = NoPage \/ (page'[o] = page[o] /\ o # p)
  BY <1>3 DEF IngestInv, TypeOK
<1>9. AllQueued' /\ queued' \subseteq articles'
  BY <1>3 DEF IngestInv, TypeOK, AllQueued
<1>10. PagesOffered'
  BY <1>2, <1>3, <1>8 DEF IngestInv, PagesOffered
<1>11. NothingSkipped'
  <2> SUFFICES ASSUME NEW r \in Sources, NEW i \in 1 .. pageIdFrom'[r]
               PROVE  <<r, i>> \in queued'
    BY DEF NothingSkipped
  <2>1. CASE i <= pageIdFrom[r]
    <3>1. i \in 1 .. pageIdFrom[r]
      BY <1>5, <2>1 DEF IngestInv, TypeOK
    <3>. QED
      BY <1>3, <3>1 DEF IngestInv, NothingSkipped
  <2>2. CASE ~ (i <= pageIdFrom[r])
    <3>1. r = s /\ i \in q.from + 1 .. q.to
      BY <1>1, <1>4, <1>5, <2>2
    <3>2. <<r, i>> \in articles'
      BY <1>3, <3>1 DEF Items, s
    <3>. QED
      BY <1>9, <3>2 DEF AllQueued
  <2>. QED
    BY <2>1, <2>2
<1>12. TypeOK'
  <2>1. ASSUME NEW o \in Pollers
        PROVE  /\ DOMAIN claimed'[o] \subseteq Sources
               /\ \A r \in DOMAIN claimed'[o] : claimed'[o][r] \in 0 .. pageIdFrom'[r]
    <3>1. /\ DOMAIN claimed'[o] \subseteq DOMAIN claimed[o]
          /\ \A r \in DOMAIN claimed'[o] : claimed'[o][r] = claimed[o][r]
      BY <1>2
    <3>2. /\ DOMAIN claimed[o] \subseteq Sources
          /\ \A r \in DOMAIN claimed[o] : claimed[o][r] \in 0 .. pageIdFrom[r]
          /\ pageIdFrom \in [Sources -> Nat]
      BY DEF IngestInv, TypeOK
    <3>. QED
      BY <1>5, <3>1, <3>2
  <2>2. ASSUME NEW o \in Pollers
        PROVE  /\ page'[o] \in Page \cup {NoPage}
               /\ page'[o] # NoPage => page'[o].source \in DOMAIN claimed'[o]
    BY <1>2, <1>8 DEF IngestInv, TypeOK
  <2>. QED
    BY <1>2, <1>3, <1>5, <1>7, <1>9, <2>1, <2>2 DEF IngestInv, TypeOK
<1>. QED
  BY <1>9, <1>10, <1>11, <1>12 DEF IngestInv

ClaimOK(p) ==
  /\ DOMAIN claimed[p] \subseteq Sources
  /\ \A s \in DOMAIN claimed[p] : claimed[p][s] \in 0 .. pageIdFrom[s]

PageOK(p) ==
  /\ page[p] \in Page \cup {NoPage}
  /\ page[p] # NoPage =>
       /\ page[p].source \in DOMAIN claimed[p]
       /\ page[p].from = claimed[p][page[p].source]
       /\ page[p].to <= offered[page[p].source]

\* Only Store writes to the tables of articles, jobs and cursors: a step that
\* leaves them alone has to keep to the types and to the offer.
LEMMA QuietTables ==
  ASSUME IngestInv, UNCHANGED <<pageIdFrom, articles, queued>>,
         offered' \in [Sources -> 0 .. MaxItems],
         \A s \in Sources : offered'[s] >= offered[s],
         due' \subseteq Sources, faults' \in 0 .. MaxFaults,
         DOMAIN claimed' = Pollers, DOMAIN page' = Pollers,
         \A p \in Pollers : ClaimOK(p)' /\ PageOK(p)'
  PROVE  IngestInv'
<1> USE DEF IngestInv, ClaimOK, PageOK
<1>1. ASSUME NEW x \in articles'
      PROVE  x \in Sources \X Nat /\ x[2] \in 1 .. offered'[x[1]]
  <2>1. x \in Sources \X Nat /\ x[2] \in 1 .. offered[x[1]]
    BY DEF TypeOK
  <2>2. /\ x[1] \in Sources /\ offered[x[1]] \in Nat /\ offered'[x[1]] \in Nat
        /\ offered'[x[1]] >= offered[x[1]]
    BY <2>1, IngestAssumption DEF TypeOK
  <2>. QED
    BY <2>1, <2>2
<1>2. TypeOK'
  BY <1>1 DEF TypeOK
<1>3. PagesOffered' /\ AllQueued' /\ NothingSkipped'
  BY DEF PagesOffered, AllQueued, NothingSkipped
<1>. QED
  BY <1>2, <1>3

\* The invariant behind the theorems below.
LEMMA IngestInvariant == Spec => []IngestInv
<1>1. Init => IngestInv
  BY IngestAssumption
    DEF Init, NoClaim, IngestInv, TypeOK, PagesOffered, AllQueued, NothingSkipped
<1>2. IngestInv /\ [Next]_vars => IngestInv'
  <2> SUFFICES ASSUME IngestInv, [Next]_vars PROVE IngestInv'
    OBVIOUS
  <2>0. /\ TypeOK /\ PagesOffered
        /\ \A p \in Pollers : ClaimOK(p) /\ PageOK(p)
        /\ \A s \in Sources : offered[s] \in Nat /\ pageIdFrom[s] \in Nat
    BY IngestAssumption DEF IngestInv, TypeOK, PagesOffered, ClaimOK, PageOK
  <2>1. ASSUME NEW p \in Pollers, Claim(p) PROVE IngestInv'
    <3>1. PICK S \in SUBSET due :
            /\ claimed' = [claimed EXCEPT ![p] = [s \in S |-> pageIdFrom[s]]]
            /\ due' = due \ S
      BY <2>1 DEF Claim
    <3>2. UNCHANGED <<offered, pageIdFrom, articles, queued, page, faults>>
      BY <2>1 DEF Claim
    <3>3. page[p] = NoPage
      BY <2>0, <2>1 DEF Claim, NoClaim, TypeOK
    <3>4. \A q \in Pollers : claimed'[q] =
            IF q = p THEN [s \in S |-> pageIdFrom[s]] ELSE claimed[q]
      BY <2>0, <3>1 DEF TypeOK
    <3>5. S \subseteq Sources
      BY <2>0 DEF TypeOK
    <3>6. ASSUME NEW q \in Pollers PROVE ClaimOK(q)'
      <4>1. CASE q = p
        <5>1. claimed'[q] = [s \in S |-> pageIdFrom[s]]
          BY <3>4, <4>1
        <5>2. \A s \in S : pageIdFrom[s] \in Nat
          BY <2>0, <3>5
        <5>. QED
          BY <3>2, <3>5, <5>1, <5>2 DEF ClaimOK
      <4>2. CASE q # p
        BY <2>0, <3>2, <3>4, <4>2 DEF ClaimOK
      <4>. QED
        BY <4>1, <4>2
    <3>7. \A q \in Pollers : PageOK(q)'
      BY <2>0, <3>2, <3>3, <3>4 DEF PageOK
    <3>. QED
      BY <2>0, <3>1, <3>2, <3>5, <3>6, <3>7, QuietTables DEF TypeOK
  <2>2. ASSUME NEW p \in Pollers, FetchPage(p) PROVE IngestInv'
    <3>1. PICK s \in DOMAIN claimed[p] :
            page' = [page EXCEPT ![p] =
              [source |-> s, from |-> claimed[p][s],
               to |-> PageEnd(s, claimed[p][s])]]
      BY <2>2 DEF FetchPage
    <3>2. UNCHANGED <<offered, tables, claimed, faults>>
      BY <2>2 DEF FetchPage
    <3>3. s \in Sources /\ claimed[p][s] \in Nat /\ offered[s] \in Nat
      BY <2>0 DEF ClaimOK
    <3>4. /\ PageEnd(s, claimed[p][s]) \in Nat
          /\ PageEnd(s, claimed[p][s]) <= offered[s]
      BY <3>3, IngestAssumption DEF PageEnd
    <3>5. PageOK(p)'
      BY <2>0, <3>1, <3>2, <3>3, <3>4 DEF PageOK, Page, TypeOK
    <3>6. \A q \in Pollers : ClaimOK(q)' /\ PageOK(q)'
      BY <2>0, <3>1, <3>2, <3>5 DEF ClaimOK, PageOK, tables
    <3>. QED
      BY <2>0, <3>1, <3>2, <3>6, QuietTables DEF TypeOK, tables
  <2>3. ASSUME NEW p \in Pollers, FetchNothing(p) PROVE IngestInv'
    <3>1. PICK s : Drop(p, s)
      BY <2>3 DEF FetchNothing
    <3>2. UNCHANGED <<offered, tables, page, faults>> /\ page[p] = NoPage
      BY <2>3 DEF FetchNothing
    <3>3. /\ DOMAIN claimed' = Pollers
          /\ DOMAIN claimed'[p] \subseteq DOMAIN claimed[p]
          /\ \A r \in DOMAIN claimed'[p] : claimed'[p][r] = claimed[p][r]
          /\ \A q \in Pollers \ {p} : claimed'[q] = claimed[q]
      BY <2>0, <3>1, DropEffect
    <3>4. \A q \in Pollers : ClaimOK(q)' /\ PageOK(q)'
      BY <2>0, <3>2, <3>3 DEF ClaimOK, PageOK, tables
    <3>. QED
      BY <2>0, <3>2, <3>3, <3>4, QuietTables DEF TypeOK, tables
  <2>4. ASSUME NEW p \in Pollers, Store(p) PROVE IngestInv'
    BY <2>4, StoreStep
  <2>5. ASSUME NEW p \in Pollers, Abandon(p) PROVE IngestInv'
    <3>1. /\ \A q \in Pollers : claimed'[q] = IF q = p THEN NoClaim ELSE claimed[q]
          /\ \A q \in Pollers : page'[q] = IF q = p THEN NoPage ELSE page[q]
          /\ DOMAIN claimed' = Pollers /\ DOMAIN page' = Pollers
      BY <2>0, <2>5 DEF Abandon, TypeOK
    <3>2. UNCHANGED <<offered, tables>> /\ faults' \in 0 .. MaxFaults
      BY <2>0, <2>5, IngestAssumption DEF Abandon, TypeOK
    <3>3. \A q \in Pollers : ClaimOK(q)' /\ PageOK(q)'
      BY <2>0, <3>1, <3>2 DEF ClaimOK, PageOK, NoClaim, tables
    <3>. QED
      BY <2>0, <3>1, <3>2, <3>3, QuietTables DEF TypeOK, tables
  <2>6. ASSUME NEW s \in Sources, Offer(s) \/ IntervalPasses(s)
        PROVE  IngestInv'
    <3>1. /\ offered' \in [Sources -> 0 .. MaxItems]
          /\ \A r \in Sources : offered'[r] >= offered[r]
      BY <2>0, <2>6, IngestAssumption
        DEF Offer, IntervalPasses, TypeOK
    <3>2. /\ UNCHANGED <<pageIdFrom, articles, queued, claimed, page, faults>>
          /\ due' \subseteq Sources
      BY <2>0, <2>6 DEF Offer, IntervalPasses, tables, TypeOK
    <3>3. \A q \in Pollers : ClaimOK(q)'
      BY <2>0, <3>2 DEF ClaimOK
    <3>4. ASSUME NEW q \in Pollers PROVE PageOK(q)'
      <4>1. CASE page[q] = NoPage
        BY <2>0, <3>2, <4>1 DEF PageOK
      <4>2. CASE page[q] # NoPage
        <5>1. /\ page[q].source \in Sources /\ page[q].to \in Nat
              /\ page[q].to <= offered[page[q].source]
              /\ offered[page[q].source] \in Nat
              /\ offered'[page[q].source] \in Nat
          BY <2>0, <3>1, <4>2, StoredPage, IngestAssumption
        <5>2. page[q].to <= offered'[page[q].source]
          BY <3>1, <5>1
        <5>. QED
          BY <2>0, <3>2, <4>2, <5>2 DEF PageOK
      <4>. QED
        BY <4>1, <4>2
    <3>. QED
      BY <2>0, <3>1, <3>2, <3>3, <3>4, QuietTables DEF TypeOK
  <2>7. CASE UNCHANGED vars
    BY <2>7 DEF vars, tables, IngestInv, TypeOK, PagesOffered, AllQueued, NothingSkipped
  <2>. QED
    BY <2>1, <2>2, <2>3, <2>4, <2>5, <2>6, <2>7 DEF Next, PollerStep
<1>. QED
  BY <1>1, <1>2, PTL DEF Spec

-----------------------------------------------------------------------------
(* Theorems. *)

\* Every variable keeps its type, and nothing is stored, queued or asked for
\* that lies beyond what the provider offers and the cursor has passed.
THEOREM IngestTypeCorrect == Spec => []TypeOK
<1>1. IngestInv => TypeOK
  BY DEF IngestInv
<1>. QED
  BY <1>1, IngestInvariant, PTL

\* However many replicas poll a source from old cursors, and whatever fails,
\* the cursor passes nothing that is not stored with its classify job, so
\* nothing a provider offers is lost (store_articles, advance_source_cursor).
THEOREM CursorSkipsNothing == Spec => []NothingSkipped
<1>1. IngestInv => NothingSkipped
  BY DEF IngestInv
<1>. QED
  BY <1>1, IngestInvariant, PTL

\* A poller that comes late, with a page from an old cursor, never moves the
\* cursor back (the WHERE clause of advance_source_cursor).
THEOREM CursorNeverBack == Spec => CursorMonotone
<1>1. IngestInv /\ [Next]_vars =>
        [\A s \in Sources : pageIdFrom'[s] >= pageIdFrom[s]]_pageIdFrom
  <2> SUFFICES ASSUME IngestInv, [Next]_vars, pageIdFrom' # pageIdFrom
               PROVE  \A s \in Sources : pageIdFrom'[s] >= pageIdFrom[s]
    OBVIOUS
  <2>1. PICK p \in Pollers : Store(p)
    BY DEF Next, PollerStep, Claim, FetchPage, FetchNothing, Abandon, Offer,
           IntervalPasses, tables, vars
  <2>2. /\ page[p].source \in Sources /\ page[p].to \in Nat
        /\ pageIdFrom' = [pageIdFrom EXCEPT ![page[p].source] = Cursor(page[p])]
    BY <2>1, StoredPage DEF Store
  <2>. QED
    BY <2>2 DEF Cursor, IngestInv, TypeOK
<1>. QED
  BY <1>1, IngestInvariant, PTL DEF Spec, CursorMonotone
=============================================================================
