------------------------------- MODULE Ingest -------------------------------
(***************************************************************************)
(* The ingest jobs: each claims the sources that are due, asks their        *)
(* providers, one after the other, for the articles after page_id_from, and *)
(* stores a page of articles with their classify jobs and the new           *)
(* page_id_from in one transaction.  The claim is no lease: with several    *)
(* replicas, or a page that takes longer than the poll interval, a source   *)
(* is polled by two jobs from the same page_id_from, or from an old one.    *)
(*                                                                         *)
(* A provider offers its articles under the page ids 1, 2, ...; the same    *)
(* article keeps its id, so ids stand for external_ids.                     *)
(***************************************************************************)
EXTENDS Naturals, FiniteSets

CONSTANTS
  Pollers,          \* the ingest jobs, one per process
  Sources,          \* the sources
  SourcesPerCycle,  \* sources_per_cycle
  PageSize,         \* articles_per_page
  MaxItems,         \* bound: the articles a provider offers
  MaxFaults         \* bound: errors and crashes

ASSUME IngestAssumption ==
  /\ IsFiniteSet(Sources)
  /\ SourcesPerCycle \in Nat \ {0} /\ PageSize \in Nat \ {0}
  /\ MaxItems \in Nat /\ MaxFaults \in Nat

VARIABLES
  offered,     \* the articles of each provider so far are 1 .. offered[s]
  pageIdFrom,  \* sources.page_id_from
  due,         \* the sources whose poll interval is over
  articles,    \* the rows <<source, external_id>> of articles
  queued,      \* the articles for which a classify job has been inserted
  claimed,     \* the sources a poller has still to poll, with the
               \* page_id_from it was given: see NoClaim
  page,        \* the page a poller has fetched: see NoPage
  faults       \* faults so far

tables == <<pageIdFrom, due, articles, queued>>
vars == <<offered, tables, claimed, page, faults>>

NoClaim == [s \in {} |-> 0]

\* The articles from + 1 .. to of source s.
Page == [source : Sources, from : Nat, to : Nat]
NoPage == <<>>

Init ==
  /\ offered = [s \in Sources |-> 0]
  /\ pageIdFrom = [s \in Sources |-> 0]
  /\ due = Sources
  /\ articles = {} /\ queued = {}
  /\ claimed = [p \in Pollers |-> NoClaim]
  /\ page = [p \in Pollers |-> NoPage]
  /\ faults = 0

Drop(p, s) ==
  claimed' = [claimed EXCEPT ![p] = [r \in DOMAIN @ \ {s} |-> @[r]]]

\* The sources whose row another poller's transaction may be updating.
Locked(p) == {s \in Sources : \E q \in Pollers \ {p} :
                               page[q] # NoPage /\ page[q].source = s}

\* claim_due_sources: any that are due, up to the limit, but SKIP LOCKED passes
\* over those that are locked.
Claim(p) ==
  /\ claimed[p] = NoClaim /\ due # {}
  /\ \E S \in SUBSET due :
       /\ \/ Cardinality(S) = SourcesPerCycle
          \/ Cardinality(S) < SourcesPerCycle /\ due \ S \subseteq Locked(p)
       /\ claimed' = [claimed EXCEPT ![p] = [s \in S |-> pageIdFrom[s]]]
       /\ due' = due \ S
  /\ UNCHANGED <<offered, pageIdFrom, articles, queued, page, faults>>

\* What the provider of s answers to from: a page that may be short or empty.
PageEnd(s, from) ==
  IF from + PageSize < offered[s] THEN from + PageSize ELSE offered[s]

FetchPage(p) ==
  /\ page[p] = NoPage
  /\ \E s \in DOMAIN claimed[p] :
       /\ claimed[p][s] < offered[s]
       /\ page' = [page EXCEPT ![p] =
            [source |-> s, from |-> claimed[p][s],
             to |-> PageEnd(s, claimed[p][s])]]
  /\ UNCHANGED <<offered, tables, claimed, faults>>

FetchNothing(p) ==
  /\ page[p] = NoPage
  /\ \E s \in DOMAIN claimed[p] : claimed[p][s] >= offered[s] /\ Drop(p, s)
  /\ UNCHANGED <<offered, tables, page, faults>>

\* Mutant: the cursor moves by a whole page, even if the page was short.
MutCursor(q) == IF pageIdFrom[q.source] < q.to THEN q.from + PageSize
                ELSE pageIdFrom[q.source]

\* Mutant: a late poller sets the cursor back.
MutCursorBack(q) == q.to

\* The WHERE clause of advance_source_cursor.
Cursor(q) == IF pageIdFrom[q.source] < q.to THEN q.to ELSE pageIdFrom[q.source]

Items(q) == {<<q.source, i>> : i \in q.from + 1 .. q.to}

\* store_articles and advance_source_cursor, in one transaction: bodies and
\* jobs only for the articles that were not there yet.
Store(p) ==
  /\ page[p] # NoPage
  /\ articles' = articles \cup Items(page[p])
  /\ queued' = queued \cup (Items(page[p]) \ articles)
  /\ pageIdFrom' = [pageIdFrom EXCEPT ![page[p].source] = Cursor(page[p])]
  /\ Drop(p, page[p].source)
  /\ page' = [page EXCEPT ![p] = NoPage]
  /\ UNCHANGED <<offered, due, faults>>

\* The provider or the database raises, or the process dies: the rest of the
\* cycle is forgotten, and its sources wait for their next interval.
Abandon(p) ==
  /\ claimed[p] # NoClaim
  /\ faults < MaxFaults /\ faults' = faults + 1
  /\ claimed' = [claimed EXCEPT ![p] = NoClaim]
  /\ page' = [page EXCEPT ![p] = NoPage]
  /\ UNCHANGED <<offered, tables>>

-----------------------------------------------------------------------------
(* The environment. *)

Offer(s) ==
  /\ offered[s] < MaxItems
  /\ offered' = [offered EXCEPT ![s] = @ + 1]
  /\ UNCHANGED <<tables, claimed, page, faults>>

IntervalPasses(s) ==
  /\ s \notin due
  /\ due' = due \cup {s}
  /\ UNCHANGED <<offered, pageIdFrom, articles, queued, claimed, page, faults>>

PollerStep(p) == Claim(p) \/ FetchPage(p) \/ FetchNothing(p) \/ Store(p)

Next ==
  \/ \E p \in Pollers : PollerStep(p) \/ Abandon(p)
  \/ \E s \in Sources : Offer(s) \/ IntervalPasses(s)

Spec == Init /\ [][Next]_vars

\* The loops run forever and time passes.
Fairness ==
  /\ \A p \in Pollers : WF_vars(PollerStep(p))
  /\ \A s \in Sources : WF_vars(IntervalPasses(s))

FairSpec == Spec /\ Fairness

-----------------------------------------------------------------------------
(* Properties. *)

\* Types; nothing is stored that the provider does not offer.
TypeOK ==
  /\ offered \in [Sources -> 0 .. MaxItems]
  /\ pageIdFrom \in [Sources -> Nat]
  /\ due \subseteq Sources
  /\ \A x \in articles : x \in Sources \X Nat /\ x[2] \in 1 .. offered[x[1]]
  /\ queued \subseteq articles
  /\ DOMAIN claimed = Pollers /\ DOMAIN page = Pollers
  /\ \A p \in Pollers :
       /\ DOMAIN claimed[p] \subseteq Sources
       /\ \A s \in DOMAIN claimed[p] : claimed[p][s] \in 0 .. pageIdFrom[s]
       /\ page[p] \in Page \cup {NoPage}
       /\ page[p] # NoPage => page[p].source \in DOMAIN claimed[p]
  /\ faults \in 0 .. MaxFaults

\* The provider is never asked again for what the cursor has passed, so all
\* of it is stored and has a classify job, whichever replicas have polled
\* the source from whichever old cursor and whatever failed.
NothingSkipped ==
  \A s \in Sources : \A i \in 1 .. pageIdFrom[s] : <<s, i>> \in queued

\* A poller that comes late never moves the cursor back.
CursorMonotone == [][\A s \in Sources : pageIdFrom'[s] >= pageIdFrom[s]]_pageIdFrom

\* Whatever a provider offers is ingested eventually.
EverythingIngested ==
  \A s \in Sources : \A i \in 1 .. MaxItems :
    offered[s] >= i ~> <<s, i>> \in queued
=============================================================================
