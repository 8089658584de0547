------------------------------- MODULE Search -------------------------------
(***************************************************************************)
(* GET /search, next to the feed: a client asks for the newest posts of     *)
(* some topics and follows next_cursor from page to page, at its own pace   *)
(* and with page sizes of its choice, while the classifier publishes.  The  *)
(* server keeps nothing between the pages.                                  *)
(***************************************************************************)
EXTENDS Feed

CONSTANTS
  Searchers,   \* clients that search
  MaxPageSize  \* max_page_size

ASSUME SearchAssumption == MaxPageSize \in Nat \ {0}

VARIABLE
  query  \* what each client searches, and was given: see NoSearch

\* topics: {} without a search; next: next_cursor of the last page, 0 for none;
\* ended: that page had no next_cursor; got, items: history, the posts given and
\* how many items; base: history, the matching posts visible at the first page.
NoSearch ==
  [topics |-> {}, next |-> 0, ended |-> FALSE, got |-> {}, items |-> 0, base |-> {}]

SearchInit == Init /\ query = [s \in Searchers |-> NoSearch]

\* Mutant: the topics are not passed on.
MutMatching(T) == posts

Matching(T) == {p \in posts : p.topic \in T}

\* Mutant: the cursor is inclusive.
MutBelow(p, cursor) == cursor = 0 \/ p.post_id <= cursor

Below(p, cursor) == cursor = 0 \/ p.post_id < cursor

\* ORDER BY post_id DESC LIMIT n.
Newest(S, n) == {p \in S : Cardinality({q \in S : q.post_id > p.post_id}) < n}

\* search_articles.
Results(T, cursor, n) == Newest({p \in Matching(T) : Below(p, cursor)}, n)

\* Mutant: the cursor is the first item of the page.
MutLast(S) == CHOOSE n \in {p.post_id : p \in S} : \A p \in S : n >= p.post_id

\* articles[-1].post_id.
Last(S) == CHOOSE n \in {p.post_id : p \in S} : \A p \in S : n <= p.post_id

\* Mutant: off by one, and no page is ever full.
MutIsFull(S, n) == Cardinality(S) > n

IsFull(S, n) == Cardinality(S) = n

\* Query q after a page of n items.
Paged(q, n) ==
  LET S == Results(q.topics, q.next, n)
  IN  [q EXCEPT !.got = @ \cup S, !.items = @ + Cardinality(S),
                !.ended = ~IsFull(S, n),
                !.next = IF IsFull(S, n) THEN Last(S) ELSE 0]

\* The first page.
Begin(s) ==
  /\ query[s].topics = {}
  /\ \E T \in (SUBSET Topics) \ {{}}, n \in 1 .. MaxPageSize :
       query' = [query EXCEPT ![s] =
         Paged([NoSearch EXCEPT !.topics = T, !.base = Matching(T)], n)]
  /\ UNCHANGED vars

\* The next page, of whatever size.
Continue(s) ==
  /\ query[s].topics # {} /\ ~query[s].ended
  /\ \E n \in 1 .. MaxPageSize : query' = [query EXCEPT ![s] = Paged(@, n)]
  /\ UNCHANGED vars

\* The client is done with its search, or gives it up.
Leave(s) ==
  /\ query[s].topics # {}
  /\ query' = [query EXCEPT ![s] = NoSearch]
  /\ UNCHANGED vars

SearchNext ==
  \/ Next /\ UNCHANGED query
  \/ \E s \in Searchers : Begin(s) \/ Continue(s) \/ Leave(s)

SearchSpec == SearchInit /\ [][SearchNext]_<<vars, query>>

-----------------------------------------------------------------------------
(* Properties. *)

Query ==
  [topics : SUBSET Topics, next : Nat, ended : BOOLEAN, got : SUBSET posts,
   items : Nat, base : SUBSET posts]

\* Types; a search returns no post of another topic.
SearchTypeOK ==
  /\ query \in [Searchers -> Query]
  /\ \A s \in Searchers : \A p \in query[s].got : p.topic \in query[s].topics

\* A client that has followed the cursors to the end has been given every post
\* that matched when it began, whatever was published between the pages, in
\* whatever order across topics (next_cursor in search).
NothingMissed ==
  \A s \in Searchers : query[s].ended => query[s].base \subseteq query[s].got

\* No item is given twice to a client that follows the cursors.
NothingRepeated ==
  \A s \in Searchers : query[s].items = Cardinality(query[s].got)

\* The cursor is the last post given, and of the posts that matched when the
\* client began, those above it have been given and those below it have not:
\* the invariant behind the two.
CursorSplits ==
  \A s \in Searchers :
    LET q == query[s]
    IN  q.topics # {} /\ ~q.ended =>
          /\ \E p \in q.got : p.post_id = q.next
          /\ \A p \in q.got : p.post_id >= q.next
          /\ \A p \in q.base : p.post_id >= q.next => p \in q.got
=============================================================================
