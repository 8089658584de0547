----------------------------- MODULE FeedProofs -----------------------------
(***************************************************************************)
(* Theorems about Feed and Search, for any number of clients, topics,       *)
(* articles, posts and page sizes.                                          *)
(***************************************************************************)
EXTENDS Search, WellFoundedInduction, FiniteSetTheorems, TLAPS

-----------------------------------------------------------------------------
(* The operators of the read. *)

\* A nonempty set of post ids has a last one.
LEMMA LastExists ==
  ASSUME NEW S, S # {}, S \subseteq 1 .. MaxPostId
  PROVE  \E n \in S : \A m \in S : m <= n
<1> DEFINE R == {k \in Nat : k <= MaxPostId /\ MaxPostId - k \in S}
<1>1. PICK x \in S : TRUE
  OBVIOUS
<1>2. MaxPostId - x \in R
  BY <1>1, FeedAssumption
<1>3. PICK k \in R : \A j \in R : k <= j
  <2>1. R \subseteq Nat /\ R # {}
    BY <1>2
  <2> HIDE DEF R
  <2>2. PICK k \in R : \A j \in R : <<j, k>> \notin OpToRel(<, Nat)
    BY <2>1, WFMin, NatLessThanWellFounded, Zenon
  <2>3. \A j \in R : ~ (j < k)
    BY <2>1, <2>2, Zenon DEF OpToRel
  <2>. QED
    BY <2>1, <2>3
<1>4. MaxPostId - k \in S
  BY <1>3
<1>5. ASSUME NEW m \in S PROVE m <= MaxPostId - k
  <2>1. MaxPostId - m \in R
    BY FeedAssumption
  <2>2. k <= MaxPostId - m /\ k \in Nat
    BY <1>3, <2>1
  <2>. QED
    BY <2>2, FeedAssumption
<1>. QED
  BY <1>4, <1>5

\* A watermark is the last post of its topic on the page.
LEMMA WatermarkIsLast ==
  ASSUME NEW S \in SUBSET posts, posts \subseteq Log!Post, Numbered,
         NEW t \in {p.topic : p \in S}
  PROVE  /\ \E p \in S : p.topic = t /\ p.post_id = Watermark(S, t)
         /\ \A p \in S : p.topic = t => p.post_id <= Watermark(S, t)
<1> DEFINE ids == {p.post_id : p \in {q \in S : q.topic = t}}
<1>1. ids # {} /\ ids \subseteq 1 .. MaxPostId
  BY DEF Numbered
<1>2. \E n \in ids : \A m \in ids : m <= n
  <2> HIDE DEF ids
  <2>. QED
    BY <1>1, LastExists
<1>3. \E n \in ids : \A p \in S : p.topic = t => p.post_id <= n
  BY <1>2
<1>4. /\ Watermark(S, t) \in ids
      /\ \A p \in S : p.topic = t => p.post_id <= Watermark(S, t)
  BY <1>3 DEF Watermark
<1>. QED
  BY <1>4

-----------------------------------------------------------------------------
(* Types. *)

\* What a post that is published looks like.
LEMMA NewPostEffect ==
  ASSUME NewPost
  PROVE  \E p \in Log!Post :
           /\ p.post_id \in 1 .. MaxPostId
           /\ \A q \in posts : q.post_id # p.post_id
           /\ \A q \in posts : q.topic = p.topic => q.post_id < p.post_id
           /\ posts' = posts \cup {p}
           /\ UNCHANGED <<subscribed, offset, reply, shown, cut>>
<1>1. PICK t \in Topics, n \in 1 .. MaxPostId, a \in Articles :
        /\ \A q \in posts : q.post_id # n
        /\ Log!Publish(a, {[topic |-> t, post_id |-> n, article |-> a]})
  BY DEF NewPost
<1> DEFINE p == [topic |-> t, post_id |-> n, article |-> a]
<1>2. Log!Follows(p) /\ posts' = posts \cup {p}
  BY <1>1 DEF Log!Publish
<1>3. p \in Log!Post /\ p.topic = t /\ p.post_id = n
  BY DEF Log!Post
<1> HIDE DEF p
<1>. QED
  BY <1>1, <1>2, <1>3 DEF NewPost, Log!Follows

LEMMA NumberedStep ==
  ASSUME Numbered, [Next]_vars
  PROVE  Numbered'
<1>1. CASE NewPost
  BY <1>1, NewPostEffect DEF Numbered
<1>2. CASE UNCHANGED posts
  BY <1>2 DEF Numbered
<1>. QED
  BY <1>1, <1>2 DEF Next, ChangeSubscription, Read, Ack, vars

LEMMA TypeStep ==
  ASSUME TypeOK, Numbered, [Next]_vars
  PROVE  TypeOK'
<1>1. CASE NewPost
  BY <1>1, NewPostEffect DEF TypeOK, IsWatermark, Log!Post
<1>2. ASSUME NEW t \in Topics, ChangeSubscription(t) PROVE TypeOK'
  BY <1>2 DEF ChangeSubscription, TypeOK, IsWatermark, Log!Post
<1>3. ASSUME NEW c \in Clients, Read(c) PROVE TypeOK'
  <2> DEFINE page == PageOf(Unread)
             marks == [t \in {p.topic : p \in page} |-> Watermark(page, t)]
  <2>1. page \in SUBSET posts
    BY DEF PageOf, Unread
  <2>2. \A t \in DOMAIN marks :
          t \in Topics /\ \E p \in posts : p.topic = t /\ p.post_id = marks[t]
    <3> HIDE DEF page
    <3> TAKE t \in DOMAIN marks
    <3>1. t \in {p.topic : p \in page} /\ marks[t] = Watermark(page, t)
      OBVIOUS
    <3>2. \E p \in page : p.topic = t /\ p.post_id = Watermark(page, t)
      BY <2>1, <3>1, WatermarkIsLast DEF TypeOK
    <3> HIDE DEF marks
    <3>. QED
      BY <2>1, <3>1, <3>2 DEF TypeOK, Log!Post
  <2>3. /\ shown' = shown \cup page /\ reply' = [reply EXCEPT ![c] = marks]
        /\ cut' \subseteq posts
    BY <1>3 DEF Read, TypeOK, Unread
  <2> HIDE DEF page, marks
  <2>4. /\ DOMAIN reply' = Clients
        /\ \A d \in Clients :
             /\ DOMAIN reply'[d] \subseteq Topics
             /\ \A t \in DOMAIN reply'[d] : IsWatermark(t, reply'[d][t])
    <3>1. \A d \in Clients :
            reply'[d] = IF d = c THEN marks ELSE reply[d]
      BY <2>3 DEF TypeOK
    <3>. QED
      BY <2>2, <2>3, <3>1 DEF TypeOK, IsWatermark
  <2>. QED
    BY <1>3, <2>1, <2>3, <2>4 DEF Read, TypeOK, IsWatermark, Log!Post
<1>4. ASSUME NEW c \in Clients, Ack(c) PROVE TypeOK'
  <2>1. \A t \in DOMAIN reply[c] : reply[c][t] \in Nat
    BY <1>4 DEF TypeOK, IsWatermark, Log!Post
  <2>2. \A t \in Topics : offset'[t] \in Nat /\ IsWatermark(t, offset'[t])
    BY <1>4, <2>1 DEF Ack, Acked, TypeOK
  <2>3. offset' \in [Topics -> Nat]
    BY <1>4, <2>2 DEF Ack
  <2>. QED
    BY <1>4, <2>2, <2>3 DEF Ack, TypeOK, IsWatermark, Log!Post
<1>5. CASE UNCHANGED vars
  BY <1>5 DEF vars, TypeOK, IsWatermark, Log!Post
<1>. QED
  BY <1>1, <1>2, <1>3, <1>4, <1>5 DEF Next

LEMMA TypesInvariant == Spec => [](TypeOK /\ Numbered)
<1>1. Init => TypeOK /\ Numbered
  BY DEF Init, Log!Init, NoReply, TypeOK, Numbered, IsWatermark
<1>2. TypeOK /\ Numbered /\ [Next]_vars => (TypeOK /\ Numbered)'
  BY TypeStep, NumberedStep
<1>. QED
  BY <1>1, <1>2, PTL DEF Spec

\* The state keeps its types, and every watermark, stored or on its way, is
\* a visible post of its topic (read_feed, ack_feed).
THEOREM FeedTypeCorrect == Spec => []TypeOK
  BY TypesInvariant, PTL

-----------------------------------------------------------------------------
(* Nothing is hidden. *)

\* A watermark goes on hiding the same posts.
LEMMA HiddenKept ==
  ASSUME TypeOK, NEW t \in Topics, NEW n, IsWatermark(t, n), NewPost
  PROVE  Hidden(t, n)' = Hidden(t, n)
<1>1. PICK p \in Log!Post :
        /\ p.post_id \in 1 .. MaxPostId
        /\ \A q \in posts : q.topic = p.topic => q.post_id < p.post_id
        /\ posts' = posts \cup {p} /\ shown' = shown
  BY NewPostEffect
<1>2. p.topic = t => ~ (p.post_id <= n)
  <2>1. CASE n = 0
    BY <1>1, <2>1
  <2>2. CASE \E q \in posts : q.topic = t /\ q.post_id = n
    BY <1>1, <2>2 DEF TypeOK, Log!Post
  <2>. QED
    BY <2>1, <2>2 DEF IsWatermark
<1>. QED
  BY <1>1, <1>2 DEF Hidden

LEMMA FeedStep ==
  ASSUME TypeOK, FeedInv, [Next]_vars
  PROVE  (RepliesCover /\ OnlyCutHidden)'
<1> USE DEF FeedInv
<1>1. CASE NewPost
  <2>1. UNCHANGED <<offset, reply, cut>>
    BY <1>1, NewPostEffect
  <2>2. OnlyCutHidden'
    BY <1>1, <2>1, HiddenKept DEF TypeOK, OnlyCutHidden, Hidden
  <2>3. RepliesCover'
    BY <1>1, <2>1, HiddenKept DEF TypeOK, RepliesCover, Hidden
  <2>. QED
    BY <2>2, <2>3
<1>2. ASSUME NEW t \in Topics, ChangeSubscription(t)
      PROVE  (RepliesCover /\ OnlyCutHidden)'
  BY <1>2 DEF ChangeSubscription, RepliesCover, OnlyCutHidden, Hidden
<1>3. ASSUME NEW c \in Clients, Read(c)
      PROVE  (RepliesCover /\ OnlyCutHidden)'
  <2> DEFINE read == PageOf(Unread)
             marks == [t \in {p.topic : p \in read} |-> Watermark(read, t)]
  <2>1. read \subseteq Unread
    BY DEF PageOf
  <2>2. /\ shown' = shown \cup read /\ cut' = cut \cup (Unread \ read)
        /\ reply' = [reply EXCEPT ![c] = marks]
        /\ UNCHANGED <<posts, offset>>
    BY <1>3 DEF Read
  <2>3. ASSUME NEW t \in DOMAIN marks, NEW p \in posts, p.topic = t,
               p \notin shown'
        PROVE  p \in cut'
    <3>1. t \in Topics /\ t \in subscribed
      BY <2>1 DEF TypeOK, Unread
    <3>2. CASE p.post_id <= offset[t]
      BY <2>2, <2>3, <3>1, <3>2 DEF OnlyCutHidden, Hidden
    <3>3. CASE p.post_id > offset[t]
      BY <2>2, <2>3, <3>1, <3>3 DEF Unread
    <3>. QED
      BY <3>1, <3>2, <3>3 DEF TypeOK, Log!Post
  <2> HIDE DEF marks, read
  <2>4. \A d \in Clients : reply'[d] = IF d = c THEN marks ELSE reply[d]
    BY <2>2 DEF TypeOK
  <2>5. RepliesCover'
    BY <2>2, <2>3, <2>4 DEF RepliesCover, Hidden
  <2>6. OnlyCutHidden'
    BY <2>2 DEF OnlyCutHidden, Hidden
  <2>. QED
    BY <2>5, <2>6
<1>4. ASSUME NEW c \in Clients, Ack(c)
      PROVE  (RepliesCover /\ OnlyCutHidden)'
  <2>1. \A t \in Topics :
          \/ offset'[t] = offset[t]
          \/ t \in DOMAIN reply[c] /\ offset'[t] = reply[c][t]
    BY <1>4 DEF Ack, Acked
  <2>. QED
    BY <1>4, <2>1 DEF Ack, RepliesCover, OnlyCutHidden, Hidden
<1>5. CASE UNCHANGED vars
  BY <1>5 DEF vars, RepliesCover, OnlyCutHidden, Hidden
<1>. QED
  BY <1>1, <1>2, <1>3, <1>4, <1>5 DEF Next

\* The inductive invariant of the feed: the numbers of the visible posts are
\* what the ids say, and a reply that is not yet acknowledged hides nothing
\* either, whenever it arrives, but posts that a page had no room for.
THEOREM RepliesHideOnlyCut == Spec => []FeedInv
<1>1. Init => FeedInv
  BY DEF Init, Log!Init, NoReply, FeedInv, Numbered, RepliesCover,
         OnlyCutHidden, Hidden
<1>2. TypeOK /\ FeedInv /\ [Next]_vars => FeedInv'
  BY FeedStep, NumberedStep DEF FeedInv
<1>. QED
  BY <1>1, <1>2, FeedTypeCorrect, PTL DEF Spec

\* A watermark hides no post that the user was not shown, unless a page had no
\* room for that post, for any page size and any number of posts: what is
\* published between a read and its acknowledgement stays unread, because it
\* comes after everything that was visible in its topic.
THEOREM WatermarksHideOnlyCut == Spec => []OnlyCutHidden
<1>1. FeedInv => OnlyCutHidden
  BY DEF FeedInv
<1>. QED
  BY <1>1, RepliesHideOnlyCut, PTL

\* As long as every page so far has held all posts that were unread when it
\* was read, no watermark hides a post that the user was not shown, however
\* many posts have been numbered.
THEOREM RoomyPagesHideNothing == Spec => [](cut = {} => NothingHidden)
<1>1. OnlyCutHidden => (cut = {} => NothingHidden)
  BY DEF OnlyCutHidden, NothingHidden
<1>. QED
  BY <1>1, WatermarksHideOnlyCut, PTL

\* An acknowledgement that is late or repeated never moves a watermark back
\* (the GREATEST of ack_feed).
THEOREM WatermarksNeverRewind == Spec => NeverRewinds
<1>1. TypeOK /\ [Next]_vars => [\A t \in Topics : offset'[t] >= offset[t]]_offset
  <2> SUFFICES ASSUME TypeOK, [Next]_vars, offset' # offset
               PROVE  \A t \in Topics : offset'[t] >= offset[t]
    OBVIOUS
  <2>1. PICK c \in Clients : Ack(c)
    BY DEF Next, NewPost, ChangeSubscription, Read, vars
  <2>2. \A t \in DOMAIN reply[c] : reply[c][t] \in Nat
    BY DEF TypeOK, IsWatermark, Log!Post
  <2>. QED
    BY <2>1, <2>2 DEF Ack, Acked, TypeOK
<1>. QED
  BY <1>1, FeedTypeCorrect, PTL DEF Spec, NeverRewinds

-----------------------------------------------------------------------------
(* One page. *)

\* A nonempty set of post ids has a first one.
LEMMA FirstExists ==
  ASSUME NEW S, S # {}, S \subseteq 1 .. MaxPostId
  PROVE  \E n \in S : \A m \in S : n <= m
<1>1. PICK k \in S : \A j \in S : <<j, k>> \notin OpToRel(<, Nat)
  <2>1. S \subseteq Nat
    BY FeedAssumption
  <2>. QED
    BY <2>1, WFMin, NatLessThanWellFounded, Zenon
<1>2. \A j \in S : ~ (j < k)
  <2>1. S \subseteq Nat
    BY FeedAssumption
  <2>. QED
    BY <1>1, <2>1, Zenon DEF OpToRel
<1>3. \A j \in S : j \in Nat
  BY FeedAssumption
<1>4. \A j \in S : k <= j
  BY <1>2, <1>3
<1>. QED
  BY <1>4

\* The posts have distinct numbers, and there are finitely many.
GoodPosts == Numbered /\ IsFiniteSet(posts)

\* Newer posts come first.
LEMMA NewestIsUpper ==
  ASSUME GoodPosts, NEW S \in SUBSET posts, NEW n \in Nat \ {0}
  PROVE  /\ Newest(S, n) \subseteq S
         /\ IsFiniteSet(S) /\ IsFiniteSet(Newest(S, n))
         /\ \A r \in Newest(S, n), p \in S :
              p.post_id >= r.post_id => p \in Newest(S, n)
<1>1. IsFiniteSet(S)
  BY FS_Subset DEF GoodPosts
<1>2. Newest(S, n) \subseteq S /\ IsFiniteSet(Newest(S, n))
  BY <1>1, FS_Subset DEF Newest
<1>3. ASSUME NEW r \in Newest(S, n), NEW p \in S, p.post_id >= r.post_id
      PROVE  p \in Newest(S, n)
  <2> DEFINE A == {q \in S : q.post_id > r.post_id}
             B == {q \in S : q.post_id > p.post_id}
  <2>1. \A q \in posts : q.post_id \in Nat
    BY FeedAssumption DEF GoodPosts, Numbered
  <2>2. B \in SUBSET A
    BY <1>2, <1>3, <2>1
  <2>3. IsFiniteSet(A)
    BY <1>1, FS_Subset
  <2>4. Cardinality(A) < n
    BY <1>3 DEF Newest
  <2> HIDE DEF A, B
  <2>5. IsFiniteSet(B) /\ Cardinality(B) <= Cardinality(A)
    BY <2>2, <2>3, FS_Subset
  <2>6. Cardinality(B) < n
    BY <2>3, <2>4, <2>5, FS_CardinalityType
  <2>. QED
    BY <2>6 DEF B, Newest
<1>. QED
  BY <1>1, <1>2, <1>3

\* A page that is not full has everything: the LIMIT cuts off a post only when
\* it has let n others pass.
LEMMA ShortPageIsAll ==
  ASSUME GoodPosts, NEW S \in SUBSET posts, NEW n \in Nat \ {0},
         Cardinality(Newest(S, n)) # n
  PROVE  Newest(S, n) = S
<1> DEFINE R == Newest(S, n)
<1> SUFFICES ASSUME R # S PROVE Cardinality(R) = n
  OBVIOUS
<1>1. /\ R \subseteq S /\ IsFiniteSet(S) /\ IsFiniteSet(R)
      /\ \A r \in R, p \in S : p.post_id >= r.post_id => p \in R
  BY NewestIsUpper
<1>2. \A q \in posts : q.post_id \in 1 .. MaxPostId
  BY DEF GoodPosts, Numbered
<1>3. \A q \in posts : q.post_id \in Nat
  BY <1>2, FeedAssumption
<1>4. PICK m \in S \ R : \A q \in S \ R : q.post_id <= m.post_id
  <2> DEFINE ids == {q.post_id : q \in S \ R}
  <2>1. ids # {} /\ ids \subseteq 1 .. MaxPostId
    BY <1>1, <1>2
  <2> HIDE DEF ids
  <2>2. PICK k \in ids : \A j \in ids : j <= k
    BY <2>1, LastExists
  <2> HIDE DEF R
  <2>. QED
    BY <2>2 DEF ids
<1>5. R = {q \in S : q.post_id > m.post_id}
  <2> HIDE DEF R
  <2>1. ASSUME NEW q \in R PROVE q.post_id > m.post_id
    BY <1>1, <1>3, <1>4
  <2>2. ASSUME NEW q \in S, q.post_id > m.post_id PROVE q \in R
    BY <1>3, <1>4, <2>2
  <2>. QED
    BY <1>1, <2>1, <2>2
<1>6. Cardinality(R) \in Nat /\ Cardinality(R) >= n
  <2>1. ~ (Cardinality({q \in S : q.post_id > m.post_id}) < n)
    BY <1>4 DEF Newest
  <2> HIDE DEF R
  <2>2. Cardinality(R) \in Nat
    BY <1>1, FS_CardinalityType
  <2>. QED
    BY <1>5, <2>1, <2>2
<1>7. PICK r \in R : \A q \in R : r.post_id <= q.post_id
  <2> DEFINE ids == {q.post_id : q \in R}
  <2>1. R # {}
    <3> HIDE DEF R
    <3>. QED
      BY <1>6, FS_EmptySet
  <2>2. ids # {} /\ ids \subseteq 1 .. MaxPostId
    BY <1>1, <1>2, <2>1
  <2> HIDE DEF ids
  <2>3. PICK k \in ids : \A j \in ids : k <= j
    BY <2>2, FirstExists
  <2> HIDE DEF R
  <2>. QED
    BY <2>3 DEF ids
<1>8. Cardinality({q \in S : q.post_id > r.post_id}) < n
  BY <1>7 DEF Newest
<1>9. R \ {r} \subseteq {q \in S : q.post_id > r.post_id}
  <2> HIDE DEF R
  <2>1. ASSUME NEW q \in R \ {r} PROVE q \in S /\ q.post_id > r.post_id
    <3>1. q \in posts /\ r \in posts /\ q # r /\ q \in S
      BY <1>1
    <3>2. q.post_id # r.post_id
      BY <3>1 DEF GoodPosts, Numbered
    <3>. QED
      BY <1>3, <1>7, <3>1, <3>2
  <2>. QED
    BY <2>1
<1> HIDE DEF R
<1>10. Cardinality(R) - 1 <= Cardinality({q \in S : q.post_id > r.post_id})
  <2> DEFINE A == {q \in S : q.post_id > r.post_id}
  <2>1. IsFiniteSet(A)
    BY <1>1, FS_Subset
  <2>2. Cardinality(R \ {r}) = Cardinality(R) - 1
    BY <1>1, <1>7, FS_RemoveElement
  <2> HIDE DEF A
  <2>3. R \ {r} \in SUBSET A
    BY <1>9 DEF A
  <2>. QED
    BY <2>1, <2>2, <2>3, FS_Subset DEF A
<1>11. Cardinality({q \in S : q.post_id > r.post_id}) \in Nat
  BY <1>1, FS_Subset, FS_CardinalityType
<1>. QED
  BY <1>6, <1>8, <1>10, <1>11

\* A full page ends at its last post.
LEMMA LastOfPage ==
  ASSUME GoodPosts, NEW S \in SUBSET posts, S # {}
  PROVE  /\ \E p \in S : p.post_id = Last(S)
         /\ \A p \in S : Last(S) <= p.post_id
<1> DEFINE ids == {p.post_id : p \in S}
<1>1. ids # {} /\ ids \subseteq 1 .. MaxPostId
  BY DEF GoodPosts, Numbered
<1>2. \E n \in ids : \A m \in ids : n <= m
  <2> HIDE DEF ids
  <2>. QED
    BY <1>1, FirstExists
<1>3. \E n \in ids : \A p \in S : n <= p.post_id
  BY <1>2
<1>4. Last(S) \in ids /\ \A p \in S : Last(S) <= p.post_id
  BY <1>3 DEF Last
<1>. QED
  BY <1>4
-----------------------------------------------------------------------------
(* A search. *)

\* What holds of a query between two pages.
GoodQuery(q) ==
  /\ q \in Query
  /\ q.got \subseteq Matching(q.topics) /\ q.base \subseteq Matching(q.topics)
  /\ q.items = Cardinality(q.got)
  /\ q.ended => q.base \subseteq q.got
  /\ q.topics # {} /\ ~q.ended =>
       /\ \E p \in q.got : p.post_id = q.next
       /\ \A p \in q.got : p.post_id >= q.next
       /\ \A p \in q.base : p.post_id >= q.next => p \in q.got

\* What holds of a query before its first page, and before every other.
ReadyQuery(q) ==
  /\ q \in Query /\ q.topics # {}
  /\ q.got \subseteq Matching(q.topics) /\ q.base \subseteq Matching(q.topics)
  /\ q.items = Cardinality(q.got)
  /\ \A p \in q.got : ~Below(p, q.next)
  /\ \A p \in q.base : Below(p, q.next) \/ p \in q.got

LEMMA BeginReady ==
  ASSUME NEW T \in SUBSET Topics, T # {}
  PROVE  ReadyQuery([NoSearch EXCEPT !.topics = T, !.base = Matching(T)])
<1>1. Matching(T) \in SUBSET posts
  BY DEF Matching
<1>. QED
  BY <1>1, FS_EmptySet DEF ReadyQuery, NoSearch, Query, Below

LEMMA ContinueReady ==
  ASSUME GoodPosts, NEW q, GoodQuery(q), q.topics # {}, ~q.ended
  PROVE  ReadyQuery(q)
<1>1. \A p \in posts : p.post_id \in 1 .. MaxPostId
  BY DEF GoodPosts, Numbered
<1>2. \A p \in posts : p.post_id \in Nat /\ p.post_id # 0
  BY <1>1, FeedAssumption
<1>3. q.got \subseteq posts /\ q.base \subseteq posts /\ q.next \in Nat
  BY DEF GoodQuery, Query
<1>4. q.next # 0
  BY <1>2, <1>3 DEF GoodQuery
<1>5. \A p \in q.got : ~Below(p, q.next)
  BY <1>2, <1>3, <1>4 DEF GoodQuery, Below
<1>6. \A p \in q.base : Below(p, q.next) \/ p \in q.got
  BY <1>2, <1>3, <1>4 DEF GoodQuery, Below
<1>. QED
  BY <1>5, <1>6 DEF GoodQuery, ReadyQuery

\* Every page leaves the query in order.
LEMMA PagedGood ==
  ASSUME GoodPosts, NEW q, ReadyQuery(q), NEW n \in 1 .. MaxPageSize
  PROVE  GoodQuery(Paged(q, n))
<1> DEFINE S == {p \in Matching(q.topics) : Below(p, q.next)}
           R == Newest(S, n)
           g == q.got \cup R
<1>1. /\ n \in Nat \ {0} /\ S \in SUBSET posts
      /\ R = Results(q.topics, q.next, n)
  BY SearchAssumption DEF Matching, Results
<1> HIDE DEF S
<1>2. /\ R \subseteq S /\ IsFiniteSet(R)
      /\ \A r \in R, p \in S : p.post_id >= r.post_id => p \in R
  BY <1>1, NewestIsUpper
<1>3. Cardinality(R) # n => R = S
  BY <1>1, ShortPageIsAll
<1> HIDE DEF R
<1>4. Paged(q, n) =
        [q EXCEPT !.got = g, !.items = @ + Cardinality(R),
                  !.ended = ~IsFull(R, n),
                  !.next = IF IsFull(R, n) THEN Last(R) ELSE 0]
  BY <1>1 DEF Paged
<1>5. /\ q.topics \in SUBSET Topics /\ q.next \in Nat /\ q.items \in Nat
      /\ q.got \in SUBSET posts /\ q.base \in SUBSET posts
      /\ q.ended \in BOOLEAN
  BY DEF ReadyQuery, Query
<1>6. \A p \in posts : p.post_id \in Nat
  BY FeedAssumption DEF GoodPosts, Numbered
<1>7. /\ g \subseteq Matching(q.topics) /\ g \in SUBSET posts
      /\ q.base \subseteq Matching(q.topics)
  BY <1>1, <1>2, <1>5 DEF ReadyQuery, S
<1>8. q.items + Cardinality(R) = Cardinality(g) /\ Cardinality(g) \in Nat
  <2>1. IsFiniteSet(q.got)
    BY <1>5, FS_Subset DEF GoodPosts
  <2>2. q.got \cap R = {}
    BY <1>2 DEF ReadyQuery, S
  <2>3. Cardinality(g) = Cardinality(q.got) + Cardinality(R) - 0
    BY <1>2, <2>1, <2>2, FS_Union, FS_EmptySet
  <2>4. Cardinality(q.got) \in Nat /\ Cardinality(R) \in Nat
    BY <1>2, <2>1, FS_CardinalityType
  <2> HIDE DEF g
  <2>. QED
    BY <2>3, <2>4 DEF ReadyQuery
<1>9. IsFull(R, n) =>
        /\ \E p \in g : p.post_id = Last(R)
        /\ \A p \in g : p.post_id >= Last(R)
        /\ \A p \in q.base : p.post_id >= Last(R) => p \in g
        /\ Last(R) \in Nat
  <2> SUFFICES ASSUME IsFull(R, n)
               PROVE  /\ \E p \in g : p.post_id = Last(R)
                      /\ \A p \in g : p.post_id >= Last(R)
                      /\ \A p \in q.base : p.post_id >= Last(R) => p \in g
                      /\ Last(R) \in Nat
    OBVIOUS
  <2>1. R # {}
    BY <1>1, FS_EmptySet DEF IsFull
  <2>2. /\ \E p \in R : p.post_id = Last(R)
        /\ \A p \in R : Last(R) <= p.post_id
    BY <1>1, <1>2, <2>1, LastOfPage
  <2>3. PICK r \in R : r.post_id = Last(R)
    BY <2>2
  <2>4. r \in posts /\ r \in S /\ Last(R) \in Nat
    BY <1>1, <1>2, <1>6, <2>3
  <2>5. ASSUME NEW p \in q.got PROVE p.post_id >= Last(R)
    <3>1. ~Below(p, q.next) /\ Below(r, q.next)
      BY <2>4 DEF ReadyQuery, S
    <3>2. p.post_id \in Nat /\ r.post_id \in Nat
      BY <1>5, <1>6, <2>4
    <3>. QED
      BY <1>5, <2>3, <3>1, <3>2 DEF Below
  <2>6. ASSUME NEW p \in R PROVE p.post_id >= Last(R)
    BY <1>1, <1>2, <1>6, <2>2, <2>4
  <2>7. ASSUME NEW p \in q.base, p.post_id >= Last(R) PROVE p \in g
    <3>1. p \in S \/ p \in q.got
      BY <1>7 DEF ReadyQuery, S
    <3>2. p \in S => p \in R
      BY <1>2, <2>3, <2>7
    <3>. QED
      BY <3>1, <3>2
  <2>. QED
    BY <2>3, <2>4, <2>5, <2>6, <2>7
<1>10. ~IsFull(R, n) => q.base \subseteq g
  <2>1. ~IsFull(R, n) => R = S
    BY <1>3 DEF IsFull
  <2>. QED
    BY <1>7, <2>1 DEF ReadyQuery, S
<1> DEFINE b == IsFull(R, n)
<1>11. b \in BOOLEAN
  BY DEF IsFull
<1> HIDE DEF g
<1>12. Paged(q, n) =
        [topics |-> q.topics, next |-> IF b THEN Last(R) ELSE 0, ended |-> ~b,
         got |-> g, items |-> Cardinality(g), base |-> q.base]
  BY <1>4, <1>8 DEF ReadyQuery, Query
<1> HIDE DEF b
<1>13. Paged(q, n) \in Query
  <2>1. (IF b THEN Last(R) ELSE 0) \in Nat
    BY <1>9 DEF b
  <2>. QED
    BY <1>5, <1>7, <1>8, <1>11, <1>12, <2>1 DEF Query
<1> DEFINE r == Paged(q, n)
<1>14. /\ r.got = g /\ r.base = q.base /\ r.topics = q.topics
       /\ r.items = Cardinality(g) /\ r.ended = ~b
       /\ r.next = IF b THEN Last(R) ELSE 0
  BY <1>12
<1>15. r \in Query
  BY <1>13
<1> HIDE DEF r
<1>16. r.ended => r.base \subseteq r.got
  BY <1>10, <1>14 DEF b
<1>17. ~r.ended => /\ \E p \in r.got : p.post_id = r.next
                   /\ \A p \in r.got : p.post_id >= r.next
                   /\ \A p \in r.base : p.post_id >= r.next => p \in r.got
  BY <1>9, <1>14 DEF b
<1>18. GoodQuery(r)
  BY <1>7, <1>14, <1>15, <1>16, <1>17 DEF GoodQuery
<1>. QED
  BY <1>18 DEF r

-----------------------------------------------------------------------------
(* The theorems. *)

SearchInv ==
  /\ GoodPosts /\ query \in [Searchers -> Query]
  /\ \A s \in Searchers : GoodQuery(query[s])

LEMMA NoSearchGood == GoodQuery(NoSearch)
  BY FS_EmptySet DEF GoodQuery, NoSearch, Query

\* Posts only grow, and stay finitely many.
LEMMA PostsStep ==
  ASSUME GoodPosts, [Next]_vars
  PROVE  GoodPosts' /\ posts \subseteq posts'
<1>1. Numbered'
  BY NumberedStep DEF GoodPosts
<1>2. CASE NewPost
  <2>1. PICK p : posts' = posts \cup {p}
    BY <1>2, NewPostEffect DEF GoodPosts
  <2>. QED
    BY <1>1, <2>1, FS_AddElement DEF GoodPosts
<1>3. CASE UNCHANGED posts
  BY <1>1, <1>3 DEF GoodPosts
<1>. QED
  BY <1>2, <1>3 DEF Next, ChangeSubscription, Read, Ack, vars

LEMMA SearchInvariant == SearchSpec => []SearchInv
<1>1. Init /\ query = [s \in Searchers |-> NoSearch] => SearchInv
  BY NoSearchGood, FS_EmptySet
    DEF Init, Log!Init, SearchInv, GoodPosts, GoodQuery, Numbered
<1>2. SearchInv /\ [SearchNext]_<<vars, query>> => SearchInv'
  <2> SUFFICES ASSUME SearchInv, [SearchNext]_<<vars, query>> PROVE SearchInv'
    OBVIOUS
  <2>1. CASE [Next]_vars /\ UNCHANGED query
    <3>1. GoodPosts' /\ posts \subseteq posts'
      BY <2>1, PostsStep DEF SearchInv
    <3>2. ASSUME NEW s \in Searchers PROVE GoodQuery(query[s])'
      <4> DEFINE q == query[s]
      <4>1. GoodQuery(q)
        BY DEF SearchInv
      <4>2. q' = q
        BY <2>1
      <4> HIDE DEF q
      <4>3. Query \subseteq Query'
        BY <3>1 DEF Query
      <4>4. Matching(q.topics) \subseteq Matching(q.topics)'
        BY <3>1, <4>2 DEF Matching
      <4>5. GoodQuery(q)'
        BY <4>1, <4>2, <4>3, <4>4 DEF GoodQuery
      <4>. QED
        BY <4>5 DEF q
    <3>3. query' \in [Searchers -> Query']
      BY <2>1, <3>1 DEF SearchInv, Query
    <3>. QED
      BY <3>1, <3>2, <3>3 DEF SearchInv
  <2>2. ASSUME NEW s \in Searchers, NEW q, GoodQuery(q), UNCHANGED vars,
               query' = [query EXCEPT ![s] = q]
        PROVE  SearchInv'
    <3>1. UNCHANGED posts
      BY <2>2 DEF vars
    <3>2. \A r : GoodQuery(r) => GoodQuery(r)'
      BY <3>1 DEF GoodQuery, Query, Matching
    <3>3. GoodPosts'
      BY <3>1 DEF SearchInv, GoodPosts, Numbered
    <3>4. \A x \in Searchers : query'[x] = IF x = s THEN q ELSE query[x]
      BY <2>2 DEF SearchInv
    <3>. QED
      BY <2>2, <3>1, <3>3, <3>4 DEF SearchInv, GoodQuery, Query, Matching
  <2>3. ASSUME NEW s \in Searchers, Begin(s) PROVE SearchInv'
    <3>1. PICK T \in (SUBSET Topics) \ {{}}, n \in 1 .. MaxPageSize :
            query' = [query EXCEPT ![s] =
              Paged([NoSearch EXCEPT !.topics = T, !.base = Matching(T)], n)]
      BY <2>3 DEF Begin
    <3> DEFINE q == [NoSearch EXCEPT !.topics = T, !.base = Matching(T)]
    <3>2. ReadyQuery(q)
      BY BeginReady
    <3> HIDE DEF q
    <3>3. GoodQuery(Paged(q, n))
      BY <3>2, PagedGood DEF SearchInv
    <3>4. query' = [query EXCEPT ![s] = Paged(q, n)]
      BY <3>1 DEF q
    <3>. QED
      BY <2>2, <2>3, <3>3, <3>4 DEF Begin
  <2>4. ASSUME NEW s \in Searchers, Continue(s) PROVE SearchInv'
    <3>1. PICK n \in 1 .. MaxPageSize :
            query' = [query EXCEPT ![s] = Paged(query[s], n)]
      BY <2>4 DEF Continue
    <3>2. GoodQuery(query[s]) /\ query[s].topics # {} /\ ~query[s].ended
      BY <2>4 DEF SearchInv, Continue
    <3>3. ReadyQuery(query[s])
      BY <3>2, ContinueReady DEF SearchInv
    <3>4. GoodQuery(Paged(query[s], n))
      BY <3>3, PagedGood DEF SearchInv
    <3>. QED
      BY <2>2, <2>4, <3>1, <3>4 DEF Continue
  <2>5. ASSUME NEW s \in Searchers, Leave(s) PROVE SearchInv'
    BY <2>2, <2>5, NoSearchGood DEF Leave
  <2>. QED
    BY <2>1, <2>3, <2>4, <2>5 DEF SearchNext
<1>. QED
  BY <1>1, <1>2, PTL DEF SearchSpec, SearchInit

\* A client that follows next_cursor to the end misses nothing, whatever is
\* published meanwhile (search).
THEOREM SearchMissesNothing == SearchSpec => []NothingMissed
<1>1. SearchInv => NothingMissed
  BY DEF SearchInv, GoodQuery, NothingMissed
<1>. QED
  BY <1>1, SearchInvariant, PTL

\* And it is given nothing twice (search).
THEOREM SearchRepeatsNothing == SearchSpec => []NothingRepeated
<1>1. SearchInv => NothingRepeated
  BY DEF SearchInv, GoodQuery, NothingRepeated
<1>. QED
  BY <1>1, SearchInvariant, PTL

\* The reason for both: between two pages the cursor separates what has been
\* given from what has not (search).
THEOREM CursorsSplit == SearchSpec => []CursorSplits
<1>1. SearchInv => CursorSplits
  BY DEF SearchInv, GoodQuery, CursorSplits
<1>. QED
  BY <1>1, SearchInvariant, PTL

\* The queries keep their types, and no post of another topic is given (search).
THEOREM SearchTypeCorrect == SearchSpec => []SearchTypeOK
<1>1. SearchInv => SearchTypeOK
  BY DEF SearchInv, GoodQuery, SearchTypeOK, Matching
<1>. QED
  BY <1>1, SearchInvariant, PTL
=============================================================================
