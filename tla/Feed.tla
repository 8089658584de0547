-------------------------------- MODULE Feed --------------------------------
(***************************************************************************)
(* The in-app feed of one user: GET /feed returns the newest posts above    *)
(* the user's watermarks together with new watermarks, and POST /feed/ack   *)
(* stores watermarks.  Several clients of the user read and acknowledge     *)
(* independently; an acknowledgement may come late or be sent again.        *)
(*                                                                         *)
(* Posts appear as TopicLog promises: in order within a topic.  Across      *)
(* topics their ids come from one sequence, but become visible in any       *)
(* order.                                                                   *)
(***************************************************************************)
EXTENDS Naturals, FiniteSets

CONSTANTS
  Clients,   \* the user's devices and browser tabs
  Topics,    \* the topics
  Articles,  \* the articles
  Limit,     \* the page size of GET /feed
  MaxPostId  \* bound: the last post_id

ASSUME FeedAssumption == Limit \in Nat /\ MaxPostId \in Nat

VARIABLES
  posts,       \* articles_by_topic
  subscribed,  \* the user's subscriptions
  offset,      \* feed_offsets.last_seen_post_id, 0 without a row
  reply,       \* the watermarks each client was given last: see NoReply
  shown,       \* history: the posts returned to some client
  cut          \* history: the unread posts for which some page had no room

vars == <<posts, subscribed, offset, reply, shown, cut>>

Log == INSTANCE TopicLog

\* Watermarks for no topic.
NoReply == [t \in {} |-> 0]

Init ==
  /\ Log!Init
  /\ subscribed \in SUBSET Topics
  /\ offset = [t \in Topics |-> 0]
  /\ reply = [c \in Clients |-> NoReply]
  /\ shown = {} /\ cut = {}

\* The classifier publishes a post.
NewPost ==
  /\ \E t \in Topics, n \in 1 .. MaxPostId, a \in Articles :
       /\ \A p \in posts : p.post_id # n
       /\ Log!Publish(a, {[topic |-> t, post_id |-> n, article |-> a]})
  /\ UNCHANGED <<subscribed, offset, reply, shown, cut>>

\* POST /subscribe and /unsubscribe; the watermark of the topic stays.
ChangeSubscription(t) ==
  /\ subscribed' =
       IF t \in subscribed THEN subscribed \ {t} ELSE subscribed \cup {t}
  /\ UNCHANGED <<posts, offset, reply, shown, cut>>

-----------------------------------------------------------------------------
(* Reading. *)

Unread == {p \in posts : p.topic \in subscribed /\ p.post_id > offset[p.topic]}

\* The ORDER BY and the LIMIT of read_unread_feed.
PageOf(S) ==
  {p \in S : Cardinality({q \in S : q.post_id > p.post_id}) < Limit}

\* Mutant: one watermark for all topics.
MutWatermark(S, t) ==
  CHOOSE n \in {p.post_id : p \in S} : \A p \in S : p.post_id <= n

\* The last post of topic t among those of S.
Watermark(S, t) ==
  CHOOSE n \in {p.post_id : p \in {q \in S : q.topic = t}} :
    \A p \in S : p.topic = t => p.post_id <= n

Read(c) ==
  LET page == PageOf(Unread)
  IN  /\ shown' = shown \cup page
      /\ cut' = cut \cup (Unread \ page)
      /\ reply' = [reply EXCEPT ![c] =
                     [t \in {p.topic : p \in page} |-> Watermark(page, t)]]
      /\ UNCHANGED <<posts, subscribed, offset>>

-----------------------------------------------------------------------------
(* Acknowledging. *)

\* Mutant: the last acknowledgement wins.
MutAcked(t, n) == n

\* The GREATEST of ack_feed.
Acked(t, n) == IF n > offset[t] THEN n ELSE offset[t]

\* The server stores what the client was given, as often as it is sent.
Ack(c) ==
  /\ reply[c] # NoReply
  /\ offset' = [t \in Topics |->
       IF t \in DOMAIN reply[c] THEN Acked(t, reply[c][t]) ELSE offset[t]]
  /\ UNCHANGED <<posts, subscribed, reply, shown, cut>>

Next ==
  \/ NewPost
  \/ \E t \in Topics : ChangeSubscription(t)
  \/ \E c \in Clients : Read(c) \/ Ack(c)

Spec == Init /\ [][Next]_vars

-----------------------------------------------------------------------------
(* Properties. *)

\* n is no watermark, or a visible post of topic t.
IsWatermark(t, n) == n = 0 \/ \E p \in posts : p.topic = t /\ p.post_id = n

\* Types; a watermark, stored or on its way, is a visible post of its topic.
TypeOK ==
  /\ posts \subseteq Log!Post
  /\ subscribed \subseteq Topics
  /\ offset \in [Topics -> Nat]
  /\ \A t \in Topics : IsWatermark(t, offset[t])
  /\ DOMAIN reply = Clients
  /\ \A c \in Clients :
       /\ DOMAIN reply[c] \subseteq Topics
       /\ \A t \in DOMAIN reply[c] : IsWatermark(t, reply[c][t])
  /\ shown \subseteq posts /\ cut \subseteq posts

\* What watermark n of topic t covers without having been shown to the user.
Hidden(t, n) == {p \in posts : p.topic = t /\ p.post_id <= n /\ p \notin shown}

\* A watermark never hides a post that the user was not shown.
NothingHidden == \A t \in Topics : Hidden(t, offset[t]) = {}

\* A watermark hides no post that the user was not shown, unless a page had no
\* room for that very post: whatever is published or acknowledged between a
\* read and its acknowledgement stays unread, however many posts there are.
\* This is where the feed relies on the topic being an append-only log
\* (ack_feed stores a number, not the posts).
OnlyCutHidden == \A t \in Topics : Hidden(t, offset[t]) \subseteq cut

\* Neither do the watermarks that are on their way.
RepliesCover ==
  \A c \in Clients : \A t \in DOMAIN reply[c] : Hidden(t, reply[c][t]) \subseteq cut

\* No two posts have one id (the sequence, as far as the bound reaches).
Numbered ==
  \A p \in posts :
    /\ p.post_id \in 1 .. MaxPostId
    /\ \A q \in posts : q.post_id = p.post_id => q = p

\* The inductive invariant behind OnlyCutHidden.
FeedInv == Numbered /\ RepliesCover /\ OnlyCutHidden

\* A late or repeated acknowledgement never moves a watermark back, which
\* would return posts that the user has acknowledged.
NeverRewinds == [][\A t \in Topics : offset'[t] >= offset[t]]_offset
=============================================================================
