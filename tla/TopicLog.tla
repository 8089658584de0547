------------------------------ MODULE TopicLog ------------------------------
(***************************************************************************)
(* What the classifier promises the readers of articles_by_topic: every     *)
(* topic is an append-only log.  A post that becomes visible in a topic has *)
(* a higher post_id than all the posts readers already see there, and an    *)
(* article is posted to a topic at most once.  The digest coordinator       *)
(* (last_pushed_post_id) and the feed (last_seen_post_id) both remember one *)
(* number per topic and never look below it again, so a post that appeared  *)
(* late, under a smaller number, would never reach anyone.                  *)
(***************************************************************************)
EXTENDS Naturals

CONSTANTS Topics, Articles

Post == [topic : Topics, post_id : Nat, article : Articles]

VARIABLE posts  \* the rows of articles_by_topic that readers can see

Init == posts = {}

\* p comes after everything visible in its topic and repeats no article.
Follows(p) ==
  \A q \in posts :
    q.topic = p.topic => q.post_id < p.post_id /\ q.article # p.article

\* The classification of article a becomes visible, at most one post a topic.
Publish(a, new) ==
  /\ new \subseteq Post
  /\ \A p \in new : p.article = a /\ Follows(p)
  /\ \A p, q \in new : p.topic = q.topic => p = q
  /\ posts' = posts \cup new

Next == \E a \in Articles : Publish(a, posts' \ posts)

Spec == Init /\ [][Next]_posts
=============================================================================
