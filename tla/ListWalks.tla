------------------------------ MODULE ListWalks ------------------------------
(***************************************************************************)
(* Reachability along the next pointers of the lists of linklist.h, for    *)
(* the proofs about walks that run beside list_add_tail (the ARP cache and *)
(* the socket table have no lock).                                         *)
(*                                                                         *)
(* It is defined by the sets a walk cannot leave, not by the length of a   *)
(* path, so that a step of a walk and a store of list_add_tail are each    *)
(* one argument about such a set, without induction.                       *)
(***************************************************************************)
EXTENDS TLAPS

\* No walk that goes on from x can leave S before it is at the head.
Closed(next, head, S) == \A n \in S \ {head} : next[n] \in S

\* A walk that goes on from x comes to s before it is back at the head.
Reaches(next, head, x, s) ==
    \A S \in SUBSET DOMAIN next : x \in S /\ Closed(next, head, S) => s \in S

\* A walk that stands on an entry has come to it.
LEMMA ReachesHere == ASSUME NEW next, NEW head, NEW x PROVE Reaches(next, head, x, x)
BY DEF Reaches

\* At the head the walk is over.
LEMMA HeadReachesNone ==
    ASSUME NEW N, NEW next \in [N -> N], NEW head \in N, NEW s, s # head
    PROVE  ~Reaches(next, head, head, s)
<1>1. {head} \in SUBSET DOMAIN next /\ Closed(next, head, {head})
  BY DEF Closed
<1>. QED
  BY <1>1 DEF Reaches

\* A step of list_for_each passes over no entry but the one it stands on.
LEMMA ReachesOn ==
    ASSUME NEW N, NEW next \in [N -> N], NEW head \in N, NEW x \in N, x # head,
           NEW s, Reaches(next, head, x, s), s # x
    PROVE  Reaches(next, head, next[x], s)
<1>1. SUFFICES ASSUME NEW S \in SUBSET DOMAIN next, next[x] \in S, Closed(next, head, S)
               PROVE  s \in S
  BY DEF Reaches
<1>2. S \cup {x} \in SUBSET DOMAIN next /\ x \in S \cup {x}
  OBVIOUS
<1>3. Closed(next, head, S \cup {x})
  BY <1>1 DEF Closed
<1>4. s \in S \cup {x}
  BY <1>2, <1>3 DEF Reaches
<1>. QED
  BY <1>4

\* What follows an entry is reached wherever the entry is.
LEMMA ReachesBehind ==
    ASSUME NEW next, NEW head, NEW x, NEW s, s # head, Reaches(next, head, x, s)
    PROVE  Reaches(next, head, x, next[s])
BY DEF Reaches, Closed

\* The stores of list_add_tail: the next pointer of an entry that was the last
\* one, or points to itself, may be set to anything, and no walk loses an entry
\* that lay before it.
LEMMA StoreKeepsReaches ==
    ASSUME NEW N, NEW next \in [N -> N], NEW head \in N, NEW n \in N, NEW k \in N,
           next[n] \in {n, head},
           NEW x, NEW s, s # head, Reaches(next, head, x, s)
    PROVE  Reaches([next EXCEPT ![n] = k], head, x, s)
<1>. DEFINE new == [next EXCEPT ![n] = k]
<1>1. SUFFICES ASSUME NEW S \in SUBSET DOMAIN new, x \in S, Closed(new, head, S)
               PROVE  s \in S
  BY DEF Reaches
<1>2. S \cup {head} \in SUBSET DOMAIN next /\ x \in S \cup {head}
  BY <1>1
<1>3. Closed(next, head, S \cup {head})
  <2>1. SUFFICES ASSUME NEW y \in S, y # head PROVE next[y] \in S \cup {head}
    BY DEF Closed
  <2>2. new[y] \in S /\ (y # n => new[y] = next[y])
    BY <1>1, <2>1 DEF Closed
  <2>. QED
    BY <2>2
<1>4. s \in S \cup {head}
  BY <1>2, <1>3 DEF Reaches
<1>. QED
  BY <1>4

\* The same, of a walk from the head.
LEMMA StoreKeepsListed ==
    ASSUME NEW N, NEW next \in [N -> N], NEW head \in N, NEW n \in N, NEW k \in N,
           next[n] \in {n, head},
           NEW s, s # head, Reaches(next, head, next[head], s)
    PROVE  Reaches([next EXCEPT ![n] = k], head, [next EXCEPT ![n] = k][head], s)
<1>1. CASE n = head
  BY <1>1, HeadReachesNone
<1>2. CASE n # head
  <2>1. [next EXCEPT ![n] = k][head] = next[head]
    BY <1>2
  <2>. QED
    BY <2>1, StoreKeepsReaches
<1>. QED
  BY <1>1, <1>2

\* list_add_tail's first store: the new entry is reached as soon as the entry
\* that was the last one points to it.
LEMMA AppendedIsListed ==
    ASSUME NEW N, NEW next \in [N -> N], NEW head \in N, NEW last \in N, NEW k \in N,
           next[last] = head, last # head => Reaches(next, head, next[head], last)
    PROVE  Reaches([next EXCEPT ![last] = k], head, [next EXCEPT ![last] = k][head], k)
<1>. DEFINE new == [next EXCEPT ![last] = k]
<1>0. new[last] = k
  OBVIOUS
<1>1. CASE last = head
  BY <1>0, <1>1, ReachesHere
<1>2. CASE last # head
  <2>1. Reaches(new, head, new[head], last)
    BY <1>2, StoreKeepsListed
  <2>. QED
    BY <1>0, <1>2, <2>1, ReachesBehind
<1>. QED
  BY <1>1, <1>2
=============================================================================
