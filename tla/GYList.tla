------------------------------- MODULE GYList -------------------------------
(***************************************************************************)
(* CommonDefine/GYList.h: the intrusive, doubly linked list that holds     *)
(* every session of the gateway.  The links are fields of the items, so a  *)
(* list is its head and its count, all lists share the links, and an item  *)
(* that is still linked somewhere can be damaged through another list.     *)
(*                                                                         *)
(* A memory m is [next, prev : item -> item or NULL, head : list -> item   *)
(* or NULL, count : list -> Int].  m_tail is left out: only Add(GYList&)   *)
(* reads it, which neither server calls.                                   *)
(***************************************************************************)
EXTENDS Integers

CONSTANT NULL   \* GYNULL

(* What PickUpFirstItem returns. *)
FirstItem(m, l) == IF m.count[l] <= 0 THEN NULL ELSE m.head[l]

(* What PickUpFirstItem does when it returns an item: the m_prev of the    *)
(* new head is not cleared.                                                *)
PickUpFirstItem(m, l) ==
    LET t == m.head[l]
    IN  [next  |-> [m.next EXCEPT ![t] = NULL],
         prev  |-> [m.prev EXCEPT ![t] = NULL],
         head  |-> [m.head EXCEPT ![l] = m.next[t]],
         count |-> [m.count EXCEPT ![l] = @ - 1]]

(* The links with that of item i, where there is one, set to v. *)
Pointing(links, i, v) == IF i = NULL THEN links ELSE [links EXCEPT ![i] = v]

(* Mutant of Link: the old head does not point back. *)
LinkForward(m, l, s) ==
    [m EXCEPT !.next = [m.next EXCEPT ![s] = m.head[l]],
              !.prev = [m.prev EXCEPT ![s] = NULL]]

(* The half of Add that writes the links, before m_list itself moves. *)
Link(m, l, s) ==
    [m EXCEPT !.next = [m.next EXCEPT ![s] = m.head[l]],
              !.prev = Pointing([m.prev EXCEPT ![s] = NULL], m.head[l], s)]

(* The half of Add that publishes the item. *)
Publish(m, l, s) ==
    [next  |-> m.next,
     prev  |-> m.prev,
     head  |-> [m.head EXCEPT ![l] = s],
     count |-> [m.count EXCEPT ![l] = @ + 1]]

Add(m, l, s) == Publish(Link(m, l, s), l, s)

(* Mutant of Delete: the next item keeps pointing back at s. *)
DeleteForward(m, l, s) ==
    IF m.head[l] = NULL THEN m
    ELSE [next  |-> [Pointing(m.next, m.prev[s], m.next[s]) EXCEPT ![s] = NULL],
          prev  |-> [m.prev EXCEPT ![s] = NULL],
          head  |-> [m.head EXCEPT ![l] = IF @ = s THEN m.next[s] ELSE @],
          count |-> [m.count EXCEPT ![l] = @ - 1]]

(* Delete(s): no check that s is in l; only an empty l is noticed. *)
Delete(m, l, s) ==
    IF m.head[l] = NULL THEN m
    ELSE [next  |-> [Pointing(m.next, m.prev[s], m.next[s]) EXCEPT ![s] = NULL],
          prev  |-> [Pointing(m.prev, m.next[s], m.prev[s]) EXCEPT ![s] = NULL],
          head  |-> [m.head EXCEPT ![l] = IF @ = s THEN m.next[s] ELSE @],
          count |-> [m.count EXCEPT ![l] = @ - 1]]

(* m_workSession = tempSessionList: the default assignment of a list. *)
Assign(m, l, from) ==
    [m EXCEPT !.head = [m.head EXCEPT ![l] = m.head[from]],
              !.count = [m.count EXCEPT ![l] = m.count[from]]]

(* The constructor, or CleanUp, of a list. *)
CleanUpList(m, l) ==
    [next  |-> m.next,
     prev  |-> m.prev,
     head  |-> [m.head EXCEPT ![l] = NULL],
     count |-> [m.count EXCEPT ![l] = 0]]

(* The n-th item a walk along m_next from the head of l meets, or NULL. *)
Walk(m, l) ==
    LET item[n \in Nat \ {0}] ==
            IF n = 1 THEN m.head[l]
            ELSE IF item[n - 1] = NULL THEN NULL ELSE m.next[item[n - 1]]
    IN  item

Items(m, l) == {Walk(m, l)[n] : n \in 1 .. m.count[l]} \ {NULL}

(* l is a list: as many different items as its count says and then the end, *)
(* each of them pointing back at the one before it.                        *)
WellFormed(m, l) ==
    LET item == Walk(m, l)
        n    == m.count[l]
    IN  /\ n >= 0
        /\ item[n + 1] = NULL
        /\ \A i \in 1 .. n : item[i] # NULL
        /\ \A i \in 2 .. n : m.prev[item[i]] = item[i - 1]
        /\ \A i, j \in 1 .. n : item[i] = item[j] => i = j
=============================================================================
